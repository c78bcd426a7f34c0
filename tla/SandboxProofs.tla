----------------------------- MODULE SandboxProofs -----------------------------
(***************************************************************************)
(* Proofs about the sandbox.  SandboxRegistry, for any callers, paths and  *)
(* calls: what is granted is durable, and the callers' processes with      *)
(* their lock and files implement CapabilityMap.  AclRegistry and          *)
(* SandboxProcess, for any processes, trees of files, calls and output:    *)
(* every entry in the access lists of the host can be released, and a      *)
(* launch tells what became of its child and leaves nothing of it running. *)
(***************************************************************************)
EXTENDS SandboxRegistry, AclRegistry, SandboxProcess, TLAPS

-----------------------------------------------------------------------------
(* The registry of capabilities.                                           *)

Points == {"idle", "start", "open", "lock", "load", "grant", "remove", "create",
           "write", "rename", "reply"}

OldRows == [path : Paths, access : {"read_only", "read_write", "read_modify"}]

ModeOf(asked) == IF asked.op = "reuse" THEN "shared" ELSE "exclusive"

(* What a call that writes makes of the rows it loaded.                       *)
Changed(asked, won, stored) ==
    IF asked.op = "refresh" THEN stored \cup RowsAt(asked, won)
    ELSE IF asked.op = "release"
    THEN {row \in stored : row.path # Canonical[asked.requests[1].path]}
    ELSE {}

-----------------------------------------------------------------------------
(* The inductive invariant: what holds of a caller at each point of its call. *)

CallOK(p, asked, i, won) ==
    /\ p = "idle" <=> asked = None
    /\ p # "idle" => asked \in Calls /\ won \subseteq DOMAIN asked.requests
    /\ i \in Nat \ {0}

FreshOK(p, i, won, bad, fails) ==
    p \in {"idle", "start", "open", "lock", "load"} =>
       i = 1 /\ won = {} /\ bad = {} /\ ~fails

LockOK(p, asked, lock) ==
    /\ p \in {"idle", "start", "open", "lock"} => lock = "none"
    /\ p \in {"load", "grant", "remove", "create", "write", "rename"} =>
          lock = ModeOf(asked)
    /\ p = "reply" => lock \in {"none", ModeOf(asked)}

GrantOK(p, asked, i, rows, won, bad, fails, stored) ==
    p = "grant" =>
       /\ ~fails
       /\ 1..(i - 1) \subseteq won \cup bad
       /\ \/ asked.op = "refresh" /\ rows = stored \cup RowsAt(asked, won)
          \/ /\ asked.op = "reuse"
             /\ rows = stored
             /\ RowsAt(asked, won) \subseteq stored

RemoveOK(p, asked, rows, won, bad, fails, stored) ==
    p = "remove" =>
       /\ ~fails /\ won = {} /\ bad = {} /\ rows = stored
       /\ asked.op \in {"release", "release_all"}

SaveOK(p, asked, rows, won, bad, fails, stored) ==
    p \in {"create", "write", "rename"} =>
       /\ ~fails
       /\ asked.op # "reuse"
       /\ rows = Changed(asked, won, stored)
       /\ asked.op = "refresh" => DOMAIN asked.requests \subseteq won \cup bad
       /\ asked.op # "refresh" => won = {} /\ bad = {}

ReplyOK(p, asked, won, bad, fails, lock, stored) ==
    p = "reply" /\ ~fails =>
       /\ RowsAt(asked, won) \subseteq stored
       /\ won # {} => lock = ModeOf(asked)
       /\ asked.op \in {"refresh", "reuse"} =>
             DOMAIN asked.requests \subseteq won \cup bad

CallerOK(p, asked, i, rows, won, bad, fails, lock, stored, tmp) ==
    /\ CallOK(p, asked, i, won)
    /\ FreshOK(p, i, won, bad, fails)
    /\ LockOK(p, asked, lock)
    /\ GrantOK(p, asked, i, rows, won, bad, fails, stored)
    /\ RemoveOK(p, asked, rows, won, bad, fails, stored)
    /\ SaveOK(p, asked, rows, won, bad, fails, stored)
    /\ ReplyOK(p, asked, won, bad, fails, lock, stored)
    /\ p = "rename" => tmp = rows

Caller(c) ==
    CallerOK(pc[c], call[c], at[c], mem[c], granted[c], faulty[c], failed[c],
             held[c], Registered, temp[Pid[c]])

LocalTypes ==
    /\ pc \in [Callers -> Points]
    /\ mem \in [Callers -> SUBSET Rows]
    /\ held \in [Callers -> {"none", "shared", "exclusive"}]
    /\ failed \in [Callers -> BOOLEAN]
    /\ DOMAIN call = Callers /\ call = [c \in Callers |-> call[c]]
    /\ DOMAIN at = Callers /\ at = [c \in Callers |-> at[c]]
    /\ DOMAIN granted = Callers /\ granted = [c \in Callers |-> granted[c]]
    /\ DOMAIN faulty = Callers /\ faulty = [c \in Callers |-> faulty[c]]

DiskTypes ==
    /\ file = None \/ file \in SUBSET OldRows
    /\ temp = [p \in {Pid[c] : c \in Callers} |-> temp[p]]

(* The lock: an exclusive holder is alone.                                    *)
Alone == \A c, d \in Callers : c # d /\ held[c] = "exclusive" => held[d] = "none"

RegistryInv == /\ LocalTypes /\ DiskTypes
               /\ Alone
               /\ \A c \in Callers : Caller(c)

-----------------------------------------------------------------------------
(* Rows.                                                                      *)

LEMMA LoadedRows ==
    ASSUME NEW content \in SUBSET OldRows
    PROVE  Loaded(content) \in SUBSET Rows
BY DEF Loaded, Rows, OldRows

LEMMA LoadedAgain ==
    ASSUME NEW content \in SUBSET Rows
    PROVE  Loaded(content) = content
<1>1. ASSUME NEW row \in content
      PROVE [row EXCEPT !.access = IF @ = "read_modify" THEN "read_write" ELSE @] = row
    BY DEF Rows
<1>2. QED BY <1>1 DEF Loaded

(* Every pair a request asks for is a row.                                    *)
LEMMA AskedRows ==
    ASSUME NEW asked \in Calls, NEW indices \in SUBSET (DOMAIN asked.requests)
    PROVE  /\ RowsAt(asked, indices) \in SUBSET Rows
           /\ RowsAt(asked, indices) \subseteq Wish(asked).wants
           /\ asked.requests \in Seq(Rows)
<1>1. asked.requests \in Seq(Rows) /\ Canonical \in [Paths -> Paths]
    BY RegistryAssumption
<1>2. ASSUME NEW i \in indices PROVE Row(asked.requests[i]) \in Rows
    <2>1. asked.requests[i] \in Rows BY <1>1
    <2>2. QED BY <1>1, <2>1 DEF Row, Rows
<1>3. RowsAt(asked, indices) \in SUBSET Rows BY <1>2 DEF RowsAt
<1>4. Wish(asked).wants = RowsAt(asked, DOMAIN asked.requests) BY DEF Wish
<1>5. QED BY <1>1, <1>3, <1>4 DEF RowsAt

LEMMA RegisteredRows ==
    ASSUME DiskTypes PROVE Registered \in SUBSET Rows
BY LoadedRows DEF DiskTypes, Registered

(* What the other callers hold is not disturbed by a step of a caller that    *)
(* leaves the files alone or holds the lock exclusively.                      *)
LEMMA OneCaller ==
    ASSUME RegistryInv, NEW c \in Callers,
           LocalTypes', DiskTypes', Alone', Caller(c)',
           held[c] = "exclusive" \/ (file' = file /\ temp' = temp),
           \A d \in Callers \ {c} :
              /\ pc'[d] = pc[d] /\ call'[d] = call[d] /\ at'[d] = at[d]
              /\ mem'[d] = mem[d] /\ granted'[d] = granted[d]
              /\ faulty'[d] = faulty[d] /\ failed'[d] = failed[d]
              /\ held'[d] = held[d]
    PROVE  RegistryInv'
<1>1. ASSUME NEW d \in Callers \ {c}, held[c] = "exclusive" PROVE Caller(d)'
    <2>1. held[d] = "none" BY <1>1 DEF RegistryInv, Alone
    <2>2. Caller(d) BY DEF RegistryInv
    <2>3. pc[d] \in {"idle", "start", "open", "lock", "reply"}
        BY <2>1, <2>2 DEF RegistryInv, LocalTypes, Points, Caller, CallerOK, LockOK, ModeOf
    <2>4. pc[d] = "reply" /\ ~failed[d] => RowsAt(call[d], granted[d]) = {}
        BY <2>1, <2>2 DEF Caller, CallerOK, ReplyOK, ModeOf, RowsAt
    <2>5. GrantOK(pc[d], call[d], at[d], mem[d], granted[d], faulty[d], failed[d], Registered')
        BY <2>3 DEF GrantOK
    <2>6. RemoveOK(pc[d], call[d], mem[d], granted[d], faulty[d], failed[d], Registered')
        BY <2>3 DEF RemoveOK
    <2>7. SaveOK(pc[d], call[d], mem[d], granted[d], faulty[d], failed[d], Registered')
        BY <2>3 DEF SaveOK
    <2>8. ReplyOK(pc[d], call[d], granted[d], faulty[d], failed[d], held[d], Registered')
        BY <2>2, <2>4 DEF ReplyOK, Caller, CallerOK
    <2>9. QED BY <2>2, <2>3, <2>5, <2>6, <2>7, <2>8 DEF Caller, CallerOK
<1>2. ASSUME NEW d \in Callers \ {c}, file' = file, temp' = temp PROVE Caller(d)'
    BY <1>2 DEF RegistryInv, Caller, Registered
<1>3. QED BY <1>1, <1>2 DEF RegistryInv

-----------------------------------------------------------------------------
(* The invariant, action by action.                                           *)

LEMMA InitInv == ASSUME Init PROVE RegistryInv
<1>1. DiskTypes BY RegistryAssumption DEF Init, DiskTypes, OldRows
<1>2. LocalTypes BY DEF Init, LocalTypes, Idle, Points
<1>3. Alone BY DEF Init, Alone
<1>4. ASSUME NEW c \in Callers PROVE Caller(c)
    BY DEF Init, Idle, Caller, CallerOK, CallOK, FreshOK, LockOK, GrantOK, RemoveOK,
           SaveOK, ReplyOK
<1>5. QED BY <1>1, <1>2, <1>3, <1>4 DEF RegistryInv

LEMMA BeginInv ==
    ASSUME RegistryInv, NEW c \in Callers, NEW asked \in Calls, Begin(c, asked)
    PROVE  RegistryInv'
<1>1. LocalTypes' /\ DiskTypes' /\ Alone'
    BY DEF Begin, RegistryInv, LocalTypes, DiskTypes, Alone, disk, Points
<1>2. Caller(c)'
    BY RegistryAssumption
    DEF Begin, RegistryInv, LocalTypes, disk, Caller, CallerOK, CallOK, FreshOK, LockOK,
        GrantOK, RemoveOK, SaveOK, ReplyOK, Registered
<1>3. QED BY <1>1, <1>2, OneCaller DEF Begin, disk, RegistryInv, LocalTypes

LEMMA FailInv ==
    ASSUME RegistryInv, NEW c \in Callers, Fail(c), pc[c] # "idle",
           held' = held, file' = file,
           held[c] = "exclusive" \/ temp' = temp, DiskTypes'
    PROVE  RegistryInv'
<1>1. LocalTypes' /\ Alone'
    BY DEF Fail, RegistryInv, LocalTypes, Alone, Points
<1>2. Caller(c)'
    BY DEF Fail, RegistryInv, LocalTypes, Caller, CallerOK, CallOK, FreshOK, LockOK,
        GrantOK, RemoveOK, SaveOK, ReplyOK, Registered, Points
<1>3. held[c] = "exclusive" \/ (file' = file /\ temp' = temp) OBVIOUS
<1>4. QED BY <1>1, <1>2, <1>3, OneCaller DEF Fail, RegistryInv, LocalTypes

LEMMA StartInv ==
    ASSUME RegistryInv, NEW c \in Callers, Start(c) PROVE RegistryInv'
<1>1. LocalTypes' /\ DiskTypes' /\ Alone'
    BY DEF Start, RegistryInv, LocalTypes, DiskTypes, Alone, disk, Points
<1>2. call[c] \in Calls /\ granted[c] = {}
    BY DEF Start, RegistryInv, Caller, CallerOK, CallOK, FreshOK
<1>3. CASE pc'[c] = "open"
    <2>1. Caller(c)'
        BY <1>3 DEF Start, RegistryInv, LocalTypes, disk, Caller, CallerOK, CallOK, FreshOK,
            LockOK, GrantOK, RemoveOK, SaveOK, ReplyOK, Registered
    <2>2. QED BY <1>1, <2>1, OneCaller DEF Start, disk, RegistryInv, LocalTypes
<1>4. CASE pc'[c] = "reply"
    <2>1. call[c].op \in {"refresh", "reuse"} => DOMAIN call[c].requests = {}
        BY <1>2, <1>4, RegistryAssumption DEF Start, RegistryInv, LocalTypes
    <2>2. Caller(c)'
        BY <1>2, <1>4, <2>1
        DEF Start, RegistryInv, LocalTypes, disk, Caller, CallerOK, CallOK, FreshOK,
            LockOK, GrantOK, RemoveOK, SaveOK, ReplyOK, Registered, RowsAt
    <2>3. QED BY <1>1, <2>2, OneCaller DEF Start, disk, RegistryInv, LocalTypes
<1>5. QED BY <1>3, <1>4 DEF Start, RegistryInv, LocalTypes

LEMMA OpenLockInv ==
    ASSUME RegistryInv, NEW c \in Callers, OpenLock(c) PROVE RegistryInv'
<1>1. CASE Fail(c)
    BY <1>1, FailInv DEF OpenLock, RegistryInv, DiskTypes
<1>2. CASE ~Fail(c)
    <2>1. LocalTypes' /\ DiskTypes' /\ Alone'
        <3>1. /\ pc' = [pc EXCEPT ![c] = "lock"]
              /\ UNCHANGED <<call, at, mem, granted, faulty, failed>>
              /\ UNCHANGED <<host, file, temp, held>>
            BY <1>2 DEF OpenLock
        <3>2. LocalTypes'
            BY <3>1 DEF RegistryInv, LocalTypes, Points
        <3>3. DiskTypes' /\ Alone'
            BY <3>1 DEF RegistryInv, DiskTypes, Alone
        <3>4. QED BY <3>2, <3>3
    <2>2. Caller(c)'
        BY <1>2 DEF OpenLock, RegistryInv, LocalTypes, Caller, CallerOK, CallOK, FreshOK,
            LockOK, GrantOK, RemoveOK, SaveOK, ReplyOK, Registered
    <2>3. QED BY <1>2, <2>1, <2>2, OneCaller DEF OpenLock, RegistryInv, LocalTypes
<1>3. QED BY <1>1, <1>2

LEMMA TakeLockInv ==
    ASSUME RegistryInv, NEW c \in Callers, TakeLock(c) PROVE RegistryInv'
<1>1. LocalTypes' /\ DiskTypes'
    BY DEF TakeLock, RegistryInv, LocalTypes, DiskTypes, disk, Points
<1>2. Alone' BY DEF TakeLock, Free, Writes, RegistryInv, LocalTypes, Alone
<1>3. call[c] \in Calls BY DEF TakeLock, RegistryInv, Caller, CallerOK, CallOK
<1>4. held'[c] = ModeOf(call[c])
    BY DEF TakeLock, Writes, ModeOf, RegistryInv, LocalTypes
<1>5. Caller(c)'
    BY <1>3, <1>4 DEF TakeLock, RegistryInv, LocalTypes, disk, Caller, CallerOK, CallOK, FreshOK,
        LockOK, GrantOK, RemoveOK, SaveOK, ReplyOK, Registered
<1>6. QED BY <1>1, <1>2, <1>5, OneCaller DEF TakeLock, disk, RegistryInv, LocalTypes

LEMMA LockFailsInv ==
    ASSUME RegistryInv, NEW c \in Callers, LockFails(c) PROVE RegistryInv'
BY FailInv DEF LockFails, RegistryInv, DiskTypes, disk

LEMMA LoadInv ==
    ASSUME RegistryInv, NEW c \in Callers, Load(c) PROVE RegistryInv'
<1>1. CASE Fail(c)
    BY <1>1, FailInv DEF Load, RegistryInv, DiskTypes, disk
<1>2. CASE ~Fail(c)
    <2>1. mem'[c] = Registered /\ Registered \in SUBSET Rows
        BY <1>2, RegisteredRows DEF Load, Registered, RegistryInv, LocalTypes
    <2>2. LocalTypes' /\ DiskTypes' /\ Alone'
        <3>1. mem' = [mem EXCEPT ![c] = Registered] BY <1>2 DEF Load, Registered
        <3>2. QED BY <1>2, <2>1, <3>1
            DEF Load, RegistryInv, LocalTypes, DiskTypes, Alone, disk, Points
    <2>3. call[c] \in Calls /\ call[c].op \in {"refresh", "reuse", "release", "release_all"}
        BY RegistryAssumption DEF Load, RegistryInv, Caller, CallerOK, CallOK
    <2>4. at[c] = 1 /\ granted[c] = {} /\ faulty[c] = {} /\ ~failed[c]
        BY DEF Load, RegistryInv, Caller, CallerOK, FreshOK
    <2>5. Registered' = Registered BY DEF Load, disk, Registered
    <2>6. RowsAt(call[c], {}) = {} BY DEF RowsAt
    <2>7. /\ pc'[c] \in {"grant", "remove"}
          /\ pc'[c] = "grant" <=> call[c].op \in {"refresh", "reuse"}
          /\ UNCHANGED <<call, at, granted, faulty, failed, held>>
          /\ held[c] = ModeOf(call[c])
        BY <1>2 DEF Load, RegistryInv, LocalTypes, disk, Caller, CallerOK, LockOK
    <2>9. GrantOK(pc[c], call[c], at[c], mem[c], granted[c], faulty[c], failed[c],
                  Registered)'
        <3>1. 1..(1 - 1) = {} OBVIOUS
        <3>2. QED BY <2>1, <2>3, <2>4, <2>5, <2>6, <2>7, <3>1 DEF GrantOK
    <2>10. RemoveOK(pc[c], call[c], mem[c], granted[c], faulty[c], failed[c], Registered)'
        BY <2>1, <2>3, <2>4, <2>5, <2>7 DEF RemoveOK
    <2>11. Caller(c)'
        BY <2>3, <2>4, <2>7, <2>9, <2>10, RegistryAssumption DEF Caller, CallerOK, CallOK, FreshOK,
            LockOK, SaveOK, ReplyOK
    <2>8. QED BY <1>2, <2>2, <2>11, OneCaller DEF Load, disk, RegistryInv, LocalTypes
<1>3. QED BY <1>1, <1>2

(* The next request of a call, and what serving it adds to the answer.        *)
LEMMA GrantInv ==
    ASSUME RegistryInv, NEW c \in Callers, Grant(c) PROVE RegistryInv'
<1> DEFINE asked == call[c]
           i == at[c]
<1>1. /\ asked \in Calls /\ i \in Nat \ {0} /\ granted[c] \subseteq DOMAIN asked.requests
      /\ pc[c] = "grant" /\ i <= Len(asked.requests) /\ held[c] = ModeOf(asked)
    BY DEF Grant, RegistryInv, Caller, CallerOK, CallOK, LockOK
<1>2. asked.requests \in Seq(Rows) BY <1>1, AskedRows
<1>3. i \in DOMAIN asked.requests BY <1>1, <1>2
<1>4. Row(asked.requests[i]) \in Rows
    <2>1. {i} \in SUBSET (DOMAIN asked.requests) BY <1>3
    <2>2. RowsAt(asked, {i}) \in SUBSET Rows BY <1>1, <2>1, AskedRows
    <2>3. QED BY <2>2 DEF RowsAt
<1>5. LocalTypes' /\ DiskTypes' /\ Alone'
    <2>1. \/ mem' = mem
          \/ mem' = [mem EXCEPT ![c] = @ \cup {Row(asked.requests[i])}]
        BY DEF Grant, RefreshOne, ReuseOne, Request
    <2>2. mem' \in [Callers -> SUBSET Rows]
        BY <1>4, <2>1 DEF RegistryInv, LocalTypes
    <2>3. granted' = granted \/ granted' = [granted EXCEPT ![c] = @ \cup {i}]
        BY DEF Grant, RefreshOne, ReuseOne, GrantedTo
    <2>4. faulty' = faulty \/ faulty' = [faulty EXCEPT ![c] = @ \cup {i}]
        BY DEF Grant, RefreshOne, ReuseOne, FaultAt
    <2>5. DOMAIN granted' = Callers /\ granted' = [d \in Callers |-> granted'[d]]
        BY <2>3 DEF RegistryInv, LocalTypes
    <2>6. DOMAIN faulty' = Callers /\ faulty' = [d \in Callers |-> faulty'[d]]
        BY <2>4 DEF RegistryInv, LocalTypes
    <2>7. DOMAIN at' = Callers /\ at' = [d \in Callers |-> at'[d]]
        BY DEF Grant, RegistryInv, LocalTypes
    <2>8. UNCHANGED <<disk, held, pc, call, failed>>
        BY DEF Grant
    <2>9. QED BY <2>2, <2>5, <2>6, <2>7, <2>8 DEF RegistryInv, LocalTypes, DiskTypes, Alone, disk
<1>6. /\ UNCHANGED <<pc, call, failed, held>> /\ at'[c] = i + 1
      /\ Registered' = Registered
    BY DEF Grant, disk, Registered, RegistryInv, LocalTypes
<1>7. /\ granted'[c] \in {granted[c], granted[c] \cup {i}}
      /\ faulty'[c] \in {faulty[c], faulty[c] \cup {i}}
      /\ granted'[c] # granted[c] \/ faulty'[c] # faulty[c] \/ i \in granted[c] \cup faulty[c]
    BY DEF Grant, RefreshOne, ReuseOne, GrantedTo, FaultAt, RegistryInv, LocalTypes
<1>8. /\ ~failed[c] /\ 1..(i - 1) \subseteq granted[c] \cup faulty[c]
      /\ \/ asked.op = "refresh" /\ mem[c] = Registered \cup RowsAt(asked, granted[c])
         \/ /\ asked.op = "reuse" /\ mem[c] = Registered
            /\ RowsAt(asked, granted[c]) \subseteq Registered
    BY <1>1 DEF RegistryInv, Caller, CallerOK, GrantOK
<1>9. RowsAt(asked, granted[c] \cup {i}) =
         RowsAt(asked, granted[c]) \cup {Row(asked.requests[i])}
    BY DEF RowsAt
<1>10. 1..((i + 1) - 1) \subseteq granted'[c] \cup faulty'[c]
    <2>1. 1..((i + 1) - 1) = 1..(i - 1) \cup {i} BY <1>1
    <2>2. QED BY <1>7, <1>8, <2>1
<1>11. GrantOK(pc[c], call[c], at[c], mem[c], granted[c], faulty[c], failed[c],
               Registered)'
    <2>1. asked.op = "refresh" \/ asked.op = "reuse" BY <1>8
    <2>2. CASE asked.op = "refresh"
        <3>1. \/ granted'[c] = granted[c] /\ mem'[c] = mem[c]
              \/ granted'[c] = granted[c] \cup {i}
                 /\ mem'[c] = mem[c] \cup {Row(asked.requests[i])}
            BY <2>2 DEF Grant, RefreshOne, ReuseOne, GrantedTo, Request, RegistryInv, LocalTypes
        <3>2. mem'[c] = Registered \cup RowsAt(asked, granted'[c])
            BY <1>8, <1>9, <2>2, <3>1
        <3>3. QED BY <1>6, <1>8, <1>10, <2>2, <3>2 DEF GrantOK
    <2>3. CASE asked.op = "reuse"
        <3>1. /\ mem'[c] = mem[c]
              /\ \/ granted'[c] = granted[c]
                 \/ granted'[c] = granted[c] \cup {i} /\ Row(asked.requests[i]) \in mem[c]
            BY <2>3 DEF Grant, RefreshOne, ReuseOne, GrantedTo, Request, RegistryInv, LocalTypes
        <3>2. mem'[c] = Registered /\ RowsAt(asked, granted'[c]) \subseteq Registered
            BY <1>8, <1>9, <2>3, <3>1
        <3>3. QED BY <1>6, <1>8, <1>10, <2>3, <3>2 DEF GrantOK
    <2>4. QED BY <2>1, <2>2, <2>3
<1>12. Caller(c)'
    BY <1>1, <1>3, <1>6, <1>7, <1>11, RegistryAssumption
    DEF Caller, CallerOK, CallOK, FreshOK, LockOK, RemoveOK, SaveOK, ReplyOK
<1>13. QED BY <1>5, <1>12, OneCaller
    DEF Grant, RefreshOne, ReuseOne, GrantedTo, FaultAt, disk, RegistryInv, LocalTypes

LEMMA GrantedInv ==
    ASSUME RegistryInv, NEW c \in Callers, Granted(c) PROVE RegistryInv'
<1>1. LocalTypes' /\ DiskTypes' /\ Alone'
    BY DEF Granted, RegistryInv, LocalTypes, DiskTypes, Alone, disk, Points
<1>2. /\ pc[c] = "grant" /\ call[c] \in Calls /\ at[c] \in Nat \ {0}
      /\ at[c] > Len(call[c].requests) /\ held[c] = ModeOf(call[c])
    BY DEF Granted, RegistryInv, Caller, CallerOK, CallOK, LockOK
<1>3. GrantOK("grant", call[c], at[c], mem[c], granted[c], faulty[c], failed[c], Registered)
    BY <1>2 DEF RegistryInv, Caller, CallerOK
<1>4. DOMAIN call[c].requests \subseteq granted[c] \cup faulty[c]
    <2>1. call[c].requests \in Seq(Rows) BY <1>2, AskedRows
    <2>2. DOMAIN call[c].requests = 1..Len(call[c].requests) BY <2>1
    <2>3. Len(call[c].requests) \in Nat BY <2>1
    <2>4. 1..Len(call[c].requests) \subseteq 1..(at[c] - 1) BY <1>2, <2>3
    <2>5. QED BY <1>3, <2>2, <2>4 DEF GrantOK
<1>5. /\ UNCHANGED <<call, at, mem, granted, faulty, failed, held>>
      /\ Registered' = Registered
      /\ pc'[c] = IF call[c].op # "reuse" THEN "create" ELSE "reply"
    BY DEF Granted, Writes, disk, Registered, RegistryInv, LocalTypes
<1>6. SaveOK(pc[c], call[c], mem[c], granted[c], faulty[c], failed[c], Registered)'
    BY <1>3, <1>4, <1>5 DEF SaveOK, Changed, GrantOK
<1>7. ReplyOK(pc[c], call[c], granted[c], faulty[c], failed[c], held[c], Registered)'
    BY <1>2, <1>3, <1>4, <1>5 DEF ReplyOK, GrantOK
<1>8. Caller(c)
    BY DEF RegistryInv
<1>9. Caller(c)'
    BY <1>2, <1>5, <1>6, <1>7, <1>8, RegistryAssumption
    DEF Caller, CallerOK, CallOK, FreshOK, LockOK, GrantOK, RemoveOK
<1>10. QED BY <1>1, <1>9, OneCaller DEF Granted, disk, RegistryInv, LocalTypes

LEMMA RemoveInv ==
    ASSUME RegistryInv, NEW c \in Callers, Remove(c) PROVE RegistryInv'
<1>1. /\ pc[c] = "remove" /\ call[c] \in Calls /\ held[c] = ModeOf(call[c])
      /\ ~failed[c] /\ granted[c] = {} /\ faulty[c] = {} /\ mem[c] = Registered
      /\ call[c].op \in {"release", "release_all"} /\ at[c] \in Nat \ {0}
    BY DEF Remove, RegistryInv, Caller, CallerOK, CallOK, LockOK, RemoveOK
<1>2. Kept(c) = Changed(call[c], granted[c], Registered) /\ Kept(c) \subseteq mem[c]
    BY <1>1 DEF Kept, Changed
<1>3. LocalTypes' /\ DiskTypes' /\ Alone'
    BY <1>2 DEF Remove, RegistryInv, LocalTypes, DiskTypes, Alone, disk, Points
<1>4. /\ UNCHANGED <<call, at, granted, faulty, failed, held>>
      /\ Registered' = Registered /\ mem'[c] = Kept(c)
      /\ pc'[c] \in {"reply", "create"}
    BY DEF Remove, disk, Registered, RegistryInv, LocalTypes
<1>5. RowsAt(call[c], {}) = {} BY DEF RowsAt
<1>6. Caller(c)'
    BY <1>1, <1>2, <1>4, <1>5, RegistryAssumption
    DEF Caller, CallerOK, CallOK, FreshOK, LockOK, GrantOK, RemoveOK, SaveOK, ReplyOK
<1>7. QED BY <1>3, <1>6, OneCaller DEF Remove, disk, RegistryInv, LocalTypes

LEMMA CreateTempInv ==
    ASSUME RegistryInv, NEW c \in Callers, CreateTemp(c) PROVE RegistryInv'
<1>1. /\ pc[c] = "create" /\ call[c] \in Calls /\ held[c] = "exclusive"
    BY DEF CreateTemp, RegistryInv, Caller, CallerOK, CallOK, LockOK, SaveOK, ModeOf
<1>2. DiskTypes' BY DEF CreateTemp, RegistryInv, DiskTypes
<1>3. CASE Fail(c)
    BY <1>1, <1>2, <1>3, FailInv DEF CreateTemp
<1>4. CASE ~Fail(c)
    <2>1. LocalTypes' /\ Alone'
        BY <1>4 DEF CreateTemp, RegistryInv, LocalTypes, Alone, Points
    <2>2. Caller(c)'
        BY <1>1, <1>4 DEF CreateTemp, RegistryInv, LocalTypes, Caller, CallerOK, CallOK, FreshOK,
            LockOK, GrantOK, RemoveOK, SaveOK, ReplyOK, Registered
    <2>3. QED BY <1>1, <1>2, <1>4, <2>1, <2>2, OneCaller DEF CreateTemp, RegistryInv, LocalTypes
<1>5. QED BY <1>3, <1>4

LEMMA WriteTempInv ==
    ASSUME RegistryInv, NEW c \in Callers, WriteTemp(c) PROVE RegistryInv'
<1>1. /\ pc[c] = "write" /\ call[c] \in Calls /\ held[c] = "exclusive"
    BY DEF WriteTemp, RegistryInv, Caller, CallerOK, CallOK, LockOK, SaveOK, ModeOf
<1>2. DiskTypes' /\ LocalTypes' /\ Alone'
    BY DEF WriteTemp, RegistryInv, DiskTypes, LocalTypes, Alone, Points
<1>3. temp'[Pid[c]] = mem[c] BY DEF WriteTemp, RegistryInv, DiskTypes
<1>4. Caller(c)'
    BY <1>1, <1>3 DEF WriteTemp, RegistryInv, LocalTypes, Caller, CallerOK, CallOK, FreshOK,
        LockOK, GrantOK, RemoveOK, SaveOK, ReplyOK, Registered
<1>5. QED BY <1>1, <1>2, <1>4, OneCaller DEF WriteTemp, RegistryInv, LocalTypes

(* What the rename makes of the file is what the call has in memory.          *)
LEMMA Renamed ==
    ASSUME RegistryInv, NEW c \in Callers, Rename(c)
    PROVE  /\ call[c] \in Calls /\ held[c] = "exclusive" /\ ~failed[c]
           /\ SaveOK("rename", call[c], mem[c], granted[c], faulty[c], failed[c], Registered)
           /\ file' = mem[c] /\ Registered' = mem[c]
           /\ mem[c] \in SUBSET Rows
<1>1. /\ pc[c] = "rename" /\ call[c] \in Calls /\ held[c] = "exclusive"
      /\ temp[Pid[c]] = mem[c] /\ ~failed[c]
      /\ SaveOK("rename", call[c], mem[c], granted[c], faulty[c], failed[c], Registered)
    BY DEF Rename, RegistryInv, Caller, CallerOK, CallOK, LockOK, SaveOK, ModeOf
<1>2. file' = mem[c] BY <1>1 DEF Rename
<1>3. mem[c] \in SUBSET Rows BY DEF RegistryInv, LocalTypes
<1>4. mem[c] # None BY <1>3, RegistryAssumption
<1>5. Registered' = Loaded(mem[c]) BY <1>2, <1>4 DEF Registered
<1>6. Loaded(mem[c]) = mem[c] BY <1>3, LoadedAgain
<1>7. QED BY <1>1, <1>2, <1>3, <1>5, <1>6

LEMMA RenameInv ==
    ASSUME RegistryInv, NEW c \in Callers, Rename(c) PROVE RegistryInv'
<1>1. DiskTypes'
    <2>1. SUBSET Rows \subseteq SUBSET OldRows BY DEF Rows, OldRows
    <2>2. file' \in SUBSET OldRows BY <2>1, Renamed
    <2>3. temp' = [p \in {Pid[d] : d \in Callers} |-> temp'[p]]
        BY DEF Rename, RegistryInv, DiskTypes
    <2>4. QED BY <2>2, <2>3 DEF DiskTypes
<1>2. LocalTypes' /\ Alone'
    BY DEF Rename, RegistryInv, LocalTypes, Alone, Points
<1>3. /\ UNCHANGED <<call, at, granted, faulty, failed, held>> /\ pc'[c] = "reply"
      /\ pc[c] = "rename"
    BY DEF Rename, RegistryInv, LocalTypes
<1>4. CallOK(pc[c], call[c], at[c], granted[c])
    BY DEF RegistryInv, Caller, CallerOK
<1>5. ReplyOK(pc[c], call[c], granted[c], faulty[c], failed[c], held[c], Registered)'
    <2>1. RowsAt(call[c], {}) = {} BY DEF RowsAt
    <2>2. QED BY <1>3, <2>1, Renamed DEF ReplyOK, SaveOK, Changed, ModeOf
<1>6. LockOK(pc[c], call[c], held[c])'
    BY <1>3, Renamed DEF LockOK, ModeOf, SaveOK
<1>7. Caller(c)'
    BY <1>3, <1>4, <1>5, <1>6, Renamed, RegistryAssumption
    DEF Caller, CallerOK, CallOK, FreshOK, GrantOK, RemoveOK, SaveOK
<1>8. QED BY <1>1, <1>2, <1>7, Renamed, OneCaller DEF Rename, RegistryInv, LocalTypes

LEMMA SaveFailsInv ==
    ASSUME RegistryInv, NEW c \in Callers, SaveFails(c) PROVE RegistryInv'
<1>1. held[c] = "exclusive"
    BY DEF SaveFails, RegistryInv, Caller, CallerOK, LockOK, SaveOK, ModeOf
<1>2. DiskTypes' BY DEF SaveFails, RegistryInv, DiskTypes
<1>3. QED BY <1>1, <1>2, FailInv DEF SaveFails

LEMMA EndedInv ==
    ASSUME RegistryInv, NEW gone \in SUBSET Callers, Ended(gone), UNCHANGED disk
    PROVE  RegistryInv'
<1>1. DiskTypes' /\ Registered' = Registered
    BY DEF RegistryInv, DiskTypes, disk, Registered
<1>2. LocalTypes'
    BY DEF Ended, RegistryInv, LocalTypes, Points
<1>3. Alone'
    BY DEF Ended, RegistryInv, LocalTypes, Alone
<1>4. ASSUME NEW c \in Callers \ gone PROVE Caller(c)'
    BY <1>1 DEF Ended, RegistryInv, LocalTypes, Caller, disk
<1>5. ASSUME NEW c \in gone PROVE Caller(c)'
    BY <1>1, RegistryAssumption
    DEF Ended, RegistryInv, Caller, CallerOK, CallOK, FreshOK, LockOK, GrantOK,
        RemoveOK, SaveOK, ReplyOK
<1>6. QED BY <1>1, <1>2, <1>3, <1>4, <1>5 DEF RegistryInv

LEMMA NextInv ==
    ASSUME RegistryInv, [Next]_registryVars PROVE RegistryInv'
<1>1. ASSUME NEW c \in Callers, Work(c) PROVE RegistryInv'
    BY <1>1, StartInv, OpenLockInv, TakeLockInv, LockFailsInv, LoadInv, GrantInv, GrantedInv,
       RemoveInv, CreateTempInv, WriteTempInv, RenameInv, SaveFailsInv, EndedInv
    DEF Work, Reply
<1>2. ASSUME NEW c \in Callers, NEW asked \in Calls, Begin(c, asked) PROVE RegistryInv'
    BY <1>2, BeginInv
<1>3. ASSUME NEW pid \in {Pid[c] : c \in Callers}, Crash(pid) PROVE RegistryInv'
    BY <1>3, EndedInv DEF Crash
<1>4. ASSUME NEW path \in DOMAIN host, NEW node \in Nodes, HostChanges(path, node)
      PROVE RegistryInv'
    BY <1>4 DEF HostChanges, RegistryInv, LocalTypes, DiskTypes, Alone, Caller, Registered,
        disk, local
<1>5. ASSUME UNCHANGED registryVars PROVE RegistryInv'
    BY <1>5 DEF registryVars, RegistryInv, LocalTypes, DiskTypes, Alone, Caller, Registered,
        disk, local
<1>6. QED BY <1>1, <1>2, <1>3, <1>4, <1>5 DEF Next

LEMMA InvGrants == ASSUME RegistryInv PROVE GrantsDurable
BY DEF RegistryInv, Caller, CallerOK, ReplyOK, GrantsDurable, GrantedRows

(* What a call is about to grant is in the state file that the next process   *)
(* loads, and what it does not grant has an error.                            *)
THEOREM GrantsAreDurable == Spec => []GrantsDurable
<1>1. Init => RegistryInv BY InitInv
<1>2. RegistryInv /\ [Next]_registryVars => RegistryInv' BY NextInv
<1>3. RegistryInv => GrantsDurable BY InvGrants
<1>4. QED BY <1>1, <1>2, <1>3, PTL DEF Spec

-----------------------------------------------------------------------------
(* The refinement.                                                            *)

LEMMA InitMaps == ASSUME Init PROVE Map!Init
<1>1. RegistryInv BY InitInv
<1>2. Registered \in SUBSET Rows BY <1>1, RegisteredRows DEF RegistryInv
<1>3. Asking = [c \in Callers |-> None] BY DEF Init, Asking
<1>4. Answering = [c \in Callers |-> None] BY DEF Init, Idle, Answering
<1>5. QED BY <1>2, <1>3, <1>4 DEF Map!Init

(* A step that neither starts nor ends a call, nor decides one, nor changes   *)
(* the file.                                                                  *)
LEMMA Unseen ==
    ASSUME UNCHANGED call, Registered' = Registered,
           \A d \in Callers : pc'[d] = "reply" <=> pc[d] = "reply",
           \A d \in Callers : pc[d] = "reply" =>
              granted'[d] = granted[d] /\ faulty'[d] = faulty[d] /\ failed'[d] = failed[d]
    PROVE  UNCHANGED Map!mapVars
<1>1. Asking' = Asking BY DEF Asking
<1>2. Answering' = Answering BY DEF Answering, GrantedRows
<1>3. QED BY <1>1, <1>2 DEF Map!mapVars

(* The step by which a call gets its answer.                                  *)
LEMMA Decided ==
    ASSUME RegistryInv, NEW c \in Callers, pc[c] \notin {"idle", "reply"},
           UNCHANGED call, pc'[c] = "reply",
           \A d \in Callers \ {c} :
              /\ pc'[d] = pc[d] /\ granted'[d] = granted[d]
              /\ faulty'[d] = faulty[d] /\ failed'[d] = failed[d],
           granted'[c] = granted[c],
           NEW fails \in BOOLEAN,
           failed'[c] \/ (call[c].op = "release" /\ faulty'[c] # {}) <=> fails
    PROVE  /\ Asking[c] = Wish(call[c]) /\ Asking[c] # None
           /\ Answering[c] = None
           /\ Asking' = Asking
           /\ Map!Decide(c, GrantedRows(c), fails)
           /\ GrantedRows(c) \subseteq Asking[c].wants
<1>1. call[c] \in Calls /\ granted[c] \subseteq DOMAIN call[c].requests
    BY DEF RegistryInv, Caller, CallerOK, CallOK
<1>2. call[c] # None /\ Wish(call[c]) # None BY <1>1, RegistryAssumption
<1>3. Asking[c] = Wish(call[c]) BY <1>2 DEF Asking
<1>4. Asking' = Asking BY DEF Asking
<1>5. Answering[c] = None BY DEF Answering
<1>6. Answering'[c] = [granted |-> GrantedRows(c), failed |-> fails]
    <2>1. GrantedRows(c)' = GrantedRows(c) BY DEF GrantedRows
    <2>2. (failed'[c] \/ (call[c].op = "release" /\ faulty'[c] # {})) = fails OBVIOUS
    <2>3. Answering'[c] = [granted |-> GrantedRows(c)',
              failed |-> failed'[c] \/ (call'[c].op = "release" /\ faulty'[c] # {})]
        BY DEF Answering
    <2>4. QED BY <2>1, <2>2, <2>3
<1>7. ASSUME NEW d \in Callers \ {c} PROVE Answering'[d] = Answering[d]
    BY DEF Answering, GrantedRows
<1>8. Answering' = [Answering EXCEPT ![c] = [granted |-> GrantedRows(c), failed |-> fails]]
    <2>1. Answering' = [d \in Callers |-> Answering'[d]] BY DEF Answering
    <2>2. Answering = [d \in Callers |-> Answering[d]] BY DEF Answering
    <2>3. QED BY <1>6, <1>7, <2>1, <2>2
<1>9. GrantedRows(c) \subseteq Wish(call[c]).wants
    BY <1>1, AskedRows DEF GrantedRows
<1>10. QED BY <1>2, <1>3, <1>4, <1>5, <1>8, <1>9 DEF Map!Decide

(* A failure of any kind.                                                     *)
LEMMA FailMaps ==
    ASSUME RegistryInv, NEW c \in Callers, Fail(c), pc[c] \notin {"idle", "reply"},
           file' = file
    PROVE  Map!Act(c)
<1>1. failed'[c] = TRUE /\ pc'[c] = "reply" BY DEF Fail, RegistryInv, LocalTypes
<1>2. /\ Asking[c] # None /\ Answering[c] = None /\ Asking' = Asking
      /\ Map!Decide(c, GrantedRows(c), TRUE)
      /\ GrantedRows(c) \subseteq Asking[c].wants
    BY <1>1, Decided DEF Fail, RegistryInv, LocalTypes
<1>3. Registered' = Registered BY DEF Registered
<1>4. Map!Fail(c) BY <1>2, <1>3 DEF Map!Fail
<1>5. QED BY <1>2, <1>4 DEF Map!Act

LEMMA BeginMaps ==
    ASSUME RegistryInv, NEW c \in Callers, NEW asked \in Calls, Begin(c, asked)
    PROVE  Map!Ask(c, Wish(asked))
<1>1. call[c] = None BY DEF Begin, RegistryInv, Caller, CallerOK, CallOK
<1>2. asked # None BY RegistryAssumption
<1>3. Asking[c] = None BY <1>1 DEF Asking
<1>4. Asking' = [Asking EXCEPT ![c] = Wish(asked)]
    BY <1>2 DEF Begin, Asking, RegistryInv, LocalTypes
<1>5. Answering' = Answering
    BY DEF Begin, Answering, GrantedRows, RegistryInv, LocalTypes
<1>6. Registered' = Registered BY DEF Begin, disk, Registered
<1>7. QED BY <1>3, <1>4, <1>5, <1>6 DEF Map!Ask

(* An empty refresh or reuse, and a release of what is not there.             *)
LEMMA StartMaps ==
    ASSUME RegistryInv, NEW c \in Callers, Start(c)
    PROVE  Map!Act(c) \/ UNCHANGED Map!mapVars
<1>1. /\ call[c] \in Calls /\ pc[c] = "start"
      /\ granted[c] = {} /\ faulty[c] = {} /\ ~failed[c]
    BY DEF Start, RegistryInv, Caller, CallerOK, CallOK, FreshOK
<1>2. UNCHANGED <<call, granted, failed>> /\ Registered' = Registered
    BY DEF Start, disk, Registered
<1>3. \A d \in Callers \ {c} : pc'[d] = pc[d] /\ faulty'[d] = faulty[d]
    BY DEF Start, RegistryInv, LocalTypes
<1>4. GrantedRows(c) = {} BY <1>1 DEF GrantedRows, RowsAt
<1>5. CASE pc'[c] = "open"
    <2>1. \A d \in Callers : pc'[d] = "reply" <=> pc[d] = "reply" BY <1>1, <1>3, <1>5
    <2>2. \A d \in Callers : pc[d] = "reply" => faulty'[d] = faulty[d] BY <1>1, <1>3
    <2>3. QED BY <1>2, <2>1, <2>2, Unseen
<1>6. CASE pc'[c] = "reply" /\ call[c].op \in {"refresh", "reuse"}
    <2>1. failed'[c] \/ (call[c].op = "release" /\ faulty'[c] # {}) <=> FALSE
        BY <1>1, <1>2, <1>6
    <2>2. /\ Asking[c] = Wish(call[c]) /\ Asking[c] # None /\ Answering[c] = None
          /\ Asking' = Asking /\ Map!Decide(c, GrantedRows(c), FALSE)
        BY <1>1, <1>2, <1>3, <1>6, <2>1, Decided
    <2>3. Asking[c].op = call[c].op BY <2>2 DEF Wish
    <2>4. Map!Refresh(c) \/ Map!Reuse(c)
        BY <1>2, <1>4, <1>6, <2>2, <2>3 DEF Map!Refresh, Map!Reuse
    <2>5. QED BY <2>2, <2>4 DEF Map!Act
<1>7. CASE pc'[c] = "reply" /\ call[c].op \notin {"refresh", "reuse"}
    <2>1. call[c].op = "release" /\ faulty'[c] = {1}
        BY <1>7 DEF Start, RegistryInv, LocalTypes
    <2>2. failed'[c] \/ (call[c].op = "release" /\ faulty'[c] # {}) <=> TRUE
        BY <2>1
    <2>3. /\ Asking[c] # None /\ Answering[c] = None
          /\ Asking' = Asking /\ Map!Decide(c, GrantedRows(c), TRUE)
          /\ GrantedRows(c) \subseteq Asking[c].wants
        BY <1>1, <1>2, <1>3, <1>7, <2>2, Decided
    <2>4. Map!Fail(c) BY <1>2, <2>3 DEF Map!Fail
    <2>5. QED BY <2>3, <2>4 DEF Map!Act
<1>8. QED BY <1>5, <1>6, <1>7 DEF Start, RegistryInv, LocalTypes

(* The end of a reuse is where it takes effect.                               *)
LEMMA GrantedMaps ==
    ASSUME RegistryInv, NEW c \in Callers, Granted(c)
    PROVE  Map!Act(c) \/ UNCHANGED Map!mapVars
<1>1. UNCHANGED <<call, granted, faulty, failed>> /\ Registered' = Registered
    BY DEF Granted, disk, Registered
<1>2. pc[c] = "grant" /\ \A d \in Callers \ {c} : pc'[d] = pc[d]
    BY DEF Granted, RegistryInv, LocalTypes
<1>3. CASE call[c].op # "reuse"
    <2>1. pc'[c] = "create" BY <1>3 DEF Granted, Writes, RegistryInv, LocalTypes
    <2>2. QED BY <1>1, <1>2, <2>1, Unseen
<1>4. CASE call[c].op = "reuse"
    <2>1. pc'[c] = "reply" BY <1>4 DEF Granted, Writes, RegistryInv, LocalTypes
    <2>2. ~failed[c] /\ GrantedRows(c) \subseteq Registered
        BY <1>2, <1>4 DEF RegistryInv, Caller, CallerOK, GrantOK, GrantedRows
    <2>3. failed'[c] \/ (call[c].op = "release" /\ faulty'[c] # {}) <=> FALSE
        BY <1>1, <1>4, <2>2
    <2>4. /\ Asking[c] = Wish(call[c]) /\ Asking[c] # None /\ Answering[c] = None
          /\ Asking' = Asking /\ Map!Decide(c, GrantedRows(c), FALSE)
          /\ GrantedRows(c) \subseteq Asking[c].wants
        BY <1>1, <1>2, <2>1, <2>3, Decided
    <2>5. Asking[c].op = "reuse" BY <1>4, <2>4 DEF Wish
    <2>6. Map!Reuse(c) BY <1>1, <2>2, <2>4, <2>5 DEF Map!Reuse
    <2>7. QED BY <2>4, <2>6 DEF Map!Act
<1>5. QED BY <1>3, <1>4

(* A release takes out of the file what the abstract map loses.               *)
LEMMA ReleaseMaps ==
    ASSUME RegistryInv, NEW c \in Callers, call[c] \in Calls,
           call[c].op \in {"release", "release_all"},
           Registered' = Changed(call[c], {}, Registered),
           Asking[c] = Wish(call[c]), Map!Decide(c, {}, FALSE)
    PROVE  Map!Release(c)
<1>1. Asking[c].op = call[c].op BY DEF Wish
<1>2. CASE call[c].op = "release_all"
    BY <1>1, <1>2 DEF Map!Release, Changed
<1>3. CASE call[c].op = "release"
    <2>1. Len(call[c].requests) = 1 /\ call[c].requests \in Seq(Rows)
        BY <1>3, RegistryAssumption
    <2>2. DOMAIN call[c].requests = {1} BY <2>1
    <2>3. Asking[c].wants = {Row(call[c].requests[1])}
        BY <2>2 DEF Wish, RowsAt
    <2>4. Row(call[c].requests[1]).path = Canonical[call[c].requests[1].path]
        BY DEF Row
    <2>5. Registered' = {row \in Registered : \A w \in Asking[c].wants : w.path # row.path}
        BY <1>3, <2>3, <2>4 DEF Changed
    <2>6. QED BY <1>1, <1>3, <2>5 DEF Map!Release
<1>4. QED BY <1>2, <1>3

LEMMA RemoveMaps ==
    ASSUME RegistryInv, NEW c \in Callers, Remove(c)
    PROVE  Map!Act(c) \/ UNCHANGED Map!mapVars
<1>1. UNCHANGED <<call, granted, faulty, failed>> /\ Registered' = Registered
    BY DEF Remove, disk, Registered
<1>2. pc[c] = "remove" /\ \A d \in Callers \ {c} : pc'[d] = pc[d]
    BY DEF Remove, RegistryInv, LocalTypes
<1>3. /\ call[c] \in Calls /\ ~failed[c] /\ granted[c] = {} /\ faulty[c] = {}
      /\ mem[c] = Registered /\ call[c].op \in {"release", "release_all"}
    BY <1>2 DEF RegistryInv, Caller, CallerOK, CallOK, RemoveOK
<1>4. CASE Kept(c) # mem[c]
    <2>1. pc'[c] = "create" BY <1>4 DEF Remove, RegistryInv, LocalTypes
    <2>2. QED BY <1>1, <1>2, <2>1, Unseen
<1>5. CASE Kept(c) = mem[c]
    <2>1. pc'[c] = "reply" BY <1>5 DEF Remove, RegistryInv, LocalTypes
    <2>2. failed'[c] \/ (call[c].op = "release" /\ faulty'[c] # {}) <=> FALSE
        BY <1>1, <1>3
    <2>3. GrantedRows(c) = {} BY <1>3 DEF GrantedRows, RowsAt
    <2>4. /\ Asking[c] = Wish(call[c]) /\ Asking[c] # None /\ Answering[c] = None
          /\ Asking' = Asking /\ Map!Decide(c, {}, FALSE)
        BY <1>1, <1>2, <2>1, <2>2, <2>3, Decided
    <2>5. Registered' = Changed(call[c], {}, Registered)
        BY <1>1, <1>3, <1>5 DEF Kept, Changed
    <2>6. Map!Release(c) BY <1>3, <2>4, <2>5, ReleaseMaps
    <2>7. QED BY <2>4, <2>6 DEF Map!Act
<1>6. QED BY <1>4, <1>5

(* The rename is where a call that writes takes effect.                       *)
LEMMA RenameMaps ==
    ASSUME RegistryInv, NEW c \in Callers, Rename(c) PROVE Map!Act(c)
<1>1. UNCHANGED <<call, granted, faulty, failed>>
    BY DEF Rename
<1>2. pc[c] = "rename" /\ pc'[c] = "reply" /\ \A d \in Callers \ {c} : pc'[d] = pc[d]
    BY DEF Rename, RegistryInv, LocalTypes
<1>3. /\ call[c] \in Calls /\ ~failed[c] /\ call[c].op # "reuse"
      /\ Registered' = Changed(call[c], granted[c], Registered)
      /\ call[c].op # "refresh" => granted[c] = {} /\ faulty[c] = {}
    BY Renamed DEF SaveOK
<1>4. failed'[c] \/ (call[c].op = "release" /\ faulty'[c] # {}) <=> FALSE
    BY <1>1, <1>3
<1>5. /\ Asking[c] = Wish(call[c]) /\ Asking[c] # None /\ Answering[c] = None
      /\ Asking' = Asking /\ Map!Decide(c, GrantedRows(c), FALSE)
      /\ GrantedRows(c) \subseteq Asking[c].wants
    BY <1>1, <1>2, <1>4, Decided
<1>6. CASE call[c].op = "refresh"
    <2>1. Asking[c].op = "refresh" BY <1>5, <1>6 DEF Wish
    <2>2. Registered' = Registered \cup GrantedRows(c)
        BY <1>3, <1>6 DEF Changed, GrantedRows
    <2>3. Map!Refresh(c) BY <1>5, <2>1, <2>2 DEF Map!Refresh
    <2>4. QED BY <1>5, <2>3 DEF Map!Act
<1>7. CASE call[c].op # "refresh"
    <2>1. call[c].op \in {"release", "release_all"}
        BY <1>3, <1>7, RegistryAssumption
    <2>2. GrantedRows(c) = {} BY <1>3, <1>7 DEF GrantedRows, RowsAt
    <2>3. Map!Release(c) BY <1>3, <1>5, <1>7, <2>1, <2>2, ReleaseMaps
    <2>4. QED BY <1>5, <2>3 DEF Map!Act
<1>8. QED BY <1>6, <1>7

LEMMA EndedMaps ==
    ASSUME RegistryInv, NEW gone \in SUBSET Callers, Ended(gone), UNCHANGED disk
    PROVE  Map!Leave(gone)
<1>1. Registered' = Registered BY DEF disk, Registered
<1>2. Asking' = [c \in Callers |-> IF c \in gone THEN None ELSE Asking[c]]
    BY DEF Ended, Asking
<1>3. Answering' = [c \in Callers |-> IF c \in gone THEN None ELSE Answering[c]]
    BY DEF Ended, Answering, GrantedRows
<1>4. QED BY <1>1, <1>2, <1>3 DEF Map!Leave

(* The steps that nobody sees, unless they fail.                              *)
LEMMA QuietMaps ==
    ASSUME RegistryInv, NEW c \in Callers,
           \/ OpenLock(c) \/ TakeLock(c) \/ LockFails(c) \/ Load(c) \/ Grant(c)
           \/ CreateTemp(c) \/ WriteTemp(c) \/ SaveFails(c)
    PROVE  Map!Act(c) \/ UNCHANGED Map!mapVars
<1>1. /\ pc[c] \notin {"idle", "reply"} /\ file' = file
    BY DEF OpenLock, TakeLock, LockFails, Load, Grant, CreateTemp, WriteTemp, SaveFails, disk
<1>2. CASE Fail(c) BY <1>1, <1>2, FailMaps
<1>3. CASE ~Fail(c)
    <2>1. UNCHANGED call
        BY <1>3 DEF OpenLock, TakeLock, LockFails, Load, Grant, CreateTemp, WriteTemp, SaveFails
    <2>2. pc'[c] # "reply" /\ \A d \in Callers \ {c} : pc'[d] = pc[d]
        BY <1>1, <1>3 DEF OpenLock, TakeLock, LockFails, Load, Grant, CreateTemp, WriteTemp,
            SaveFails, RegistryInv, LocalTypes
    <2>3. \A d \in Callers \ {c} : /\ granted'[d] = granted[d] /\ faulty'[d] = faulty[d]
                                   /\ failed'[d] = failed[d]
        BY <1>3 DEF OpenLock, TakeLock, LockFails, Load, Grant, RefreshOne, ReuseOne,
            GrantedTo, FaultAt, CreateTemp, WriteTemp, SaveFails, RegistryInv, LocalTypes
    <2>4. Registered' = Registered BY <1>1 DEF Registered
    <2>5. QED BY <1>1, <2>1, <2>2, <2>3, <2>4, Unseen
<1>4. QED BY <1>2, <1>3

LEMMA StepMaps ==
    ASSUME RegistryInv, [Next]_registryVars PROVE [Map!Next]_Map!mapVars
<1>1. ASSUME NEW c \in Callers, Map!Act(c) PROVE Map!Next
    BY <1>1 DEF Map!Next
<1>2. ASSUME NEW c \in Callers, Work(c) PROVE [Map!Next]_Map!mapVars
    <2>1. CASE Reply(c)
        <3>1. Map!Leave({c}) BY <2>1, EndedMaps DEF Reply
        <3>2. QED BY <3>1 DEF Map!Next
    <2>2. CASE ~Reply(c)
        BY <1>1, <1>2, <2>2, StartMaps, QuietMaps, GrantedMaps, RemoveMaps, RenameMaps
        DEF Work
    <2>3. QED BY <2>1, <2>2
<1>3. ASSUME NEW c \in Callers, NEW asked \in Calls, Begin(c, asked) PROVE Map!Next
    <2>1. Map!Ask(c, Wish(asked)) BY <1>3, BeginMaps
    <2>2. QED BY <2>1 DEF Map!Next
<1>4. ASSUME NEW pid \in {Pid[c] : c \in Callers}, Crash(pid) PROVE Map!Next
    <2>1. Map!Leave({c \in Callers : Pid[c] = pid}) BY <1>4, EndedMaps DEF Crash
    <2>2. QED BY <2>1 DEF Map!Next
<1>5. ASSUME NEW path \in DOMAIN host, NEW node \in Nodes, HostChanges(path, node)
      PROVE UNCHANGED Map!mapVars
    <2>1. UNCHANGED <<call, pc, granted, faulty, failed>> /\ Registered' = Registered
        BY <1>5 DEF HostChanges, disk, local, Registered
    <2>2. QED BY <2>1, Unseen
<1>6. ASSUME UNCHANGED registryVars PROVE UNCHANGED Map!mapVars
    <2>1. UNCHANGED <<call, pc, granted, faulty, failed>> /\ Registered' = Registered
        BY <1>6 DEF registryVars, disk, local, Registered
    <2>2. QED BY <2>1, Unseen
<1>7. QED BY <1>2, <1>3, <1>4, <1>5, <1>6 DEF Next

(* Whatever the callers, their processes and the host do, the state file, its *)
(* lock and the temporary files behave as one durable set of capabilities on  *)
(* which every call takes effect at one moment or not at all.                 *)
THEOREM ImplementsMap == Spec => MapSpec
<1>1. Init => RegistryInv BY InitInv
<1>2. RegistryInv /\ [Next]_registryVars => RegistryInv' BY NextInv
<1>3. Init => Map!Init BY InitMaps
<1>4. RegistryInv /\ [Next]_registryVars => [Map!Next]_Map!mapVars BY StepMaps
<1>5. QED BY <1>1, <1>2, <1>3, <1>4, PTL DEF Spec, MapSpec, Map!Spec

-----------------------------------------------------------------------------
(* The access lists.                                                       *)

AclOps == {"none", "refresh", "reuse", "release", "release_all"}

AclJob == [op : AclOps, step : {"none", "lock", "next", "tree"}, left : SUBSET Sids,
           sid : Sids \cup {Nobody}, todo : SUBSET Files, rows : SUBSET Sids,
           changed : BOOLEAN, bad : BOOLEAN]

AclTypes ==
    /\ acl \in [Files -> SUBSET Sids]
    /\ kind \in [Files -> {"plain", "linked", "reparse", "missing"}]
    /\ saved \in SUBSET Sids
    /\ owner \in Processes \cup {Nobody}
    /\ job \in [Processes -> AclJob]
    /\ lost \in [Files -> SUBSET Sids]

(* Only the owner of the mutex is past it.                                 *)
OneOwner ==
    \A p \in Processes :
       /\ job[p].step \in {"next", "tree"} <=> owner = p
       /\ job[p].op \in {"refresh", "reuse", "release", "release_all"}
             <=> job[p].step # "none"
       /\ job[p].step = "lock" => job[p].sid = Nobody /\ ~job[p].changed

(* A SID has entries under its own root only, and none in what is not a    *)
(* plain or linked object.                                                 *)
EntriesBelong(lists, kinds) ==
    \A f \in Files : \A s \in lists[f] :
       f \in Under[s.root] /\ kinds[f] \in {"plain", "linked"}

(* What the owner knows of the lists: a refresh or a reuse has a row for   *)
(* every entry, except for those of the tree it is in, which are where it  *)
(* has been; a release has one for every entry too, and once the last file *)
(* of a tree was visited without an error nothing of its SID is left.      *)
OwnerOK(j, lists, gone, stored) ==
    /\ j.op \in {"refresh", "reuse"} =>
          /\ stored \subseteq j.rows
          /\ \A f \in Files : \A s \in lists[f] :
                \/ s \in j.rows \/ s \in gone[f]
                \/ j.step = "tree" /\ s = j.sid /\ f \notin j.todo
          /\ j.step = "tree" => j.op = "refresh" /\ j.todo \subseteq Under[j.sid.root]
    /\ j.op \in {"release", "release_all"} =>
          /\ j.rows \subseteq stored
          /\ \A f \in Files : lists[f] \subseteq j.rows \cup gone[f]
          /\ j.step = "tree" /\ ~j.bad =>
                \A f \in Files : j.sid \in lists[f] => f \in j.todo
    /\ ~j.changed => j.rows = stored
    /\ j.op = "reuse" => ~j.changed
    /\ j.step = "tree" => j.sid \in Sids

AclInv ==
    /\ AclTypes
    /\ OneOwner
    /\ EntriesBelong(acl, kind)
    /\ \A p \in Processes : owner = p => OwnerOK(job[p], acl, lost, saved)
    /\ AclAccounted

LEMMA AclInitInv == AclInit => AclInv
  <1> SUFFICES ASSUME AclInit PROVE AclInv
    OBVIOUS
  <1>1. NoJob \in AclJob
    BY DEF NoJob, AclJob, AclOps
  <1>2. NoJob.step = "none" /\ NoJob.op = "none"
    BY DEF NoJob
  <1>3. AclTypes
    BY <1>1 DEF AclInit, AclTypes
  <1>4. OneOwner
    BY <1>2, AclAssumption DEF AclInit, OneOwner
  <1> QED
    BY <1>3, <1>4, AclAssumption DEF AclInit, AclInv, EntriesBelong, AclAccounted

(* A step of the process that owns the mutex and keeps it.                 *)
LEMMA OwnerStep ==
    ASSUME AclInv, NEW p \in Processes, owner = p, NEW j \in AclJob,
           job' = [job EXCEPT ![p] = j], j.step \in {"next", "tree"},
           j.op \in {"refresh", "reuse", "release", "release_all"},
           acl' \in [Files -> SUBSET Sids], EntriesBelong(acl', kind),
           lost' \in [Files -> SUBSET Sids], OwnerOK(j, acl', lost', saved),
           UNCHANGED <<kind, saved, owner>>
    PROVE  AclInv'
  <1>1. job \in [Processes -> AclJob] /\ owner # Nobody
    BY AclAssumption DEF AclInv, AclTypes
  <1>2. /\ job' \in [Processes -> AclJob]
        /\ job'[p] = j
        /\ \A r \in Processes \ {p} : job'[r] = job[r]
    BY <1>1
  <1>3. AclTypes'
    BY <1>2 DEF AclInv, AclTypes
  <1>4. OneOwner'
    <2> SUFFICES ASSUME NEW r \in Processes
                 PROVE  /\ job'[r].step \in {"next", "tree"} <=> owner' = r
                        /\ job'[r].op \in {"refresh", "reuse", "release", "release_all"}
                              <=> job'[r].step # "none"
                        /\ job'[r].step = "lock" => job'[r].sid = Nobody /\ ~job'[r].changed
      BY DEF OneOwner
    <2>1. CASE r = p
      BY <1>2, <2>1
    <2>2. CASE r # p
      BY <1>2, <2>2 DEF AclInv, OneOwner
    <2> QED
      BY <2>1, <2>2
  <1>5. \A r \in Processes : owner' = r => OwnerOK(job'[r], acl', lost', saved')
    BY <1>2
  <1>6. EntriesBelong(acl', kind') /\ AclAccounted'
    BY <1>1 DEF AclAccounted
  <1> QED
    BY <1>3, <1>4, <1>5, <1>6 DEF AclInv

(* What is known of the process that owns the mutex.                       *)
LEMMA OwnerKnown ==
    ASSUME AclInv, NEW p \in Processes, job[p].step \in {"next", "tree"}
    PROVE  /\ owner = p
           /\ job[p] \in AclJob
           /\ job[p].op \in {"refresh", "reuse", "release", "release_all"}
           /\ OwnerOK(job[p], acl, lost, saved)
           /\ EntriesBelong(acl, kind)
           /\ acl \in [Files -> SUBSET Sids]
           /\ job \in [Processes -> AclJob]
           /\ saved \in SUBSET Sids
           /\ lost \in [Files -> SUBSET Sids]
  BY DEF AclInv, OneOwner, AclTypes

(* The mutex is given back.                                                *)
LEMMA ReturnInv ==
    ASSUME AclInv, NEW p \in Processes, owner = p, AclReturn(p),
           saved' \in SUBSET Sids, lost' \in [Files -> SUBSET Sids],
           \A f \in Files : acl[f] \subseteq saved' \cup lost'[f]
    PROVE  AclInv'
  <1>1. NoJob \in AclJob /\ NoJob.step = "none" /\ NoJob.op = "none"
    BY DEF NoJob, AclJob, AclOps
  <1>2. job \in [Processes -> AclJob] /\ owner' = Nobody /\ Nobody \notin Processes
    BY AclAssumption DEF AclInv, AclTypes, AclReturn
  <1>3. /\ job' \in [Processes -> AclJob]
        /\ job'[p] = NoJob
        /\ \A r \in Processes \ {p} : job'[r] = job[r]
    BY <1>1, <1>2 DEF AclReturn
  <1>4. AclTypes'
    BY <1>2, <1>3 DEF AclInv, AclTypes, AclReturn
  <1>5. OneOwner'
    <2> SUFFICES ASSUME NEW r \in Processes
                 PROVE  /\ job'[r].step \notin {"next", "tree"}
                        /\ job'[r].op \in {"refresh", "reuse", "release", "release_all"}
                              <=> job'[r].step # "none"
                        /\ job'[r].step = "lock" => job'[r].sid = Nobody /\ ~job'[r].changed
      BY <1>2 DEF OneOwner
    <2>1. CASE r = p
      BY <1>1, <1>3, <2>1
    <2>2. CASE r # p
      BY <1>3, <2>2 DEF AclInv, OneOwner
    <2> QED
      BY <2>1, <2>2
  <1>6. UNCHANGED <<acl, kind>>
    BY DEF AclReturn
  <1> QED
    BY <1>2, <1>4, <1>5, <1>6 DEF AclInv, EntriesBelong, AclAccounted

LEMMA AclBeginInv ==
    ASSUME AclInv, NEW p \in Processes, NEW asked \in AclCalls, AclBegin(p, asked)
    PROVE  AclInv'
  <1> DEFINE j == [NoJob EXCEPT !.op = asked.op, !.step = "lock", !.left = asked.sids]
  <1>1. job \in [Processes -> AclJob] /\ job[p].step = "none"
    BY DEF AclInv, AclTypes, AclBegin, NoJob
  <1>2. /\ j \in AclJob /\ j.step = "lock" /\ j.sid = Nobody /\ ~j.changed
        /\ j.op \in {"refresh", "reuse", "release", "release_all"}
    BY AclAssumption DEF NoJob, AclJob, AclOps
  <1>3. job' = [job EXCEPT ![p] = j]
    BY DEF AclBegin
  <1> HIDE DEF j
  <1>4. /\ job' \in [Processes -> AclJob]
        /\ job'[p] = j
        /\ \A r \in Processes \ {p} : job'[r] = job[r]
    BY <1>1, <1>2, <1>3
  <1>5. AclTypes'
    BY <1>4 DEF AclInv, AclTypes, AclBegin
  <1>6. owner # p
    BY <1>1 DEF AclInv, OneOwner
  <1>7. ASSUME NEW r \in Processes
        PROVE  /\ job'[r].step \in {"next", "tree"} <=> owner' = r
               /\ job'[r].op \in {"refresh", "reuse", "release", "release_all"}
                     <=> job'[r].step # "none"
               /\ job'[r].step = "lock" => job'[r].sid = Nobody /\ ~job'[r].changed
    <2>1. CASE r = p
      BY <1>2, <1>4, <1>6, <2>1 DEF AclBegin
    <2>2. CASE r # p
      BY <1>4, <2>2 DEF AclInv, OneOwner, AclBegin
    <2> QED
      BY <2>1, <2>2
  <1>8. OneOwner'
    BY <1>7 DEF OneOwner
  <1>9. UNCHANGED <<acl, kind, saved, owner, lost>>
    BY DEF AclBegin
  <1>10. \A r \in Processes : owner' = r => OwnerOK(job'[r], acl', lost', saved')
    BY <1>4, <1>6, <1>9 DEF AclInv
  <1> QED
    BY <1>5, <1>8, <1>9, <1>10 DEF AclInv, EntriesBelong, AclAccounted

LEMMA AclLockInv ==
    ASSUME AclInv, NEW p \in Processes, AclLock(p)
    PROVE  AclInv'
  <1>1. job \in [Processes -> AclJob] /\ job[p] \in AclJob
    BY DEF AclInv, AclTypes
  <1>2. PICK left \in SUBSET Sids :
           job' = [job EXCEPT ![p].step = "next", ![p].rows = saved, ![p].left = left]
    <2>1. job[p].left \in SUBSET Sids /\ saved \in SUBSET Sids
      BY <1>1 DEF AclJob, AclInv, AclTypes
    <2> DEFINE left == CASE job[p].op = "release_all" -> saved
                         [] job[p].op = "release" ->
                              {s \in saved : \E t \in job[p].left : s.root = t.root}
                         [] OTHER -> job[p].left
    <2>2. left \in SUBSET Sids
      <3>1. CASE job[p].op = "release_all"
        BY <2>1, <3>1
      <3>2. CASE job[p].op = "release"
        BY <2>1, <3>2
      <3>3. CASE job[p].op \notin {"release", "release_all"}
        BY <2>1, <3>3
      <3> QED
        BY <3>1, <3>2, <3>3
    <2>3. job' = [job EXCEPT ![p].step = "next", ![p].rows = saved, ![p].left = left]
      BY <1>1 DEF AclLock
    <2> HIDE DEF left
    <2> QED
      BY <2>2, <2>3
  <1> DEFINE j == [job[p] EXCEPT !.step = "next", !.rows = saved, !.left = left]
  <1>3. job' = [job EXCEPT ![p] = j]
    BY <1>1, <1>2
  <1>4. /\ job[p].step = "lock" /\ owner = Nobody /\ owner' = p
        /\ UNCHANGED <<acl, kind, saved, lost>>
    BY DEF AclLock
  <1>5. /\ job[p].sid = Nobody /\ ~job[p].changed
        /\ job[p].op \in {"refresh", "reuse", "release", "release_all"}
    BY <1>4 DEF AclInv, OneOwner
  <1>6. saved \in SUBSET Sids /\ \A f \in Files : acl[f] \subseteq saved \cup lost[f]
    BY <1>4 DEF AclInv, AclTypes, AclAccounted
  <1>7. /\ j \in AclJob /\ j.step = "next" /\ j.op = job[p].op /\ j.sid = Nobody
        /\ ~j.changed /\ j.rows = saved
    BY <1>1, <1>5, <1>6 DEF AclJob
  <1> HIDE DEF j
  <1>8. OwnerOK(j, acl, lost, saved)
    BY <1>5, <1>6, <1>7 DEF OwnerOK
  <1>9. /\ job' \in [Processes -> AclJob]
        /\ job'[p] = j
        /\ \A r \in Processes \ {p} : job'[r] = job[r]
    BY <1>1, <1>3, <1>7
  <1>10. AclTypes'
    BY <1>4, <1>9 DEF AclInv, AclTypes
  <1>11. ASSUME NEW r \in Processes
         PROVE  /\ job'[r].step \in {"next", "tree"} <=> owner' = r
                /\ job'[r].op \in {"refresh", "reuse", "release", "release_all"}
                      <=> job'[r].step # "none"
                /\ job'[r].step = "lock" => job'[r].sid = Nobody /\ ~job'[r].changed
    <2>1. CASE r = p
      BY <1>4, <1>5, <1>7, <1>9, <2>1
    <2>2. CASE r # p
      <3>1. owner # r
        BY <1>4, AclAssumption
      <3> QED
        BY <1>4, <1>9, <2>2, <3>1 DEF AclInv, OneOwner
    <2> QED
      BY <2>1, <2>2
  <1>12. OneOwner'
    BY <1>11 DEF OneOwner
  <1>13. \A r \in Processes : owner' = r => OwnerOK(job'[r], acl', lost', saved')
    BY <1>4, <1>8, <1>9
  <1> QED
    BY <1>4, <1>10, <1>12, <1>13, AclAssumption DEF AclInv, EntriesBelong, AclAccounted

LEMMA TreeInv ==
    ASSUME AclInv, NEW p \in Processes, NEW s \in job[p].left,
           StartTree(p, s) \/ SkipTree(p, s)
    PROVE  AclInv'
  <1> DEFINE old == job[p]
  <1>1. old.step = "next"
    BY DEF StartTree, SkipTree
  <1>2. /\ owner = p /\ old \in AclJob /\ OwnerOK(old, acl, lost, saved)
        /\ old.op \in {"refresh", "reuse", "release", "release_all"}
        /\ EntriesBelong(acl, kind) /\ acl \in [Files -> SUBSET Sids]
        /\ job \in [Processes -> AclJob] /\ lost \in [Files -> SUBSET Sids]
    BY <1>1, OwnerKnown
  <1>3. s \in Sids /\ s.root \in Roots /\ Under[s.root] \in SUBSET Files
    BY <1>2, AclAssumption DEF AclJob, Sids
  <1>4. CASE SkipTree(p, s)
    <2> DEFINE j == [old EXCEPT !.left = @ \ {s}]
    <2>1. job' = [job EXCEPT ![p] = j]
      BY <1>2, <1>4 DEF SkipTree
    <2>2. j \in AclJob /\ j.step = "next" /\ j.op = old.op /\ OwnerOK(j, acl, lost, saved)
      BY <1>1, <1>2 DEF AclJob, OwnerOK
    <2>3. UNCHANGED <<acl, kind, saved, owner, lost>>
      BY <1>4 DEF SkipTree
    <2> HIDE DEF j
    <2> QED
      BY <1>2, <2>1, <2>2, <2>3, OwnerStep
  <1>5. CASE StartTree(p, s)
    <2> DEFINE j == [old EXCEPT !.step = "tree", !.sid = s, !.bad = FALSE,
                       !.left = @ \ {s}, !.todo = Under[s.root]]
    <2>1. job' = [job EXCEPT ![p] = j]
      BY <1>2, <1>5 DEF StartTree
    <2>2. old.op # "reuse"
      BY <1>5 DEF StartTree
    <2>3. /\ j \in AclJob /\ j.step = "tree" /\ j.op = old.op /\ j.sid = s
          /\ j.todo = Under[s.root] /\ j.rows = old.rows /\ j.changed = old.changed
      BY <1>2, <1>3 DEF AclJob
    <2>4. UNCHANGED <<acl, kind, saved, owner, lost>>
      BY <1>5 DEF StartTree
    <2> HIDE DEF j
    <2>5. \A f \in Files : acl[f] \subseteq old.rows \cup lost[f]
      BY <1>1, <1>2 DEF OwnerOK
    <2>6. \A f \in Files : s \in acl[f] => f \in Under[s.root]
      BY <1>2 DEF EntriesBelong
    <2>7. OwnerOK(j, acl, lost, saved)
      BY <1>2, <1>3, <2>2, <2>3, <2>5, <2>6 DEF OwnerOK
    <2> QED
      BY <1>2, <2>1, <2>3, <2>4, <2>7, OwnerStep
  <1> QED
    BY <1>4, <1>5

(* A file of the tree is visited.                                          *)
LEMMA VisitInv ==
    ASSUME AclInv, NEW p \in Processes, NEW f \in job[p].todo,
           Reconcile(p, f) \/ Revoke(p, f)
    PROVE  AclInv'
  <1> DEFINE old == job[p]
             s == old.sid
  <1>1. old.step = "tree" /\ UNCHANGED <<kind, saved, owner, lost>>
    BY DEF Reconcile, Revoke, Visits
  <1>2. /\ owner = p /\ old \in AclJob /\ OwnerOK(old, acl, lost, saved)
        /\ old.op \in {"refresh", "reuse", "release", "release_all"}
        /\ EntriesBelong(acl, kind) /\ acl \in [Files -> SUBSET Sids]
        /\ job \in [Processes -> AclJob] /\ lost \in [Files -> SUBSET Sids]
    BY <1>1, OwnerKnown
  <1>3. s \in Sids /\ f \in Files /\ old.todo \in SUBSET Files
    BY <1>1, <1>2 DEF OwnerOK, AclJob
  <1>4. CASE Reconcile(p, f)
    <2>1. old.op = "refresh"
      BY <1>4 DEF Reconcile
    <2>2. ASSUME NEW todo \in SUBSET old.todo, NEW bad \in BOOLEAN,
                 job' = [job EXCEPT ![p] = [old EXCEPT !.todo = todo, !.bad = bad]],
                 acl' \in [Files -> SUBSET Sids], EntriesBelong(acl', kind),
                 \A g \in Files : \A t \in acl'[g] :
                    t \in acl[g] \/ (t = s /\ g \notin todo)
          PROVE  AclInv'
      <3> DEFINE j == [old EXCEPT !.todo = todo, !.bad = bad]
      <3>1. /\ j \in AclJob /\ j.step = "tree" /\ j.op = "refresh" /\ j.sid = s
            /\ j.todo = todo /\ j.rows = old.rows /\ j.changed = old.changed
        BY <1>1, <1>2, <2>1 DEF AclJob
      <3>2. job' = [job EXCEPT ![p] = j]
        BY <2>2
      <3> HIDE DEF j
      <3>3. \A g \in Files : \A t \in acl[g] :
               t \in old.rows \/ t \in lost[g] \/ (t = s /\ g \notin old.todo)
        BY <1>2, <2>1 DEF OwnerOK
      <3>4. OwnerOK(j, acl', lost, saved)
        BY <1>1, <1>2, <1>3, <2>1, <2>2, <3>1, <3>3 DEF OwnerOK
      <3> QED
        BY <1>1, <1>2, <2>2, <3>1, <3>2, <3>4, OwnerStep
    <2>3. ASSUME NEW todo \in SUBSET old.todo, NEW bad \in BOOLEAN, f \notin todo,
                 job' = [job EXCEPT ![p] = [old EXCEPT !.todo = todo, !.bad = bad]],
                 Entered(p, f) \/ UNCHANGED acl
          PROVE  AclInv'
      <3>1. CASE UNCHANGED acl
        BY <1>2, <2>2, <2>3, <3>1, Zenon
      <3>2. CASE Entered(p, f)
        <4>1. f \in Under[s.root]
          BY <1>1, <1>2, <2>1 DEF OwnerOK
        <4>2. acl' = [acl EXCEPT ![f] = @ \cup {s}] /\ kind[f] \in {"plain", "linked"}
          BY <3>2 DEF Entered
        <4>3. /\ acl' \in [Files -> SUBSET Sids]
              /\ \A g \in Files : acl'[g] = IF g = f THEN acl[g] \cup {s} ELSE acl[g]
          BY <1>2, <1>3, <4>2
        <4>4. EntriesBelong(acl', kind)
          BY <1>2, <4>1, <4>2, <4>3 DEF EntriesBelong
        <4> QED
          BY <2>2, <2>3, <4>3, <4>4, Zenon
      <3> QED
        BY <2>3, <3>1, <3>2
    <2>4. old.bad \in BOOLEAN
      BY <1>2 DEF AclJob
    <2>5. ASSUME job' = [job EXCEPT ![p].todo = @ \ {f}], Entered(p, f) \/ UNCHANGED acl
          PROVE  AclInv'
      <3>1. job' = [job EXCEPT ![p] = [old EXCEPT !.todo = old.todo \ {f}, !.bad = old.bad]]
        BY <1>2, <2>5 DEF AclJob
      <3>2. old.todo \ {f} \in SUBSET old.todo /\ f \notin old.todo \ {f}
        OBVIOUS
      <3> QED
        BY <2>3, <2>4, <2>5, <3>1, <3>2, Zenon
    <2>6. ASSUME NEW rest \in {{}, old.todo \ {f}},
                 job' = [job EXCEPT ![p].todo = rest, ![p].bad = TRUE],
                 Entered(p, f) \/ UNCHANGED acl
          PROVE  AclInv'
      <3>1. job' = [job EXCEPT ![p] = [old EXCEPT !.todo = rest, !.bad = TRUE]]
        BY <1>2, <2>6 DEF AclJob
      <3>2. rest \in SUBSET old.todo /\ f \notin rest
        BY <2>6
      <3> QED
        BY <2>3, <2>6, <3>1, <3>2, Zenon
    <2> QED
      BY <1>4, <2>5, <2>6 DEF Reconcile
  <1>5. CASE Revoke(p, f)
    <2>1. old.op \in {"release", "release_all"}
      BY <1>5 DEF Revoke
    <2>2. ASSUME NEW todo \in SUBSET old.todo, NEW bad \in BOOLEAN,
                 job' = [job EXCEPT ![p] = [old EXCEPT !.todo = todo, !.bad = bad]],
                 acl' \in [Files -> SUBSET Sids],
                 \A g \in Files : acl'[g] \subseteq acl[g],
                 ~bad => ~old.bad /\ \A g \in Files : s \in acl'[g] => g \in todo
          PROVE  AclInv'
      <3> DEFINE j == [old EXCEPT !.todo = todo, !.bad = bad]
      <3>1. /\ j \in AclJob /\ j.step = "tree" /\ j.op = old.op /\ j.sid = s
            /\ j.todo = todo /\ j.rows = old.rows /\ j.changed = old.changed
            /\ j.bad = bad
        BY <1>1, <1>2 DEF AclJob
      <3>2. job' = [job EXCEPT ![p] = j]
        BY <2>2
      <3> HIDE DEF j
      <3>3. \A g \in Files : acl[g] \subseteq old.rows \cup lost[g]
        BY <1>2, <2>1 DEF OwnerOK
      <3>4. OwnerOK(j, acl', lost, saved)
        BY <1>1, <1>2, <1>3, <2>1, <2>2, <3>1, <3>3 DEF OwnerOK
      <3>5. EntriesBelong(acl', kind)
        BY <1>2, <2>2 DEF EntriesBelong
      <3> QED
        BY <1>1, <1>2, <2>1, <2>2, <3>1, <3>2, <3>4, <3>5, OwnerStep
    <2>3. ASSUME job' = [job EXCEPT ![p].todo = @ \ {f}], acl' \in [Files -> SUBSET Sids],
                 \A g \in Files : acl'[g] \subseteq acl[g], s \notin acl'[f]
          PROVE  AclInv'
      <3>1. old.bad \in BOOLEAN
        BY <1>2 DEF AclJob
      <3>2. job' = [job EXCEPT ![p] = [old EXCEPT !.todo = old.todo \ {f}, !.bad = old.bad]]
        BY <1>2, <2>3 DEF AclJob
      <3>3. ~old.bad => \A g \in Files : s \in acl'[g] => g \in old.todo \ {f}
        BY <1>1, <1>2, <2>1, <2>3 DEF OwnerOK
      <3> QED
        BY <2>2, <2>3, <3>1, <3>2, <3>3, Zenon
    <2>4. ASSUME Removed(p, f)
          PROVE  /\ acl' \in [Files -> SUBSET Sids]
                 /\ \A g \in Files : acl'[g] \subseteq acl[g]
                 /\ s \notin acl'[f]
      <3>1. acl' = [acl EXCEPT ![f] = @ \ {s}]
        BY <2>4 DEF Removed
      <3> QED
        BY <1>2, <1>3, <3>1
    <2>5. ASSUME job' = [job EXCEPT ![p].todo = {}, ![p].bad = TRUE],
                 Removed(p, f) \/ UNCHANGED acl
          PROVE  AclInv'
      <3>1. job' = [job EXCEPT ![p] = [old EXCEPT !.todo = {}, !.bad = TRUE]]
        BY <1>2, <2>5 DEF AclJob
      <3>2. acl' \in [Files -> SUBSET Sids] /\ \A g \in Files : acl'[g] \subseteq acl[g]
        BY <1>2, <2>4, <2>5
      <3>3. {} \in SUBSET old.todo
        OBVIOUS
      <3> QED
        BY <2>2, <3>1, <3>2, <3>3, Zenon
    <2>6. CASE /\ kind[f] \in {"reparse", "missing"}
               /\ job' = [job EXCEPT ![p].todo = @ \ {f}] /\ UNCHANGED acl
      <3>1. s \notin acl[f]
        BY <1>2, <1>3, <2>6 DEF EntriesBelong
      <3> QED
        BY <1>2, <2>3, <2>6, <3>1
    <2>7. CASE Removed(p, f) /\ job' = [job EXCEPT ![p].todo = @ \ {f}]
      BY <2>3, <2>4, <2>7
    <2> QED
      BY <1>5, <2>5, <2>6, <2>7 DEF Revoke
  <1> QED
    BY <1>4, <1>5

LEMMA EndTreeInv ==
    ASSUME AclInv, NEW p \in Processes, EndTree(p)
    PROVE  AclInv'
  <1> DEFINE old == job[p]
             kept == old.op # "refresh" /\ old.bad
  <1>1. old.step = "tree" /\ old.todo = {} /\ UNCHANGED <<acl, kind, saved, owner, lost>>
    BY DEF EndTree
  <1>2. /\ owner = p /\ old \in AclJob /\ OwnerOK(old, acl, lost, saved)
        /\ old.op \in {"refresh", "reuse", "release", "release_all"}
        /\ EntriesBelong(acl, kind) /\ acl \in [Files -> SUBSET Sids]
        /\ job \in [Processes -> AclJob] /\ lost \in [Files -> SUBSET Sids]
    BY <1>1, OwnerKnown
  <1>3. old.sid \in Sids /\ old.op # "reuse"
    BY <1>1, <1>2 DEF OwnerOK
  <1>4. PICK rows \in SUBSET Sids, changed \in BOOLEAN :
           /\ job' = [job EXCEPT ![p] = [old EXCEPT !.step = "next", !.changed = changed,
                                                    !.rows = rows]]
           /\ \/ kept /\ rows = old.rows /\ changed = old.changed
              \/ old.op = "refresh" /\ rows = old.rows \cup {old.sid} /\ changed
              \/ old.op # "refresh" /\ ~old.bad /\ rows = old.rows \ {old.sid} /\ changed
    <2>1. old.rows \in SUBSET Sids /\ old.changed \in BOOLEAN /\ old.bad \in BOOLEAN
      BY <1>2 DEF AclJob
    <2>2. CASE kept
      <3>1. job' = [job EXCEPT ![p] = [old EXCEPT !.step = "next", !.changed = old.changed,
                                                  !.rows = old.rows]]
        BY <1>2, <2>1, <2>2 DEF EndTree, AclJob
      <3> QED
        BY <2>1, <2>2, <3>1
    <2>3. CASE old.op = "refresh"
      <3>1. job' = [job EXCEPT ![p] = [old EXCEPT !.step = "next", !.changed = TRUE,
                                                  !.rows = old.rows \cup {old.sid}]]
        BY <1>2, <2>1, <2>3 DEF EndTree, AclJob
      <3> QED
        BY <1>3, <2>1, <2>3, <3>1
    <2>4. CASE old.op # "refresh" /\ ~old.bad
      <3>1. job' = [job EXCEPT ![p] = [old EXCEPT !.step = "next", !.changed = TRUE,
                                                  !.rows = old.rows \ {old.sid}]]
        BY <1>2, <2>1, <2>4 DEF EndTree, AclJob
      <3> QED
        BY <1>3, <2>1, <2>4, <3>1
    <2> QED
      BY <2>2, <2>3, <2>4
  <1> DEFINE j == [old EXCEPT !.step = "next", !.changed = changed, !.rows = rows]
  <1>5. /\ j \in AclJob /\ j.step = "next" /\ j.op = old.op /\ j.sid = old.sid
        /\ j.rows = rows /\ j.changed = changed
    BY <1>2, <1>4 DEF AclJob
  <1>6. job' = [job EXCEPT ![p] = j]
    BY <1>4
  <1> HIDE DEF j
  <1>7. OwnerOK(j, acl, lost, saved)
    <2>1. CASE old.op = "refresh"
      BY <1>1, <1>2, <1>3, <1>4, <1>5, <2>1 DEF OwnerOK
    <2>2. CASE old.op \in {"release", "release_all"} /\ old.bad
      BY <1>1, <1>2, <1>3, <1>4, <1>5, <2>2 DEF OwnerOK
    <2>3. CASE old.op \in {"release", "release_all"} /\ ~old.bad
      <3>1. \A f \in Files : old.sid \notin acl[f] /\ acl[f] \subseteq old.rows \cup lost[f]
        BY <1>1, <1>2, <2>3 DEF OwnerOK
      <3>2. \A f \in Files : acl[f] \subseteq rows \cup lost[f]
        BY <1>4, <2>3, <3>1
      <3> QED
        BY <1>1, <1>2, <1>3, <1>4, <1>5, <2>3, <3>2 DEF OwnerOK
    <2> QED
      BY <1>2, <1>3, <2>1, <2>2, <2>3
  <1> QED
    BY <1>1, <1>2, <1>5, <1>6, <1>7, OwnerStep

(* The exception leaves an entry without a row at the root: nothing else of *)
(* the tree was visited yet.                                               *)
LEMMA DropTreeInv ==
    ASSUME AclInv, NEW p \in Processes, DropTree(p)
    PROVE  AclInv'
  <1> DEFINE old == job[p]
             s == old.sid
             j == [old EXCEPT !.step = "next", !.sid = Nobody, !.todo = {}]
  <1>1. /\ old.step = "tree" /\ old.op = "refresh"
        /\ old.todo = Under[s.root] \ {s.root}
        /\ UNCHANGED <<acl, kind, saved, owner>>
    BY DEF DropTree
  <1>2. /\ owner = p /\ old \in AclJob /\ OwnerOK(old, acl, lost, saved)
        /\ EntriesBelong(acl, kind) /\ acl \in [Files -> SUBSET Sids]
        /\ job \in [Processes -> AclJob] /\ lost \in [Files -> SUBSET Sids]
    BY <1>1, OwnerKnown
  <1>3. s \in Sids
    BY <1>1, <1>2 DEF OwnerOK
  <1>4. job' = [job EXCEPT ![p] = j]
    BY <1>2 DEF DropTree
  <1>5. /\ j \in AclJob /\ j.step = "next" /\ j.op = "refresh"
        /\ j.rows = old.rows /\ j.changed = old.changed
    BY <1>1, <1>2 DEF AclJob
  <1>6. lost' = [lost EXCEPT ![s.root] = @ \cup {s}]
    BY DEF DropTree
  <1>7. /\ lost' \in [Files -> SUBSET Sids]
        /\ \A f \in Files : lost'[f] = IF f = s.root THEN lost[f] \cup {s} ELSE lost[f]
    BY <1>2, <1>3, <1>6
  <1> HIDE DEF j
  <1>8. \A f \in Files : \A t \in acl[f] : t \in old.rows \/ t \in lost'[f]
    <2> SUFFICES ASSUME NEW f \in Files, NEW t \in acl[f]
                 PROVE  t \in old.rows \/ t \in lost'[f]
      OBVIOUS
    <2>1. \/ t \in old.rows \/ t \in lost[f]
          \/ t = s /\ f \notin old.todo
      BY <1>1, <1>2 DEF OwnerOK
    <2>2. f \in Under[t.root]
      BY <1>2 DEF EntriesBelong
    <2> QED
      BY <1>1, <1>7, <2>1, <2>2
  <1>9. OwnerOK(j, acl, lost', saved)
    BY <1>1, <1>2, <1>5, <1>8 DEF OwnerOK
  <1> QED
    BY <1>1, <1>2, <1>4, <1>5, <1>7, <1>9, OwnerStep

LEMMA AclEndInv ==
    ASSUME AclInv, NEW p \in Processes, AclFinish(p) \/ AclAbandon(p)
    PROVE  AclInv'
  <1> DEFINE old == job[p]
  <1>0. AclTypes /\ OneOwner
    BY DEF AclInv
  <1>1. CASE AclFinish(p)
    <2>1. old.step = "next"
      BY <1>1 DEF AclFinish
    <2>2. owner = p /\ old \in AclJob /\ OwnerOK(old, acl, lost, saved)
      BY <2>1, OwnerKnown
    <2>3. /\ saved' = (IF old.changed THEN old.rows ELSE saved)
          /\ lost' = [f \in Files |-> lost[f] \ saved'] /\ AclReturn(p)
      BY <1>1 DEF AclFinish
    <2>4. saved' = old.rows
      BY <2>2, <2>3 DEF OwnerOK
    <2>5. \A f \in Files : acl[f] \subseteq old.rows \cup lost[f]
      <3>1. old.op \in {"refresh", "reuse", "release", "release_all"}
        BY <2>1, OwnerKnown
      <3> QED
        BY <2>1, <2>2, <3>1 DEF OwnerOK
    <2>6. saved' \in SUBSET Sids
      BY <2>2, <2>4 DEF AclJob
    <2>7. lost' \in [Files -> SUBSET Sids] /\ \A f \in Files : lost'[f] = lost[f] \ saved'
      BY <1>0, <2>3 DEF AclTypes
    <2>8. \A f \in Files : acl[f] \subseteq saved' \cup lost'[f]
      BY <2>4, <2>5, <2>7
    <2> QED
      BY <2>2, <2>3, <2>6, <2>7, <2>8, ReturnInv
  <1>2. CASE AclAbandon(p)
    <2> DEFINE here(f) == {s \in Unsaved(p) : f \in Under[s.root]}
    <2>1. /\ owner = p /\ AclReturn(p) /\ saved' = saved
          /\ lost' = [f \in Files |-> lost[f] \cup here(f)]
      BY <1>2 DEF AclAbandon
    <2>2. old.step \in {"next", "tree"}
      BY <1>0, <2>1 DEF OneOwner
    <2>3. /\ old \in AclJob /\ OwnerOK(old, acl, lost, saved)
          /\ old.op \in {"refresh", "reuse", "release", "release_all"}
          /\ EntriesBelong(acl, kind)
      BY <2>2, OwnerKnown
    <2>4. Unsaved(p) = IF old.op = "refresh"
                       THEN (old.rows \cup ({old.sid} \ {Nobody})) \ saved ELSE {}
      BY DEF Unsaved
    <2>5. \A f \in Files : acl[f] \in SUBSET Sids /\ Nobody \notin acl[f]
      BY <1>0, AclAssumption DEF AclTypes
    <2>6. ASSUME NEW f \in Files, NEW s \in acl[f]
          PROVE  s \in saved \/ s \in lost[f] \/ s \in here(f)
      <3>1. f \in Under[s.root] /\ s # Nobody
        BY <2>3, <2>5 DEF EntriesBelong
      <3>2. s \in saved \/ s \in lost[f] \/ s \in Unsaved(p)
        <4>1. CASE old.op = "refresh"
          BY <2>3, <2>4, <3>1, <4>1 DEF OwnerOK
        <4>2. CASE old.op = "reuse"
          BY <2>2, <2>3, <4>2 DEF OwnerOK
        <4>3. CASE old.op \in {"release", "release_all"}
          BY <2>3, <4>3 DEF OwnerOK
        <4> QED
          BY <2>3, <4>1, <4>2, <4>3
      <3> QED
        BY <3>1, <3>2
    <2>7. Unsaved(p) \in SUBSET Sids
      BY <2>3, <2>4 DEF AclJob
    <2>8. saved' \in SUBSET Sids
      BY <1>0, <2>1 DEF AclTypes
    <2>9. /\ lost' \in [Files -> SUBSET Sids]
          /\ \A f \in Files : lost'[f] = lost[f] \cup here(f)
      BY <1>0, <2>1, <2>7 DEF AclTypes
    <2> HIDE DEF here
    <2>10. \A f \in Files : acl[f] \subseteq saved' \cup lost'[f]
      BY <2>1, <2>6, <2>9
    <2> QED
      BY <2>1, <2>8, <2>9, <2>10, ReturnInv
  <1> QED
    BY <1>1, <1>2

(* Entries only go when a file changes under the sandbox.                  *)
LEMMA FileChangesInv ==
    ASSUME AclInv, NEW f \in Files, NEW now \in {"plain", "linked", "reparse", "missing"},
           FileChanges(f, now)
    PROVE  AclInv'
  <1>1. /\ acl \in [Files -> SUBSET Sids] /\ EntriesBelong(acl, kind)
        /\ kind \in [Files -> {"plain", "linked", "reparse", "missing"}]
    BY DEF AclInv, AclTypes
  <1>2. kind' = [kind EXCEPT ![f] = now] /\ UNCHANGED <<saved, owner, job, lost>>
    BY DEF FileChanges
  <1>3. \/ acl' = [acl EXCEPT ![f] = {}]
        \/ acl' = acl /\ now \in {"plain", "linked"}
    <2>1. CASE {kind[f], now} = {"plain", "linked"}
      <3>1. now \in {kind[f], now}
        OBVIOUS
      <3>2. acl' = acl
        BY <1>1, <2>1 DEF FileChanges
      <3> QED
        BY <2>1, <3>1, <3>2
    <2>2. CASE {kind[f], now} # {"plain", "linked"}
      BY <2>2 DEF FileChanges
    <2> QED
      BY <2>1, <2>2
  <1>4. acl' \in [Files -> SUBSET Sids] /\ \A g \in Files : acl'[g] \subseteq acl[g]
    BY <1>1, <1>3
  <1>5. EntriesBelong(acl', kind')
    BY <1>1, <1>2, <1>3 DEF EntriesBelong
  <1>6. AclTypes' /\ OneOwner' /\ AclAccounted'
    BY <1>1, <1>2, <1>4 DEF AclInv, AclTypes, OneOwner, AclAccounted
  <1>7. \A p \in Processes : owner' = p => OwnerOK(job'[p], acl', lost', saved')
    BY <1>2, <1>4 DEF AclInv, OwnerOK
  <1> QED
    BY <1>5, <1>6, <1>7 DEF AclInv

LEMMA AclNextInv == AclInv /\ [AclNext]_aclVars => AclInv'
  <1> SUFFICES ASSUME AclInv, [AclNext]_aclVars PROVE AclInv'
    OBVIOUS
  <1>1. ASSUME NEW p \in Processes,
               \/ \E asked \in AclCalls : AclBegin(p, asked)
               \/ AclLock(p) \/ EndTree(p) \/ DropTree(p) \/ AclFinish(p) \/ AclAbandon(p)
               \/ \E s \in job[p].left : StartTree(p, s) \/ SkipTree(p, s)
               \/ \E f \in job[p].todo : Reconcile(p, f) \/ Revoke(p, f)
        PROVE  AclInv'
    BY <1>1, AclBeginInv, AclLockInv, EndTreeInv, DropTreeInv, AclEndInv, TreeInv, VisitInv
  <1>2. CASE UNCHANGED aclVars
    BY <1>2 DEF aclVars, AclInv, AclTypes, OneOwner, AclAccounted
  <1> QED
    BY <1>1, <1>2, FileChangesInv DEF AclNext

(* No entry is left in the access lists of the host that a release would   *)
(* not find, unless the refresh that made it died, threw or failed to save,*)
(* or reported the path as an error after the entry of its root.           *)
THEOREM EntriesAreAccounted == AclSpec => []AclAccounted
  <1>1. AclInv => AclAccounted
    BY DEF AclInv
  <1> QED
    BY <1>1, AclInitInv, AclNextInv, PTL DEF AclSpec

-----------------------------------------------------------------------------
(* The launch of a process.                                                *)

Outcome == [registered : BOOLEAN, started : BOOLEAN, timedOut : BOOLEAN,
            terminated : BOOLEAN,
            error : {"none", "launch", "setup", "canceled", "wait"}]

ProcessTypes ==
    /\ platform \in {"linux", "windows"}
    /\ stage \in {"idle", "registry", "pipes", "signals", "launch", "started", "threads",
                  "watch", "check", "ended", "joining", "returned", "unwinding",
                  "hostdead"}
    /\ child \in {"none", "setup", "failing", "running", "ended", "reaped"}
    /\ cause \in {"none", "setup", "exit", "killed"}
    /\ stray \in {"none", "group", "escaped"}
    /\ setupPipe \in BOOLEAN
    /\ writer \in {"none", "busy", "done"} /\ reader \in {"none", "busy", "done"}
    /\ ioError \in BOOLEAN
    /\ result \in Outcome
    /\ late \in BOOLEAN /\ stop \in BOOLEAN /\ signalled \in BOOLEAN
    /\ handlers \in {"ours", "default"}

Before == {"idle", "registry", "pipes", "signals", "launch"}

Watching == {"started", "threads", "watch", "check", "unwinding"}

After == {"ended", "joining"}

(* Where the child is at each place of the call, and how it got there.  A  *)
(* setup that failed is in the error pipe before the child ends, or was    *)
(* read from it, and only Linux has a setup.                               *)
ChildOK ==
    /\ stage \in Before => child = "none"
    /\ stage \in Watching => child \in {"setup", "failing", "running", "ended"}
    /\ stage \in After => child = "reaped"
    /\ stage = "returned" => child \in {"none", "reaped"}
    /\ child \in {"none", "setup", "failing", "running"} <=> cause = "none"
    /\ child = "ended" => cause # "killed"
    /\ child = "none" => stray = "none"
    /\ child = "failing" \/ cause = "setup" => setupPipe \/ result.error # "none"
    /\ child \in {"setup", "failing"} \/ cause = "setup" => platform = "linux"
    /\ stage \in {"started", "check"} => platform = "linux"

(* What the result holds before it is complete.  Only from the moment the  *)
(* child is reaped on can it say more than that a setup failed.            *)
ResultOK ==
    /\ stage \in Before =>
          /\ result.registered /\ ~result.started
          /\ ~result.timedOut /\ ~result.terminated
          /\ result.error = "none"
    /\ stage \in Watching =>
          /\ result.registered /\ result.started
          /\ ~result.timedOut /\ ~result.terminated
          /\ result.error \in {"none", "setup"}
    /\ stage \in After => result.started
    /\ stage \in After \/ stage = "returned" =>
          /\ cause = "killed" => result.timedOut \/ result.error # "none"
          /\ result.timedOut => late
          /\ result.error = "canceled" => signalled
          /\ result.terminated => stray # "group" /\ child = "reaped"
          /\ ~result.terminated /\ result.error = "none" => cause # "killed"
    /\ stage = "joining" /\ cause = "setup" => result.error # "none"
    /\ stage = "returned" =>
          /\ ~result.started => result.error # "none" \/ ~result.registered
          /\ cause = "setup" => result.error # "none"
          /\ result.started /\ ~result.terminated /\ result.error = "none" =>
                cause = "exit" /\ reader = "done"
          /\ platform = "windows" => stray # "group"

(* The reader ends without an error only when it has everything and nobody *)
(* is left to write more.                                                  *)
ReaderOK ==
    /\ reader = "done" /\ ~ioError => got = produced /\ ~Alive /\ stray = "none"
    /\ stage \in Before \cup {"started", "threads"} => reader = "none"
    /\ stage \in {"watch", "check", "ended", "joining"} => reader # "none"

(* A stop signal is of this call, and the handlers are there only for it.  *)
SignalsOK ==
    /\ stage \in {"idle", "registry", "pipes", "signals", "returned"} =>
          handlers = "default"
    /\ platform = "linux" /\ stage \in {"launch"} \cup Watching /\ stop => signalled

ProcessInv == ProcessTypes /\ ChildOK /\ ResultOK /\ ReaderOK /\ SignalsOK

USE DEF childVars, pipeVars, signalVars

LEMMA ProcessInitInv == ProcessInit => ProcessInv
  <1> SUFFICES ASSUME ProcessInit PROVE ProcessInv
    OBVIOUS
  <1>1. NoResult \in Outcome
    BY DEF NoResult, Outcome
  <1>2. ProcessTypes
    BY <1>1 DEF ProcessInit, ProcessTypes
  <1>3. ChildOK
    BY DEF ProcessInit, ChildOK, Before, Watching, After
  <1>4. ResultOK
    BY DEF ProcessInit, ResultOK, NoResult, Before, Watching, After
  <1>5. ReaderOK /\ SignalsOK
    BY DEF ProcessInit, ReaderOK, SignalsOK, Before, Watching, After
  <1> QED
    BY <1>2, <1>3, <1>4, <1>5 DEF ProcessInv

(* The calling thread up to the launch.                                    *)
LEMMA BeforeLaunchInv ==
    ASSUME ProcessInv,
           \/ \E data \in {"none", "small", "large"} : CallProcess(data)
           \/ \E registered \in BOOLEAN : Register(registered)
           \/ MakePipes \/ InstallSignals \/ Launch
    PROVE  ProcessInv'
  <1> USE DEF ProcessInv, ProcessTypes, ChildOK, ResultOK, ReaderOK, SignalsOK,
              Before, Watching, After, Outcome, Alive
  <1>1. CASE \E data \in {"none", "small", "large"} : CallProcess(data)
    <2>1. result' \in Outcome
      BY <1>1 DEF CallProcess, NoResult
    <2>2. ProcessTypes'
      BY <1>1, <2>1 DEF CallProcess, NoResult
    <2>3. ChildOK'
      BY <1>1 DEF CallProcess, NoResult
    <2>4. ResultOK'
      BY <1>1 DEF CallProcess, NoResult
    <2>5. ReaderOK' /\ SignalsOK'
      BY <1>1 DEF CallProcess, NoResult
    <2> QED
      BY <2>2, <2>3, <2>4, <2>5
  <1>2. CASE \E registered \in BOOLEAN : Register(registered)
    <2>1. result' \in Outcome
      BY <1>2 DEF Register, NoResult
    <2>2. ProcessTypes'
      BY <1>2, <2>1 DEF Register, NoResult
    <2>3. ChildOK'
      BY <1>2 DEF Register, NoResult
    <2>4. ResultOK'
      BY <1>2 DEF Register, NoResult
    <2>5. ReaderOK' /\ SignalsOK'
      BY <1>2 DEF Register, NoResult
    <2> QED
      BY <2>2, <2>3, <2>4, <2>5
  <1>3. CASE MakePipes
    BY <1>3 DEF MakePipes, Returns, NoResult
  <1>4. CASE InstallSignals
    <2>1. result' \in Outcome
      BY <1>4 DEF InstallSignals, Returns, NoResult
    <2>2. ProcessTypes'
      BY <1>4, <2>1 DEF InstallSignals, Returns, NoResult
    <2>3. ChildOK'
      BY <1>4 DEF InstallSignals, Returns, NoResult
    <2>4. ResultOK'
      BY <1>4 DEF InstallSignals, Returns, NoResult
    <2>5. ReaderOK' /\ SignalsOK'
      BY <1>4 DEF InstallSignals, Returns, NoResult
    <2> QED
      BY <2>2, <2>3, <2>4, <2>5
  <1>5. CASE Launch
    <2>1. result' \in Outcome
      BY <1>5 DEF Launch, Returns, NoResult
    <2>2. ProcessTypes'
      BY <1>5, <2>1 DEF Launch, Returns, NoResult
    <2>3. ChildOK'
      BY <1>5 DEF Launch, Returns, NoResult
    <2>4. ResultOK'
      BY <1>5 DEF Launch, Returns, NoResult
    <2>5. ReaderOK'
      BY <1>5 DEF Launch, Returns
    <2>6. SignalsOK'
      <3>1. stage = "launch" /\ UNCHANGED <<platform, stop, signalled>>
        BY <1>5 DEF Launch
      <3>2. platform = "linux" /\ stop => signalled
        BY <3>1
      <3>3. stage' = "returned" => handlers' = "default"
        BY <1>5 DEF Launch, Returns
      <3>4. stage' \in {"returned", "started", "threads"}
        BY <1>5 DEF Launch, Returns
      <3> QED
        BY <3>1, <3>2, <3>3, <3>4
    <2> QED
      BY <2>2, <2>3, <2>4, <2>5, <2>6
  <1> QED
    BY <1>1, <1>2, <1>3, <1>4, <1>5

(* The child, its descendants and the threads of the call.                 *)
LEMMA OthersInv ==
    ASSUME ProcessInv, stage # "hostdead",
           \/ ChildSetup \/ ChildExits \/ StrayEnds \/ Prints
           \/ \E where \in {"group", "escaped"} : ChildSpawns(where)
           \/ WriterEnds \/ WriterBreaks \/ ReaderReads \/ ReaderFails
           \/ StopSignal \/ DeadlinePasses
    PROVE  ProcessInv'
  <1> USE DEF ProcessInv, ProcessTypes, ChildOK, ResultOK, ReaderOK, SignalsOK,
              Before, Watching, After, Outcome, Alive
  <1>1. CASE ChildSetup
    <2>1. result' \in Outcome
      BY <1>1 DEF ChildSetup
    <2>2. ProcessTypes'
      <3>1. setupPipe' \in BOOLEAN
        BY <1>1 DEF ChildSetup
      <3>2. child' \in {"running", "failing"}
        BY <1>1 DEF ChildSetup
      <3> QED
        BY <1>1, <2>1, <3>1, <3>2 DEF ChildSetup
    <2>3. ChildOK'
      BY <1>1 DEF ChildSetup
    <2>4. ResultOK'
      BY <1>1 DEF ChildSetup
    <2>5. ReaderOK' /\ SignalsOK'
      BY <1>1 DEF ChildSetup
    <2> QED
      BY <2>2, <2>3, <2>4, <2>5
  <1>2. CASE ChildExits
    BY <1>2 DEF ChildExits
  <1>3. CASE StrayEnds
    BY <1>3 DEF StrayEnds
  <1>4. CASE Prints
    BY <1>4 DEF Prints
  <1>5. CASE \E where \in {"group", "escaped"} : ChildSpawns(where)
    BY <1>5 DEF ChildSpawns
  <1>6. CASE WriterEnds
    BY <1>6 DEF WriterEnds
  <1>7. CASE WriterBreaks
    BY <1>7 DEF WriterBreaks
  <1>8. CASE ReaderReads
    BY <1>8 DEF ReaderReads
  <1>9. CASE ReaderFails
    BY <1>9 DEF ReaderFails
  <1>10. CASE StopSignal
    BY <1>10 DEF StopSignal
  <1>11. CASE DeadlinePasses
    BY <1>11 DEF DeadlinePasses
  <1> QED
    BY <1>1, <1>2, <1>3, <1>4, <1>5, <1>6, <1>7, <1>8, <1>9, <1>10, <1>11

(* The calling thread from the launch on.                                  *)
LEMMA AfterLaunchInv ==
    ASSUME ProcessInv,
           \/ PrepareParent \/ StartThreads \/ Consume \/ Check \/ WaitFails
           \/ WindowsWait \/ End \/ Join \/ Unwind
    PROVE  ProcessInv'
  <1> USE DEF ProcessInv, ProcessTypes, ChildOK, ResultOK, ReaderOK, SignalsOK,
              Before, Watching, After, Outcome, Alive
  <1>1. CASE PrepareParent
    <2>1. result' \in Outcome
      BY <1>1 DEF PrepareParent, KillGroup
    <2>2. ProcessTypes'
      BY <1>1, <2>1 DEF PrepareParent, KillGroup
    <2>3. ChildOK'
      BY <1>1 DEF PrepareParent, KillGroup
    <2>4. ResultOK'
      BY <1>1 DEF PrepareParent, KillGroup
    <2>5. ReaderOK' /\ SignalsOK'
      BY <1>1 DEF PrepareParent, KillGroup
    <2> QED
      BY <2>2, <2>3, <2>4, <2>5
  <1>2. CASE StartThreads
    BY <1>2 DEF StartThreads
  <1>3. CASE Consume
    <2>1. /\ result' \in Outcome /\ setupPipe' \in BOOLEAN
          /\ setupPipe \/ result.error # "none" => result'.error # "none"
          /\ result'.error \in {"setup", result.error}
          /\ result'.registered = result.registered /\ result'.started = result.started
          /\ result'.timedOut = result.timedOut /\ result'.terminated = result.terminated
      BY <1>3 DEF Consume, Consumed
    <2>2. /\ stage = "watch" /\ stage' = "check" /\ platform = "linux"
          /\ UNCHANGED <<platform, child, cause, stray, pipeVars, late, signalVars>>
      BY <1>3 DEF Consume, Consumed
    <2>3. ProcessTypes'
      BY <2>1, <2>2
    <2>4. ChildOK'
      BY <2>1, <2>2
    <2>5. ResultOK'
      BY <2>1, <2>2
    <2>6. ReaderOK' /\ SignalsOK'
      BY <2>2
    <2> QED
      BY <2>3, <2>4, <2>5, <2>6
  <1>4. CASE Check
    <2>1. result' \in Outcome
      <3>1. \/ result' = result
            \/ result' = [result EXCEPT !.terminated = TRUE, !.error = "canceled"]
            \/ result' = [result EXCEPT !.terminated = TRUE, !.timedOut = TRUE]
        BY <1>4 DEF Check, WatchAgain
      <3> QED  BY <3>1
    <2>2. ProcessTypes'
      BY <1>4, <2>1 DEF Check, KillGroup, WatchAgain
    <2>3. ChildOK'
      BY <1>4 DEF Check, KillGroup, WatchAgain
    <2>4. ResultOK'
      <3> HIDE DEF ProcessTypes, ReaderOK, Outcome, Alive
      <3>1. /\ platform = "linux" /\ stage = "check" /\ signalled' = signalled /\ late' = late
            /\ result.registered /\ result.started /\ ~result.timedOut /\ ~result.terminated
            /\ result.error \in {"none", "setup"}
            /\ stop => signalled
        BY <1>4 DEF Check
      <3>2. CASE stage' = "watch" /\ UNCHANGED <<childVars, result>>
        BY <3>1, <3>2
      <3>3. CASE /\ child = "ended" /\ stage' = "ended"
                 /\ UNCHANGED <<cause, stray, setupPipe, result>>
        <4>1. cause # "killed"
          BY <3>1, <3>3
        <4> QED  BY <3>1, <3>3, <4>1
      <3>4. CASE stop /\ KillGroup /\ stage' = "ended"
                 /\ result' = [result EXCEPT !.terminated = TRUE, !.error = "canceled"]
        <4>1. /\ result'.terminated /\ result'.error = "canceled" /\ ~result'.timedOut
              /\ result'.started /\ result'.registered
          BY <2>1, <3>1, <3>4 DEF ProcessTypes, Outcome
        <4>2. stray' # "group" /\ child' = "reaped"
          BY <3>4 DEF KillGroup
        <4> QED  BY <3>1, <3>4, <4>1, <4>2
      <3>5. CASE late /\ KillGroup /\ stage' = "ended"
                 /\ result' = [result EXCEPT !.terminated = TRUE, !.timedOut = TRUE]
        <4>1. /\ result'.terminated /\ result'.timedOut /\ result'.started
              /\ result'.registered /\ result'.error # "canceled"
          BY <2>1, <3>1, <3>5 DEF ProcessTypes, Outcome
        <4>2. stray' # "group" /\ child' = "reaped"
          BY <3>5 DEF KillGroup
        <4> QED  BY <3>1, <3>5, <4>1, <4>2
      <3> QED  BY <1>4, <3>2, <3>3, <3>4, <3>5 DEF Check, WatchAgain
    <2>5. ReaderOK' /\ SignalsOK'
      BY <1>4 DEF Check, KillGroup, WatchAgain
    <2> QED
      BY <2>2, <2>3, <2>4, <2>5
  <1>5. CASE WaitFails
    <2>1. result' \in Outcome
      BY <1>5 DEF WaitFails, KillGroup
    <2>2. ProcessTypes'
      BY <1>5, <2>1 DEF WaitFails, KillGroup
    <2>3. ChildOK'
      BY <1>5 DEF WaitFails, KillGroup
    <2>4. ResultOK'
      BY <1>5 DEF WaitFails, KillGroup
    <2>5. ReaderOK' /\ SignalsOK'
      BY <1>5 DEF WaitFails, KillGroup
    <2> QED
      BY <2>2, <2>3, <2>4, <2>5
  <1>6. CASE WindowsWait
    <2>1. result' \in Outcome
      BY <1>6 DEF WindowsWait, KillGroup
    <2>2. ProcessTypes'
      BY <1>6, <2>1 DEF WindowsWait, KillGroup
    <2>3. ChildOK'
      BY <1>6 DEF WindowsWait, KillGroup
    <2>4. ResultOK'
      BY <1>6 DEF WindowsWait, KillGroup
    <2>5. ReaderOK' /\ SignalsOK'
      BY <1>6 DEF WindowsWait, KillGroup
    <2> QED
      BY <2>2, <2>3, <2>4, <2>5
  <1>7. CASE End
    <2> HIDE DEF ChildOK, ResultOK, ReaderOK, SignalsOK, Alive
    <2>0. result \in Outcome /\ setupPipe \in BOOLEAN
      OBVIOUS
    <2>1. /\ result' \in Outcome /\ setupPipe' \in BOOLEAN
          /\ (platform = "linux" /\ setupPipe) \/ result.error # "none"
                => result'.error # "none"
          /\ platform # "linux" => result' = result
          /\ result'.error \in {"setup", result.error}
          /\ result'.error = "none" => result.error = "none"
          /\ result'.registered = result.registered /\ result'.started = result.started
          /\ result'.timedOut = result.timedOut /\ result'.terminated = result.terminated
      <3> HIDE DEF ProcessTypes
      <3>1. CASE platform = "linux" /\ setupPipe
        <4>1. result' = [result EXCEPT !.error = "setup"] /\ setupPipe' = FALSE
          BY <1>7, <3>1 DEF End, Consumed
        <4> QED
          BY <2>0, <3>1, <4>1
      <3>2. CASE ~(platform = "linux" /\ setupPipe)
        <4>1. result' = result /\ setupPipe' \in BOOLEAN
          BY <1>7, <2>0, <3>2 DEF End, Consumed, childVars
        <4> QED
          BY <2>0, <3>2, <4>1
      <3> QED
        BY <3>1, <3>2
    <2> USE DEF ChildOK, ResultOK, ReaderOK, SignalsOK, Alive
    <2>2. /\ stage = "ended" /\ stage' = "joining"
          /\ UNCHANGED <<platform, child, cause, stray, pipeVars, late, signalVars>>
      BY <1>7 DEF End, Consumed
    <2>3. ProcessTypes'
      BY <2>1, <2>2
    <2>4. ChildOK'
      BY <2>1, <2>2
    <2>5. ResultOK'
      BY <2>1, <2>2
    <2>6. ReaderOK' /\ SignalsOK'
      BY <2>2
    <2> QED
      BY <2>3, <2>4, <2>5, <2>6
  <1>8. CASE Join
    BY <1>8 DEF Join
  <1>9. CASE Unwind
    BY <1>9 DEF Unwind, KillGroup, Returns
  <1> QED
    BY <1>1, <1>2, <1>3, <1>4, <1>5, <1>6, <1>7, <1>8, <1>9

LEMMA ProcessNextInv == ProcessInv /\ [ProcessNext]_processVars => ProcessInv'
  <1> SUFFICES ASSUME ProcessInv, [ProcessNext]_processVars PROVE ProcessInv'
    OBVIOUS
  <1>1. CASE ProcessNext
    BY <1>1, BeforeLaunchInv, OthersInv, AfterLaunchInv DEF ProcessNext, HostSteps
  <1>2. CASE UNCHANGED processVars
    BY <1>2 DEF processVars, ProcessInv, ProcessTypes, ChildOK, ResultOK, ReaderOK,
                SignalsOK, Alive
  <1> QED
    BY <1>1, <1>2

LEMMA ProcessInvHolds == ProcessSpec => []ProcessInv
  BY ProcessInitInv, ProcessNextInv, PTL DEF ProcessSpec

(* Whatever comes first of the end of the child, a stop signal and the     *)
(* deadline, the result says what happened.                                *)
THEOREM OutcomeIsTold == ProcessSpec => []OutcomeTold
  <1>1. ProcessInv => OutcomeTold
    BY DEF ProcessInv, ProcessTypes, ChildOK, ResultOK, ReaderOK, Outcome, OutcomeTold
  <1> QED
    BY <1>1, ProcessInvHolds, PTL

(* A call that returned has reaped its child, put the handlers back, and   *)
(* left nothing of the group when it terminated the child.                 *)
THEOREM NothingKeepsRunning == ProcessSpec => []NoneLeftRunning
  <1>1. ProcessInv => NoneLeftRunning
    BY DEF ProcessInv, ChildOK, ResultOK, SignalsOK, NoneLeftRunning
  <1> QED
    BY <1>1, ProcessInvHolds, PTL
=============================================================================
