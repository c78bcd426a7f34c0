-------------------------------- MODULE Secrets --------------------------------
(* get, set and erase of one credential by several processes.  On Windows a   *)
(* call is one call of the system; on Linux it is a search in a keyring and   *)
(* then one or more calls on the key that was found, which may be gone by     *)
(* then.  The signature of a session is drawn at random and never used for a  *)
(* persistent credential, so one keyring is enough for one signature.         *)
EXTENDS Naturals, FiniteSets

CONSTANTS SecretCallers,
          SecretCalls,  \* [op, value]: get, set or erase
          Size,         \* value -> its length
          Absent,       \* no value, no key
          MaxKeys       \* bound: the keys ever added

ASSUME SecretsAssumption ==
    /\ \A call \in SecretCalls : call.op \in {"get", "set", "erase"}
    /\ Absent \notin Nat

VARIABLES
    system,     \* linux or windows
    linked,     \* the serial of the key in the keyring, or Absent
    payload,    \* serial -> its value
    secretJobs, \* caller -> its call
    witnessed   \* caller -> what the credential was at some time of the call

secretVars == <<system, linked, payload, secretJobs, witnessed>>

NoSecretJob == [step |-> "idle", op |-> "none", value |-> Absent, key |-> Absent,
                room |-> 0, status |-> "none"]

SecretsInit ==
    /\ system \in {"linux", "windows"}
    /\ linked = Absent
    /\ payload = <<>>
    /\ secretJobs = [c \in SecretCallers |-> NoSecretJob]
    /\ witnessed = [c \in SecretCallers |-> {}]

-----------------------------------------------------------------------------

Stored(key, values) == IF key = Absent THEN Absent ELSE values[key]

Credential == Stored(linked, payload)

(* Every call under way witnesses the credential as a step leaves it.      *)
Witness ==
    witnessed' = [c \in SecretCallers |->
        IF secretJobs'[c].step = "idle" THEN {}
        ELSE witnessed[c] \cup {Stored(linked', payload')}]

Changes(c, job) ==
    /\ secretJobs' = [secretJobs EXCEPT ![c] = job]
    /\ UNCHANGED system
    /\ Witness

Keeps == UNCHANGED <<linked, payload>>

Answered(c, status) ==
    Changes(c, [secretJobs[c] EXCEPT !.step = "answered", !.status = status])

Step(c, step) == secretJobs[c].step = step

SecretBegin(c, call) ==
    /\ Keeps
    /\ Step(c, "idle")
    /\ Changes(c, [NoSecretJob EXCEPT !.step = "search", !.op = call.op,
                                      !.value = call.value])

SecretEnd(c) ==
    Step(c, "answered") /\ Keeps /\ Changes(c, NoSecretJob)

(* A bad signature or value, a library or a keyring that cannot be had, and*)
(* whatever a call of the system reports.                                  *)
SecretFails(c) ==
    /\ Keeps
    /\ secretJobs[c].step \in {"search", "size", "read", "update", "add", "unlink"}
    /\ Answered(c, "failed")

-----------------------------------------------------------------------------
(* Linux.                                                                  *)

First == [get |-> "size", set |-> "update", erase |-> "unlink"]

SearchKey(c) ==
    LET job == secretJobs[c]
    IN /\ system = "linux"
       /\ Step(c, "search")
       /\ Keeps
       /\ \/ /\ linked # Absent
             /\ Changes(c, [job EXCEPT !.step = First[job.op], !.key = linked])
          \/ /\ linked = Absent /\ job.op = "set"
             /\ Changes(c, [job EXCEPT !.step = "add"])
          \/ /\ linked = Absent /\ job.op # "set"
             /\ Answered(c, "not_found")

(* A key without a link is no more: each use of its serial fails.          *)
Alive(c) == linked = secretJobs[c].key

ReadSize(c) ==
    /\ Keeps
    /\ Step(c, "size")
    /\ Alive(c)
    /\ Changes(c, [secretJobs[c] EXCEPT !.step = "read", !.room = Size[payload[linked]]])

Read(c) == [secretJobs[c] EXCEPT !.step = "answered", !.status = "success",
                                 !.value = payload[linked]]

ReadValueOnce(c) ==
    /\ Keeps
    /\ Step(c, "read")
    /\ Alive(c)
    /\ Changes(c, IF Size[payload[linked]] <= secretJobs[c].room THEN Read(c)
                  ELSE [Read(c) EXCEPT !.value = "torn"])

(* A value that has grown since its size was read is read again.           *)
ReadValue(c) ==
    /\ Keeps
    /\ Step(c, "read")
    /\ Alive(c)
    /\ Changes(c, IF Size[payload[linked]] <= secretJobs[c].room THEN Read(c)
                  ELSE [secretJobs[c] EXCEPT !.room = Size[payload[linked]]])

UpdateKey(c) ==
    /\ Step(c, "update")
    /\ Alive(c)
    /\ payload' = [payload EXCEPT ![linked] = secretJobs[c].value]
    /\ UNCHANGED linked
    /\ Answered(c, "success")

(* add_key updates a key that somebody else added since the search.        *)
AddKey(c) ==
    /\ Step(c, "add")
    /\ \/ /\ linked = Absent
          /\ linked' = 1 + Cardinality(DOMAIN payload)
          /\ linked' <= MaxKeys
          /\ payload' = [k \in DOMAIN payload \cup {linked'} |->
                IF k = linked' THEN secretJobs[c].value ELSE payload[k]]
       \/ /\ linked # Absent
          /\ payload' = [payload EXCEPT ![linked] = secretJobs[c].value]
          /\ UNCHANGED linked
    /\ Answered(c, "success")

UnlinkKey(c) ==
    /\ Step(c, "unlink")
    /\ Alive(c)
    /\ linked' = Absent
    /\ UNCHANGED payload
    /\ Answered(c, "success")

-----------------------------------------------------------------------------
(* Windows: CredReadW, CredWriteW or CredDeleteW.                          *)

CredentialCall(c) ==
    LET job == secretJobs[c]
    IN /\ system = "windows"
       /\ Step(c, "search")
       /\ \/ /\ job.op = "set"
             /\ linked' = 1
             /\ payload' = <<job.value>>
             /\ Answered(c, "success")
          \/ /\ job.op # "set" /\ linked = Absent
             /\ Keeps
             /\ Answered(c, "not_found")
          \/ /\ job.op = "get" /\ linked # Absent
             /\ Keeps
             /\ Changes(c, Read(c))
          \/ /\ job.op = "erase" /\ linked # Absent
             /\ linked' = Absent
             /\ UNCHANGED payload
             /\ Answered(c, "success")

SecretsNext ==
    \E c \in SecretCallers :
       \/ \E call \in SecretCalls : SecretBegin(c, call)
       \/ SecretEnd(c) \/ SecretFails(c) \/ CredentialCall(c)
       \/ SearchKey(c) \/ ReadSize(c) \/ ReadValue(c) \/ UpdateKey(c) \/ AddKey(c)
       \/ UnlinkKey(c)

SecretsSpec == SecretsInit /\ [][SecretsNext]_secretVars

-----------------------------------------------------------------------------

(* Whatever other calls do between the steps of a call, its answer was true*)
(* at some time of it: the value it got was the credential, whole; the     *)
(* value it set became the credential; what it erased or did not find was  *)
(* not there.                                                              *)
SecretsTrue ==
    \A c \in SecretCallers : LET job == secretJobs[c] IN
       /\ job.status = "success" =>
             (IF job.op = "erase" THEN Absent ELSE job.value) \in witnessed[c]
       /\ job.status = "not_found" => Absent \in witnessed[c]
=============================================================================
