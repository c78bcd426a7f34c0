----------------------------- MODULE AclRegistry -----------------------------
(* The sandbox registry on Windows, where a capability is a SID made from    *)
(* the path and the access, and registering it writes an entry for the SID   *)
(* into the access list of every file under the path.  The state file says   *)
(* which SIDs a release has to revoke.  Processes take turns under a named   *)
(* mutex; each may die or throw between two files.  The replacement of the   *)
(* state file is one step here: SandboxRegistry has the steps of that.       *)
EXTENDS Naturals

CONSTANTS Processes,
          Roots,     \* the paths that may be registered, files of the host too
          Files,     \* the files and directories of the host
          Under,     \* root -> the files of its tree, itself included
          AclCalls,  \* what may be asked: [op, sids]
          Nobody

Sids == [root : Roots, access : {"read_only", "read_write"}]

ASSUME AclAssumption ==
    /\ Under \in [Roots -> SUBSET Files]
    /\ \A asked \in AclCalls : /\ asked.op \in {"refresh", "reuse", "release", "release_all"}
                               /\ asked.sids \in SUBSET Sids
    /\ Nobody \notin Sids \cup Processes

VARIABLES
    acl,    \* file -> the sandbox SIDs with an entry in its access list
    kind,   \* file -> plain, linked (several hard links), reparse or missing
    saved,  \* the SIDs in the state file
    owner,  \* who owns the mutex
    job,    \* process -> the call it is in
    lost    \* file -> the SIDs a refresh may have left there without a row

aclVars == <<acl, kind, saved, owner, job, lost>>

(* op, the SIDs still to handle, the files of the tree still to visit, the  *)
(* rows in memory, whether they changed, whether the tree had an error.     *)
NoJob == [op |-> "none", step |-> "none", left |-> {}, sid |-> Nobody,
          todo |-> {}, rows |-> {}, changed |-> FALSE, bad |-> FALSE]

AclInit ==
    /\ acl = [f \in Files |-> {}]
    /\ kind = [f \in Files |-> "plain"]
    /\ saved = {}
    /\ owner = Nobody
    /\ job = [p \in Processes |-> NoJob]
    /\ lost = [f \in Files |-> {}]

-----------------------------------------------------------------------------

AclBegin(p, asked) ==
    /\ job[p] = NoJob
    /\ asked.op \in {"refresh", "reuse"} => asked.sids # {}
    /\ job' = [job EXCEPT ![p] =
                 [NoJob EXCEPT !.op = asked.op, !.step = "lock", !.left = asked.sids]]
    /\ UNCHANGED <<acl, kind, saved, owner, lost>>

(* A mutex whose owner died is taken over like a free one.  A release works *)
(* through the rows that match the path; release_all through all.           *)
AclLock(p) ==
    /\ job[p].step = "lock"
    /\ owner = Nobody
    /\ owner' = p
    /\ job' = [job EXCEPT ![p].step = "next", ![p].rows = saved,
                 ![p].left = CASE job[p].op = "release_all" -> saved
                               [] job[p].op = "release" ->
                                    {s \in saved : \E t \in @ : s.root = t.root}
                               [] OTHER -> @]
    /\ UNCHANGED <<acl, kind, saved, lost>>

(* inspect_registry_path turns down what is not there, reparse points and   *)
(* hard links; a release goes straight to the tree.                         *)
StartTree(p, s) ==
    /\ job[p].step = "next"
    /\ s \in job[p].left
    /\ \/ /\ job[p].op = "refresh" /\ kind[s.root] = "plain"
          \/ job[p].op \in {"release", "release_all"}
       /\ job' = [job EXCEPT ![p].step = "tree", ![p].sid = s, ![p].bad = FALSE,
                    ![p].left = @ \ {s}, ![p].todo = Under[s.root]]
    /\ UNCHANGED <<acl, kind, saved, owner, lost>>

(* A reuse looks at the rows only; a path that is refused, or cannot be     *)
(* resolved, gets its error.                                                *)
SkipTree(p, s) ==
    /\ job[p].step = "next"
    /\ s \in job[p].left
    /\ job[p].op \in {"reuse", "refresh"}
    /\ job' = [job EXCEPT ![p].left = @ \ {s}]
    /\ UNCHANGED <<acl, kind, saved, owner, lost>>

(* The root comes first, then what recursive_directory_iterator still finds.*)
Visits(p, f) ==
    /\ job[p].step = "tree"
    /\ f \in job[p].todo
    /\ f = job[p].sid.root \/ job[p].sid.root \notin job[p].todo

(* Hard links are looked for below the root only.                           *)
Entered(p, f) ==
    /\ kind[f] = "plain" \/ (kind[f] = "linked" /\ f = job[p].sid.root)
    /\ acl' = [acl EXCEPT ![f] = @ \cup {job[p].sid}]

Removed(p, f) ==
    /\ kind[f] \in {"plain", "linked"}
    /\ acl' = [acl EXCEPT ![f] = @ \ {job[p].sid}]

(* reconcile_tree: an error at the root ends the tree, one below only when  *)
(* it is the iterator's.  The error may come after the list was written.    *)
Reconcile(p, f) ==
    LET root == job[p].sid.root
    IN /\ job[p].op = "refresh"
       /\ Visits(p, f)
       /\ \/ /\ Entered(p, f)
             /\ job' = [job EXCEPT ![p].todo = @ \ {f}]
          \/ /\ kind[f] # "missing" \/ f = root
             /\ Entered(p, f) \/ UNCHANGED acl
             /\ \E rest \in {{}, job[p].todo \ {f}} :
                   /\ f = root => rest = {}
                   /\ job' = [job EXCEPT ![p].todo = rest, ![p].bad = TRUE]
          \/ /\ kind[f] = "missing" /\ f # root
             /\ job' = [job EXCEPT ![p].todo = @ \ {f}]
             /\ UNCHANGED acl
       /\ UNCHANGED <<kind, saved, owner, lost>>

(* The root has its entry and is_directory(root) fails: the exception ends  *)
(* the tree and skips the row, the caller makes it an error of the path and *)
(* goes on.                                                                 *)
DropTree(p) ==
    LET s == job[p].sid
    IN /\ job[p].step = "tree"
       /\ job[p].op = "refresh"
       /\ ~job[p].bad
       /\ job[p].todo = Under[s.root] \ {s.root}
       /\ job' = [job EXCEPT ![p].step = "next", ![p].sid = Nobody, ![p].todo = {}]
       /\ lost' = [lost EXCEPT ![s.root] = @ \cup {s}]
       /\ UNCHANGED <<acl, kind, saved, owner>>

(* release_tree: the first error ends it; what is a reparse point by now, or*)
(* not listed any more, below the root has no entry of ours.                *)
Revoke(p, f) ==
    LET root == job[p].sid.root
    IN /\ job[p].op \in {"release", "release_all"}
       /\ Visits(p, f)
       /\ \/ /\ Removed(p, f)
             /\ job' = [job EXCEPT ![p].todo = @ \ {f}]
          \/ /\ kind[f] # "reparse" \/ f = root
             /\ Removed(p, f) \/ UNCHANGED acl
             /\ job' = [job EXCEPT ![p].todo = {}, ![p].bad = TRUE]
          \/ /\ kind[f] \in {"reparse", "missing"} /\ f # root
             /\ job' = [job EXCEPT ![p].todo = @ \ {f}]
             /\ UNCHANGED acl
       /\ UNCHANGED <<kind, saved, owner, lost>>

EndTreeAnyway(p) ==
    /\ job[p].step = "tree"
    /\ job[p].todo = {}
    /\ job' = [job EXCEPT ![p].step = "next", ![p].changed = TRUE,
                 ![p].rows = IF job[p].op = "refresh" THEN @ \cup {job[p].sid}
                                                      ELSE @ \ {job[p].sid}]
    /\ UNCHANGED <<acl, kind, saved, owner, lost>>

(* A refreshed row is written whatever errors the tree put down; a row is   *)
(* taken out only when its whole tree was revoked.                          *)
EndTree(p) ==
    LET kept == job[p].op # "refresh" /\ job[p].bad
    IN /\ job[p].step = "tree"
       /\ job[p].todo = {}
       /\ job' = [job EXCEPT ![p].step = "next", ![p].changed = @ \/ ~kept,
                    ![p].rows = CASE kept -> @
                                  [] job[p].op = "refresh" -> @ \cup {job[p].sid}
                                  [] OTHER -> @ \ {job[p].sid}]
       /\ UNCHANGED <<acl, kind, saved, owner, lost>>

AclReturn(p) ==
    /\ owner' = Nobody
    /\ job' = [job EXCEPT ![p] = NoJob]
    /\ UNCHANGED <<acl, kind>>

AclFinish(p) ==
    /\ job[p].step = "next"
    /\ job[p].left = {}
    /\ saved' = IF job[p].changed THEN job[p].rows ELSE saved
    /\ lost' = [f \in Files |-> lost[f] \ saved']
    /\ AclReturn(p)

(* The SIDs a refresh has entries of in the host and no row for yet.        *)
Unsaved(p) ==
    IF job[p].op = "refresh" THEN (job[p].rows \cup ({job[p].sid} \ {Nobody})) \ saved
    ELSE {}

(* The state file is not replaced, or a runtime_error leaves registry, or   *)
(* the process dies.                                                        *)
AclAbandon(p) ==
    /\ owner = p
    /\ lost' = [f \in Files |-> lost[f] \cup {s \in Unsaved(p) : f \in Under[s.root]}]
    /\ AclReturn(p)
    /\ UNCHANGED saved

(* A new object has a new access list; a second hard link keeps the list.   *)
FileChanges(f, now) ==
    /\ kind[f] # now
    /\ kind' = [kind EXCEPT ![f] = now]
    /\ acl' = [acl EXCEPT ![f] = IF {kind[f], now} = {"plain", "linked"} THEN @ ELSE {}]
    /\ UNCHANGED <<saved, owner, job, lost>>

AclNext ==
    \/ \E p \in Processes :
          \/ \E asked \in AclCalls : AclBegin(p, asked)
          \/ AclLock(p) \/ EndTree(p) \/ DropTree(p) \/ AclFinish(p) \/ AclAbandon(p)
          \/ \E s \in job[p].left : StartTree(p, s) \/ SkipTree(p, s)
          \/ \E f \in job[p].todo : Reconcile(p, f) \/ Revoke(p, f)
    \/ \E f \in Files, now \in {"plain", "linked", "reparse", "missing"} :
          FileChanges(f, now)

AclSpec == AclInit /\ [][AclNext]_aclVars

-----------------------------------------------------------------------------
(* Properties.                                                             *)

(* While no call is at work, every entry the sandbox has in the host's     *)
(* access lists belongs to a row that a release will find.  Two kinds of   *)
(* refresh leave others behind: one that died, threw or failed to save,    *)
(* anywhere under its paths; and one that returned, which reported the path*)
(* as an error after it had written the entry of the root: there, and      *)
(* nowhere below it.                                                       *)
AclAccounted ==
    owner = Nobody => \A f \in Files : acl[f] \subseteq saved \cup lost[f]
=============================================================================
