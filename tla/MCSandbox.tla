------------------------------ MODULE MCSandbox ------------------------------
(* The three parts of the sandbox package side by side: a behaviour is one of *)
(* the registry of Linux, of the access lists of Windows, or of a launch.     *)
(*                                                                            *)
(* The registry of Linux has one directory of the host, named by its path,    *)
(* through a linked parent and by a symbolic link, and a second one; the      *)
(* callers are threads of one process.  That of Windows has a directory with  *)
(* one file, both of which are registered.                                    *)
EXTENDS SandboxRegistry, AclRegistry, SandboxProcess

CONSTANTS p, alias, link, q

MCPid == [c \in Callers |-> 1]

MCCanonical == [path \in Paths |-> IF path \in {alias, link} THEN p ELSE path]

Node(what, within) == [kind |-> what, inside |-> within]

MCNodes == {Node("directory", {"regular", "symlink"}), Node("missing", {})}

Ask(op, requests) == [op |-> op, requests |-> requests]

For(path, access) == [path |-> path, access |-> access]

MCCalls == {Ask("refresh", <<For(alias, "read_write"), For(q, "read_only")>>),
            Ask("reuse", <<For(link, "read_only"), For(p, "read_write")>>),
            Ask("refresh", <<>>),
            Ask("release", <<For(link, "read_only")>>),
            Ask("release_all", <<>>)}

(* Nothing yet, or what an earlier version registered.                        *)
MCFirstFiles == {None, {[path |-> p, access |-> "read_modify"]}}

MCUnder == [root \in Roots |-> IF root = p THEN {p, q} ELSE {root}]

Sid(root, access) == [root |-> root, access |-> access]

AskAcl(op, sids) == [op |-> op, sids |-> sids]

MCAclCalls == {AskAcl("refresh", {Sid(p, "read_write"), Sid(q, "read_only")}),
               AskAcl("reuse", {Sid(q, "read_only")}),
               AskAcl("release", {Sid(q, "read_only")}),
               AskAcl("release_all", {})}

VARIABLE part

sandboxVars == <<part, registryVars, aclVars, processVars>>

SandboxInit ==
    /\ part \in {"registry", "lists", "launch"}
    /\ Init /\ AclInit /\ ProcessInit
    /\ part # "registry" => file = None /\ \A path \in DOMAIN host : ~Exists(path)
    /\ part # "launch" => platform = "linux"

SandboxNext ==
    /\ \/ part = "registry" /\ Next /\ UNCHANGED <<aclVars, processVars>>
       \/ part = "lists" /\ AclNext /\ UNCHANGED <<registryVars, processVars>>
       \/ part = "launch" /\ ProcessNext /\ UNCHANGED <<registryVars, aclVars>>
    /\ UNCHANGED part

SandboxSpec == SandboxInit /\ [][SandboxNext]_sandboxVars /\ ProcessFairness
=============================================================================
