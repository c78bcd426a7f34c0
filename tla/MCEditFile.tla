----------------------------- MODULE MCEditFile -----------------------------
(***************************************************************************)
(* A batch that comes back to its first file.                              *)
(***************************************************************************)
EXTENDS EditFile

CONSTANTS f1, f2

MCFiles == {f1, f2}
MCRequests == <<f1, f2, f1>>

=============================================================================
