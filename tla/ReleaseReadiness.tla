-------------------------- MODULE ReleaseReadiness --------------------------
(***************************************************************************)
(* release_readiness.py: what the public release scan finds in the files   *)
(* it is given.  A text is "fine" or "bad", which stands for any number of *)
(* private fragments, secret patterns and notices, counted as one finding. *)
(***************************************************************************)
EXTENDS FiniteSets

CONSTANTS
  Files,     \* paths that git does not ignore
  Forbidden  \* those with a forbidden prefix

ASSUME ForbiddenAssumption == Forbidden \subseteq Files

Texts == {"fine", "bad"}
Trees == [Files -> Texts \cup {"absent"}]

Present(tree) == {f \in Files : tree[f] # "absent"}

\* The findings of one file that was read.
FindingsOf(f, text) ==
  (IF f \in Forbidden THEN {<<"forbidden_tracked_path", f>>} ELSE {})
    \cup (IF text = "bad" THEN {<<"text", f>>} ELSE {})

\* What scan_public_release_files() says of files with these findings.
scan_public_release_files(findings) ==
  [passed |-> findings = {}, findings_count |-> Cardinality(findings)]

\* The files that should not be published in a commit.
Unpublishable(tree) == {f \in Present(tree) : f \in Forbidden \/ tree[f] = "bad"}
=============================================================================
