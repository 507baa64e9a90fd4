------------------------------- MODULE Vault -------------------------------
(***************************************************************************)
(* What a vault is to the server: a directory of Markdown notes.  A note   *)
(* is known by its vault-relative path; what is in the file is a member of *)
(* Contents, compared only for equality, the way `fingerprint` compares    *)
(* two notes.  A path with no file holds Absent.                           *)
(***************************************************************************)
CONSTANTS
  Paths,      \* vault-relative paths a note may have
  Contents,   \* what a note may hold
  Absent      \* there is no note at this path

ASSUME ContentsAssumption == Absent \notin Contents

\* A vault, or a list of notes loaded from one: Note[] keyed by relPath.
Notes == [Paths -> Contents \cup {Absent}]

Empty == [p \in Paths |-> Absent]

Listed(v) == {p \in Paths : v[p] # Absent}
=============================================================================
