----------------------------- MODULE VaultPaths -----------------------------
(***************************************************************************)
(* Where a vault job may read and write: resolveVaultPath() of             *)
(* bridge/vault.js.  A path is a sequence of segments; an absolute one     *)
(* begins with the segment "/", or with a drive.  Resolution is lexical, as *)
(* in node:path, where only "/" separates segments: a backslash is a       *)
(* character of a name.                                                    *)
(***************************************************************************)
EXTENDS Integers, SequencesExt

CONSTANTS
    Root,     \* COCKPIT_VAULT_PATH, an absolute path without its first "/"
    Allowed,  \* COCKPIT_VAULT_ALLOWLIST, names of folders directly in the root
    Links,    \* the resolved paths that are symbolic links and lead somewhere
    Dangling, \* those that lead nowhere
    Backslash \* names that hold a backslash, and what stands before the first in each

ASSUME PathAssumption ==
    /\ Root \in Seq(STRING) /\ Allowed \subseteq STRING
    /\ Links \subseteq Seq(STRING) /\ Dangling \subseteq Seq(STRING)
    /\ DOMAIN Backslash \subseteq STRING

NoPath == <<>>

\* One segment of path.resolve().
Enter(dir, segment) ==
    CASE segment = "."  -> dir
      [] segment = ".." -> IF dir = <<>> THEN dir ELSE Front(dir)
      [] OTHER          -> Append(dir, segment)

Resolved(rel) ==
    LET dir[n \in 0 .. Len(rel)] == IF n = 0 THEN Root ELSE Enter(dir[n-1], rel[n])
    IN  dir[Len(rel)]

\* What the allowlist is asked about: a name up to its first backslash.
FirstPart(name) == IF name \in DOMAIN Backslash THEN Backslash[name] ELSE name

\* A path below the root; the root itself has no first segment to be allowed.
InFolder(path) ==
    /\ IsStrictPrefix(Root, path)
    /\ FirstPart(path[Len(Root) + 1]) \in Allowed

ThroughLink_Leaf(path) == path \in Links

\* The path or a directory between it and the root is a link that leads somewhere:
\* existsSync() follows a link, so one that leads nowhere is not looked at.
ThroughLink(path) ==
    \E n \in Len(Root) + 1 .. Len(path) : SubSeq(path, 1, n) \in Links

\* The directories of path are there or can be made, which a link that leads nowhere
\* prevents.  It does not prevent writing to path if it is that link itself.
Reachable(path) ==
    ~\E n \in Len(Root) + 1 .. Len(path) - 1 : SubSeq(path, 1, n) \in Dangling

Anchors == {"/", "C:"}

WellFormed(rel) == rel # <<>> /\ rel[1] \notin Anchors

\* The resolved path, or NoPath where the code throws.
ResolveVaultPath(rel) ==
    IF WellFormed(rel) /\ InFolder(Resolved(rel)) /\ ~ThroughLink(Resolved(rel))
    THEN Resolved(rel) ELSE NoPath
=============================================================================
