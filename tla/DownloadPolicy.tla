--------------------------- MODULE DownloadPolicy ---------------------------
(***************************************************************************)
(* download/destination.go and policy.go: where a download may be put.     *)
(*                                                                         *)
(* A path is the sequence of its components, the drive first; spelling,    *)
(* letter case and separators are left out.                                *)
(***************************************************************************)
EXTENDS Naturals, Sequences

CONSTANTS RuntimeRoot,  \* %ProgramData% directory of the agent
          InstallRoot,  \* directory of the installed binaries
          Data,         \* runtime directory of the downloads: RuntimeRoot\data
          BadNames      \* components that validFilename refuses

\* A path with one of them, or with none at all, is no path.
IsPath(p) == Len(p) >= 1 /\ \A i \in 1..Len(p) : p[i] \notin BadNames

ASSUME PolicyAssumption ==
  /\ Len(RuntimeRoot) \in Nat /\ Len(InstallRoot) \in Nat
  /\ Len(Data) = Len(RuntimeRoot) + 1
  /\ \A i \in 1..Len(RuntimeRoot) : Data[i] = RuntimeRoot[i]

\* cleanDestination: an absolute local path without a refused component.
cleanDestination(path) == IsPath(path)

\* filepath.Rel(root, path) leads downwards or nowhere.
containsPath(root, path) ==
  Len(root) <= Len(path) /\ \A i \in 1..Len(root) : root[i] = path[i]

\* Mutant: A root above the private state is not refused.
rootAllowedAbove(root) ==
  /\ cleanDestination(root) /\ Len(root) > 1
  /\ containsPath(RuntimeRoot, root) => containsPath(Data, root) /\ ~containsPath(root, Data)
  /\ ~containsPath(root, InstallRoot) /\ ~containsPath(InstallRoot, root)

\* One entry of the allow-list: no whole drive, nothing that overlaps the
\* private state (only below data) or the installation.
rootAllowed(root) ==
  /\ cleanDestination(root) /\ Len(root) > 1
  /\ ~containsPath(root, RuntimeRoot)
  /\ containsPath(RuntimeRoot, root) => containsPath(Data, root) /\ ~containsPath(root, Data)
  /\ ~containsPath(root, InstallRoot) /\ ~containsPath(InstallRoot, root)

\* ValidateRoots: an empty allow-list allows the default directory only.
Effective(directory, roots) == IF roots = {} THEN {directory} ELSE roots

ValidateRoots(directory, roots) ==
  /\ \A root \in Effective(directory, roots) : rootAllowed(root)
  /\ cleanDestination(directory)
  /\ \E root \in Effective(directory, roots) : containsPath(root, directory)

\* destinationDirectory: the directory a command may name.
destinationAllowed(roots, path) ==
  cleanDestination(path) /\ \E root \in roots : containsPath(root, path)

\* boundaryFor: the private boundary for the runtime's own tree, a boundary that
\* keeps the folder's ACL for the other allowed roots.
PrivateBoundary(path) == containsPath(RuntimeRoot, path)
=============================================================================
