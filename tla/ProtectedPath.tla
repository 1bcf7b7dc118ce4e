--------------------------- MODULE ProtectedPath ---------------------------
(***************************************************************************)
(* internal/protectedpath: the gate that a start of the service and the    *)
(* command --repair-runtime-acl pass before they touch the runtime         *)
(* directory, and the boundary that a download keeps to afterwards.        *)
(*                                                                         *)
(* The gate opens the startup objects in a fixed order, inspects them,     *)
(* takes the runtime lock, inspects them again, repairs what may be        *)
(* repaired and verifies all of them.  Open handles deny deletion and      *)
(* renaming; whoever is an administrator may change permissions, links and *)
(* unpinned objects between any two steps, and may kill the process.       *)
(***************************************************************************)
EXTENDS DownloadPolicy, FiniteSets

CONSTANTS Procs, Service,  \* who runs the gate; the other ones are repairs
          NoProc,          \* nobody holds the runtime lock
          Objects, Files,  \* paths that matter; those of files
          Order,           \* the startup targets, the runtime root first
          LockFile,        \* .runtime.lock, one of them
          Absent,          \* no object at a path
          Tampered,        \* what an administrator may make of each object
          Downloads,       \* DOWNLOAD_DIRECTORY
          AllowLists,      \* values of DOWNLOAD_ALLOWED_ROOTS
          Destinations,    \* destinations a command may name
          MaxEvents        \* bound: edits, crashes, errors, cancellations, repairs

ASSUME GateAssumption ==
  /\ Service \in Procs /\ NoProc \notin Procs
  /\ Files \subseteq Objects /\ LockFile \in Files
  /\ \A o \in Objects \cup Destinations \cup {Downloads} \cup UNION AllowLists : Len(o) \in Nat
  /\ Order \in Seq(Objects) /\ Order # <<>> /\ Order[1] = RuntimeRoot
  /\ \A i \in 1..Len(Order) : containsPath(RuntimeRoot, Order[i])
  /\ LockFile # RuntimeRoot /\ \E i \in 1..Len(Order) : Order[i] = LockFile
  /\ MaxEvents \in Nat

\* An owner and a DACL: null, open to what is inherited, or protected.  The
\* object is intact if it is of its type, has one link and lies where its path says.
Principals == {"SYSTEM", "Administrators", "Users"}
ACE == [sid : Principals, type : {"allow", "other"}, flags : SUBSET {"OI", "CI", "IO"},
        inherited : BOOLEAN, mask : {"less", "full", "more"}]
Descriptor == [intact : BOOLEAN, owner : Principals, dacl : {"null", "open", "protected"}, aces : Seq(ACE)]

ASSUME TamperAssumption ==
  Absent \notin Descriptor /\ Tampered \in [Objects -> SUBSET Descriptor]

\* A directory that a download may go to is one of the folders that matter.
ASSUME DestinationAssumption ==
  \A roots \in AllowLists : \A d \in Destinations :
    ValidateRoots(Downloads, roots) /\ destinationAllowed(Effective(Downloads, roots), d)
      => d \in Objects \ Files

VARIABLES
  acl,     \* what is at each path: a descriptor or Absent
  pc, at,  \* each run of the gate: control point and index
  opened,  \* the objects it has opened, in order
  holder,  \* who holds the runtime lock
  edited,  \* history: changed from outside since the holder last looked
  roots,   \* the configured allow-list
  jpc,     \* the download: control point
  jdir,    \* its directory
  jpins,   \* directories it keeps open
  part,    \* its file: none, inside (a .part), astray, published or strayed
  events

gate == <<pc, at, opened, holder>>
job == <<jpc, jdir, jpins, part>>
vars == <<acl, gate, edited, roots, job, events>>

-----------------------------------------------------------------------------
(* What is asked of a descriptor.                                          *)

Trusted == {"SYSTEM", "Administrators"}
Wanted(o) == IF o \in Files THEN {} ELSE {"OI", "CI"}

FullControl(sid, flags) ==
  [sid |-> sid, type |-> "allow", flags |-> flags, inherited |-> FALSE, mask |-> "full"]

canonicalACEs(o) ==
  <<FullControl("SYSTEM", Wanted(o)), FullControl("Administrators", Wanted(o))>>

\* Everything but allow entries of the two trusted principals is ambiguous.
Harmless(d) ==
  /\ d.intact /\ d.owner \in Trusted /\ d.dacl # "null"
  /\ \A i \in 1..Len(d.aces) : d.aces[i].type = "allow" /\ d.aces[i].sid \in Trusted

Canonical(o, d) ==
  /\ o = RuntimeRoot => d.dacl = "protected"
  /\ \A i \in 1..Len(d.aces) :
       d.aces[i].flags = Wanted(o) /\ ~(o = RuntimeRoot /\ d.aces[i].inherited)
  /\ \A sid \in Trusted : \E i \in 1..Len(d.aces) :
       d.aces[i].sid = sid /\ d.aces[i].mask = "full" /\ d.aces[i].flags = Wanted(o)
  /\ Len(d.aces) = 2

classify(o, d) ==
  IF ~Harmless(d) THEN "unsafe" ELSE IF Canonical(o, d) THEN "canonical" ELSE "repairable"

\* Mutant: The new DACL goes on inheriting from the folder above.
repairedUnprotected(o, d) == [d EXCEPT !.aces = canonicalACEs(o)]

\* repair(): the DACL is replaced and protected; owner and structure stay.
repaired(o, d) == [d EXCEPT !.dacl = "protected", !.aces = canonicalACEs(o)]

\* validateDescriptor(): what the key storage asks of its folder and its file.
validateDescriptor(o, d) ==
  /\ d.owner \in Trusted /\ d.dacl # "null"
  /\ \A i \in 1..Len(d.aces) : d.aces[i].type = "allow" /\ d.aces[i].sid \in Trusted
  /\ \A sid \in Trusted : \E i \in 1..Len(d.aces) :
       /\ d.aces[i].sid = sid /\ d.aces[i].mask \in {"full", "more"}
       /\ "IO" \notin d.aces[i].flags /\ Wanted(o) \subseteq d.aces[i].flags

Class(o) == classify(o, acl[o])
parent(o) == SubSeq(o, 1, Len(o) - 1)
Below(o, x) == containsPath(o, x) /\ x # o

\* What keeps an object from being deleted or renamed.
Pinned(o) ==
  \/ o \in jpins
  \/ \E p \in Procs : /\ \E i \in 1..Len(opened[p]) : opened[p][i] = o
                      /\ pc[p] = "ready" => o = LockFile

Empty(o) == (\A x \in Objects : Below(o, x) => acl[x] = Absent) /\ ~(part = "inside" /\ jdir = o)

\* What is created in a canonical folder inherits its entries.
created(o) ==
  [intact |-> TRUE, owner |-> "Administrators", dacl |-> "open",
   aces |-> [i \in 1..2 |-> [canonicalACEs(o)[i] EXCEPT !.inherited = TRUE]]]

Init ==
  /\ \E missing \in SUBSET {LockFile, Downloads} :
       acl = [o \in Objects |-> IF o \in missing THEN Absent
                               ELSE IF o = RuntimeRoot THEN repaired(o, created(o)) ELSE created(o)]
  /\ pc = [p \in Procs |-> "down"] /\ at = [p \in Procs |-> 1]
  /\ opened = [p \in Procs |-> <<>>] /\ holder = NoProc /\ edited = {}
  /\ roots \in AllowLists
  /\ jpc = "idle" /\ jdir = Downloads /\ jpins = {} /\ part = "none"
  /\ events = 0

-----------------------------------------------------------------------------
(* The gate: ensureStartup, one action per object it looks at.             *)

Event == events < MaxEvents /\ events' = events + 1
NoEvent == UNCHANGED events

Goto(p, label) == pc' = [pc EXCEPT ![p] = label] /\ at' = [at EXCEPT ![p] = 1]
Looked(objects) == edited' = edited \ objects

\* cleanup(): the lock and every handle are given back.
Fail(p) ==
  /\ Goto(p, "down")
  /\ opened' = [opened EXCEPT ![p] = <<>>]
  /\ holder' = IF holder = p THEN NoProc ELSE holder

\* The next of n objects, or the next phase.
Advance(p, n, label) ==
  IF at[p] < n THEN at' = [at EXCEPT ![p] = @ + 1] /\ UNCHANGED pc ELSE Goto(p, label)

\* The ancestors are pinned first.  The SCM restarts the service; the repair is
\* an administrator's command and refuses to start while the service runs.
Start(p) ==
  /\ pc[p] = "down"
  /\ p # Service => pc[Service] = "down"
  /\ IF p = Service THEN NoEvent ELSE Event
  /\ Goto(p, "visit")
  /\ UNCHANGED <<acl, opened, holder, edited, roots, job>>

\* Opens one startup target without DELETE sharing and inspects it.
Visit(p) ==
  /\ pc[p] = "visit"
  /\ LET o == Order[at[p]] IN
       \/ /\ acl[o] = Absent /\ o # RuntimeRoot
          /\ Advance(p, Len(Order), "lock") /\ UNCHANGED <<opened, holder>>
       \/ /\ acl[o] # Absent /\ Class(o) # "unsafe"
          /\ opened' = [opened EXCEPT ![p] = Append(@, o)]
          /\ Advance(p, Len(Order), "lock") /\ UNCHANGED holder
       \/ /\ acl[o] = Absent /\ o = RuntimeRoot
          /\ Fail(p)
       \/ /\ acl[o] # Absent /\ Class(o) = "unsafe"
          /\ Fail(p)
  /\ UNCHANGED <<acl, edited, roots, job, events>>

Has(p, o) == \E i \in 1..Len(opened[p]) : opened[p][i] = o

\* A missing lock file is created, exclusively and with the final DACL.
CreateLock(p) ==
  /\ pc[p] = "lock" /\ ~Has(p, LockFile)
  /\ IF acl[LockFile] = Absent
     THEN /\ acl' = [acl EXCEPT ![LockFile] = repaired(LockFile, created(LockFile))]
          /\ opened' = [opened EXCEPT ![p] = Append(@, LockFile)]
          /\ UNCHANGED <<pc, at, holder>>
     ELSE Fail(p) /\ UNCHANGED acl
  /\ UNCHANGED <<edited, roots, job, events>>

\* Mutant: The start goes on although another process has the lock.
LockIgnored(p) ==
  /\ pc[p] = "lock" /\ Has(p, LockFile)
  /\ IF Class(LockFile) # "unsafe"
     THEN /\ holder' = IF holder = NoProc THEN p ELSE holder
          /\ Goto(p, "preflight") /\ edited' = {} /\ UNCHANGED opened
     ELSE Fail(p) /\ UNCHANGED edited
  /\ UNCHANGED <<acl, roots, job, events>>

\* LockFileEx, exclusive and without waiting.
Lock(p) ==
  /\ pc[p] = "lock" /\ Has(p, LockFile)
  /\ IF Class(LockFile) # "unsafe" /\ holder = NoProc
     THEN holder' = p /\ Goto(p, "preflight") /\ edited' = {} /\ UNCHANGED opened
     ELSE Fail(p) /\ UNCHANGED edited
  /\ UNCHANGED <<acl, roots, job, events>>

\* Mutant: Only the first object is inspected again under the lock.
PreflightShort(p) ==
  /\ pc[p] = "preflight"
  /\ LET o == opened[p][at[p]] IN
       /\ IF Class(o) = "unsafe" THEN Fail(p)
          ELSE Goto(p, "repair") /\ UNCHANGED <<opened, holder>>
       /\ Looked({o})
  /\ UNCHANGED <<acl, roots, job, events>>

\* ensureObjects: everything is inspected again before anything is changed ...
Preflight(p) ==
  /\ pc[p] = "preflight"
  /\ LET o == opened[p][at[p]] IN
       /\ IF Class(o) = "unsafe" THEN Fail(p)
          ELSE Advance(p, Len(opened[p]), "repair") /\ UNCHANGED <<opened, holder>>
       /\ Looked({o})
  /\ UNCHANGED <<acl, roots, job, events>>

\* ... then each object, if its folder is canonical, is left alone or repaired ...
Ensure(p) ==
  /\ pc[p] = "repair"
  /\ LET o == opened[p][at[p]]
         folder == {x \in {parent(o)} : Has(p, x)} IN
       /\ IF Class(o) = "unsafe" \/ \E x \in folder : Class(x) # "canonical" THEN Fail(p)
          ELSE IF Class(o) = "canonical"
          THEN Advance(p, Len(opened[p]), "verify") /\ UNCHANGED <<opened, holder>>
          ELSE pc' = [pc EXCEPT ![p] = "write"] /\ UNCHANGED <<at, opened, holder>>
       /\ Looked({o} \cup folder)
  /\ UNCHANGED <<acl, roots, job, events>>

\* SetSecurityInfo on the pinned handle.
Repair(p) ==
  /\ pc[p] = "write"
  /\ LET o == opened[p][at[p]] IN acl' = [acl EXCEPT ![o] = repaired(o, @)]
  /\ pc' = [pc EXCEPT ![p] = "recheck"]
  /\ UNCHANGED <<at, opened, holder, edited, roots, job, events>>

Recheck(p) ==
  /\ pc[p] = "recheck"
  /\ LET o == opened[p][at[p]] IN
       /\ IF Class(o) # "canonical" THEN Fail(p)
          ELSE /\ IF at[p] < Len(opened[p])
                  THEN pc' = [pc EXCEPT ![p] = "repair"] /\ at' = [at EXCEPT ![p] = @ + 1]
                  ELSE Goto(p, "verify")
               /\ UNCHANGED <<opened, holder>>
       /\ Looked({o})
  /\ UNCHANGED <<acl, roots, job, events>>

\* ... and all of them are canonical in the end.  Only the lock stays open.
Verify(p) ==
  /\ pc[p] = "verify"
  /\ LET o == opened[p][at[p]] IN
       /\ IF Class(o) # "canonical" THEN Fail(p)
          ELSE Advance(p, Len(opened[p]), "ready") /\ UNCHANGED <<opened, holder>>
       /\ Looked({o})
  /\ UNCHANGED <<acl, roots, job, events>>

\* The repair command ends, the service stops: release().
Release(p) ==
  /\ pc[p] = "ready" /\ (p = Service => jpc = "idle")
  /\ Fail(p)
  /\ UNCHANGED <<acl, edited, roots, job, events>>

\* A cancelled context, a handle that cannot be opened, a DACL not written.
Trouble(p) ==
  /\ pc[p] \in {"visit", "repair", "write"} /\ Event
  /\ Fail(p)
  /\ UNCHANGED <<acl, edited, roots, job>>

Crash(p) ==
  /\ pc[p] # "down" /\ Event
  /\ Fail(p)
  /\ IF p = Service THEN jpc' = "idle" /\ jpins' = {} ELSE UNCHANGED <<jpc, jpins>>
  /\ UNCHANGED <<acl, edited, roots, jdir, part>>

\* An administrator changes what is at a path.  A pinned object stays, but an
\* empty folder may become a link where it is; replacing a folder takes away
\* what is below it.
Tamper(o, d) ==
  /\ Event /\ acl[o] # d
  /\ IF acl[o] # Absent /\ d # Absent /\ (d.intact = acl[o].intact \/ Empty(o))
     THEN acl' = [acl EXCEPT ![o] = d] /\ UNCHANGED part
     ELSE /\ \A x \in Objects : containsPath(o, x) => ~Pinned(x)
          /\ Below(RuntimeRoot, o) => acl[parent(o)] # Absent /\ acl[parent(o)].intact
          /\ acl' = [x \in Objects |-> IF x = o THEN d ELSE IF Below(o, x) THEN Absent ELSE acl[x]]
          /\ part' = IF part = "inside" /\ containsPath(o, jdir) THEN "none" ELSE part
  /\ edited' = edited \cup {x \in Objects : acl'[x] # acl[x]}
  /\ UNCHANGED <<gate, roots, jpc, jdir, jpins>>

-----------------------------------------------------------------------------
(* A download under the boundary that boundaryFor chose for its directory. *)

Chain(d) == {o \in Objects \ Files : containsPath(o, d)}
Straight(o) == \A x \in Chain(o) : acl[x] # Absent /\ acl[x].intact

\* Mutant: Outside the runtime root nothing is asked of a folder.
validateOnlyACL(o) ==
  PrivateBoundary(jdir) /\ containsPath(RuntimeRoot, o) => Straight(o) /\ Class(o) = "canonical"

\* Boundary.validate of an open folder: nothing is repaired any more.
validate(o) ==
  /\ Straight(o)
  /\ PrivateBoundary(jdir) /\ containsPath(RuntimeRoot, o) => Class(o) = "canonical"

\* checkDestinationLinks: missing folders are allowed, links are not.
checkDestinationLinks(d) == \A o \in Chain(d) : acl[o] # Absent => acl[o].intact

JobTo(label) == jpc' = label
JobFails == jpc' = "idle" /\ jpins' = {} /\ part' = IF part = "inside" THEN "none" ELSE part

\* prepareDestination up to the creation of missing folders.
JobStart(d) ==
  /\ jpc = "idle" /\ pc[Service] = "ready"
  /\ ValidateRoots(Downloads, roots)
  /\ destinationAllowed(Effective(Downloads, roots), d) /\ checkDestinationLinks(d)
  /\ jdir' = d /\ part' = "none"
  /\ JobTo("ensure")
  /\ UNCHANGED <<acl, gate, edited, roots, jpins, events>>

\* pinDirectories: the topmost folder of the path that is not yet pinned.
Unpinned(o) == o \in Chain(jdir) \ jpins /\ \A x \in Chain(jdir) \ jpins : containsPath(o, x)

\* EnsureDirectory creates what is missing under pinned folders, HoldDirectory
\* does not; each folder is pinned first and then validated.
Pin(o) ==
  /\ jpc \in {"ensure", "hold"} /\ Unpinned(o)
  /\ \/ /\ acl[o] # Absent /\ validate(o)
        /\ jpins' = jpins \cup {o} /\ Looked({o})
        /\ UNCHANGED <<acl, jpc, part>>
     \/ /\ acl[o] = Absent /\ jpc = "ensure" /\ o # RuntimeRoot
        /\ Straight(parent(o))
        /\ acl' = [acl EXCEPT ![o] = created(o)]
        /\ UNCHANGED <<edited, jpc, jpins, part>>
     \/ /\ IF acl[o] = Absent THEN jpc = "hold" \/ o = RuntimeRoot \/ ~Straight(parent(o))
           ELSE ~validate(o)
        /\ JobFails
        /\ UNCHANGED <<acl, edited>>
  /\ UNCHANGED <<gate, roots, jdir, events>>

\* EnsureDirectory closes its handles, HoldDirectory keeps them.
Held ==
  /\ jpc \in {"ensure", "hold"} /\ Chain(jdir) \subseteq jpins
  /\ JobTo(IF jpc = "hold" THEN "temp" ELSE "hold")
  /\ jpins' = IF jpc = "hold" THEN jpins ELSE {}
  /\ UNCHANGED <<acl, gate, edited, roots, jdir, part, events>>

Valid == \A o \in Chain(jdir) : validate(o)

\* CreateTemp and WithFiles pin and validate the folders once more ...
LookAgain(from, to) ==
  /\ jpc = from
  /\ IF Valid THEN JobTo(to) /\ jpins' = Chain(jdir) /\ Looked(Chain(jdir)) /\ UNCHANGED part
     ELSE JobFails /\ UNCHANGED edited
  /\ UNCHANGED <<acl, gate, roots, jdir, events>>

CheckTemp == LookAgain("temp", "create")
CheckPublish == LookAgain("fetch", "rename")

\* ... before the exclusive creation of the .part file, whose own path is
\* validated too: a file that went astray is refused ...
CreateTemp ==
  /\ jpc = "create"
  /\ \/ /\ validate(jdir)
        /\ part' = "inside" /\ JobTo("fetch") /\ UNCHANGED jpins
     \/ /\ ~validate(jdir) /\ JobFails
  /\ UNCHANGED <<acl, gate, edited, roots, jdir, events>>

\* ... and before the .part file, verified by now, replaces the destination.
Publish ==
  /\ jpc = "rename"
  /\ JobTo("idle") /\ jpins' = {}
  /\ part' = IF Straight(jdir) THEN "published" ELSE "strayed"
  /\ UNCHANGED <<acl, gate, edited, roots, jdir, events>>

\* The transfer, the disk or the server fails the job.
JobTrouble ==
  /\ jpc \in {"temp", "fetch"}
  /\ JobFails
  /\ UNCHANGED <<acl, gate, edited, roots, jdir, events>>

Job == (\E o \in Objects : Pin(o)) \/ Held \/ CheckTemp \/ CreateTemp \/ CheckPublish \/ Publish

Gate(p) ==
  Visit(p) \/ CreateLock(p) \/ Lock(p) \/ Preflight(p) \/ Ensure(p) \/ Repair(p)
  \/ Recheck(p) \/ Verify(p)

Next ==
  \/ \E p \in Procs : Start(p) \/ Gate(p) \/ Release(p) \/ Trouble(p) \/ Crash(p)
  \/ \E o \in Objects : \E d \in Tampered[o] \cup {Absent} : Tamper(o, d)
  \/ \E d \in Destinations : JobStart(d)
  \/ Job \/ JobTrouble

Spec == Init /\ [][Next]_vars

\* The gate and a repair command run to their end and a job whose transfer ends
\* goes on.  The service is started again: by the SCM after a crash
\* (configure_windows.go:87), at boot or by the administrator after an error.
FairSpec ==
  /\ Spec
  /\ \A p \in Procs : WF_vars(Gate(p)) /\ (p # Service => WF_vars(Release(p)))
  /\ WF_vars(Start(Service)) /\ WF_vars(Job)

-----------------------------------------------------------------------------
(* Properties.                                                             *)

Opened(p) == {opened[p][i] : i \in 1..Len(opened[p])}

\* Who passes the gate holds the lock alone, and every object it opened is
\* canonical and good enough for the key storage, unless an administrator has
\* changed it since it was last inspected (runtime_windows.go:442).
GateHolds ==
  \A p \in Procs : pc[p] = "ready" =>
    /\ holder = p
    /\ \A o \in Opened(p) : o \in edited \/
         (acl[o] # Absent /\ Class(o) = "canonical" /\ validateDescriptor(o, acl[o]))

\* What exists is changed by the holder of the lock only, only if it was found
\* repairable, and only while no opened object is unsafe: one unsafe object and
\* nothing at all is repaired (runtime_windows.go:422).
RepairsOnlySafe ==
  [][\A o \in Objects : acl[o] # Absent /\ acl'[o] # acl[o] /\ events' = events =>
       \E p \in Procs : /\ holder = p
                        /\ Class(o) = "repairable" \/ o \in edited
                        /\ \A x \in Opened(p) \ edited : Class(x) # "unsafe"]_vars

\* A start or a repair that was interrupted anywhere leaves nothing that the
\* next one cannot finish: unless something stays unsafe, the service comes up.
Recovers ==
  <>[](acl[RuntimeRoot] # Absent /\ \A o \in Objects : acl[o] # Absent => Class(o) # "unsafe")
    => <>(pc[Service] = "ready")

\* A download ends up in the directory that was checked, or nowhere: a link that
\* takes the place of a folder meanwhile never diverts it, and below the runtime
\* root that folder is canonical unless an administrator has just changed it.
LandsWhereChecked ==
  /\ part # "strayed"
  /\ jpc = "rename" /\ PrivateBoundary(jdir) =>
       \A o \in Chain(jdir) : containsPath(RuntimeRoot, o) => o \in edited \/ Class(o) = "canonical"

\* Not the agent's private state, not around its binaries, not a whole drive.
Outside(path) ==
  /\ Len(path) > 1
  /\ containsPath(RuntimeRoot, path) => Below(Data, path)
  /\ ~containsPath(path, RuntimeRoot)
  /\ ~containsPath(path, InstallRoot) /\ ~containsPath(InstallRoot, path)

\* Whatever the allow-list and the command say, a download never goes to the
\* agent's private state, into or around its binaries, or to a drive itself.
StaysOutside == jpc # "idle" => Outside(jdir)
=============================================================================
