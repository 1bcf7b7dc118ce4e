------------------------ MODULE ProtectedPathProofs ------------------------
(* Proofs about the gate of the runtime directory and its downloads.       *)
EXTENDS ProtectedPath, SequenceTheorems, TLAPS

(* What the classes of a descriptor are worth.                             *)

\* The DACL that a repair writes is one of the two entries.
LEMMA CanonicalTyped ==
  \A o \in Objects : canonicalACEs(o) \in Seq(ACE) /\ Len(canonicalACEs(o)) = 2
<1> SUFFICES ASSUME NEW o \in Objects
             PROVE  canonicalACEs(o) \in Seq(ACE) /\ Len(canonicalACEs(o)) = 2
  OBVIOUS
<1>0. Wanted(o) \in SUBSET {"OI", "CI", "IO"}
  BY DEF Wanted
<1>1. FullControl("SYSTEM", Wanted(o)) \in ACE
  BY <1>0 DEF FullControl, ACE, Principals
<1>2. FullControl("Administrators", Wanted(o)) \in ACE
  BY <1>0 DEF FullControl, ACE, Principals
<1>3. \A a, b \in ACE : <<a, b>> \in Seq(ACE) /\ Len(<<a, b>>) = 2
  OBVIOUS
<1> QED BY <1>1, <1>2, <1>3 DEF canonicalACEs

\* A repair replaces the DACL and leaves owner and structure alone.
LEMMA RepairedTyped ==
  ASSUME NEW o \in Objects, NEW d \in Descriptor
  PROVE  /\ repaired(o, d) \in Descriptor
         /\ repaired(o, d).intact = d.intact /\ repaired(o, d).owner = d.owner
         /\ repaired(o, d).dacl = "protected" /\ repaired(o, d).aces = canonicalACEs(o)
BY CanonicalTyped DEF repaired, Descriptor

\* What the operating system gives a new object before it is repaired.
LEMMA CreatedTyped ==
  ASSUME NEW o \in Objects
  PROVE  /\ created(o) \in Descriptor /\ created(o).intact
         /\ created(o).owner = "Administrators" /\ created(o).dacl = "open"
         /\ Len(created(o).aces) = 2
         /\ \A i \in 1..2 : created(o).aces[i] = [canonicalACEs(o)[i] EXCEPT !.inherited = TRUE]
<1> DEFINE aces == [i \in 1..2 |-> [canonicalACEs(o)[i] EXCEPT !.inherited = TRUE]]
<1>1. \A i \in 1..2 : canonicalACEs(o)[i] \in ACE
  BY CanonicalTyped
<1>2. \A a \in ACE : [a EXCEPT !.inherited = TRUE] \in ACE
  BY DEF ACE
<1>3. \A i \in 1..2 : aces[i] \in ACE
  BY <1>1, <1>2
<1>4. aces \in Seq(ACE) /\ Len(aces) = 2
  BY <1>3
<1>5. created(o) = [intact |-> TRUE, owner |-> "Administrators", dacl |-> "open", aces |-> aces]
  BY DEF created
<1> HIDE DEF aces
<1>6. /\ created(o) \in Descriptor /\ created(o).intact
      /\ created(o).owner = "Administrators" /\ created(o).dacl = "open"
      /\ created(o).aces = aces
  BY <1>4, <1>5 DEF Descriptor, Principals
<1> QED BY <1>4, <1>6 DEF aces

\* What is canonical satisfies the stricter reader of the key file as well.
LEMMA CanonicalIsEnough ==
  ASSUME NEW o \in Objects, NEW d \in Descriptor, classify(o, d) = "canonical"
  PROVE  validateDescriptor(o, d)
BY DEF classify, Harmless, Canonical, validateDescriptor, Wanted, Trusted

\* Repairing an object that is not unsafe makes it canonical.
LEMMA RepairedIsCanonical ==
  ASSUME NEW o \in Objects, NEW d \in Descriptor, Harmless(d)
  PROVE  classify(o, repaired(o, d)) = "canonical"
<1> DEFINE e == repaired(o, d)
<1>1. /\ e.intact = d.intact /\ e.owner = d.owner /\ e.dacl = "protected"
      /\ e.aces = canonicalACEs(o)
  BY RepairedTyped
<1>2. /\ canonicalACEs(o)[1] = FullControl("SYSTEM", Wanted(o))
      /\ canonicalACEs(o)[2] = FullControl("Administrators", Wanted(o))
      /\ Len(canonicalACEs(o)) = 2
  BY DEF canonicalACEs
<1> HIDE DEF e
<1>3. Harmless(e)
  BY <1>1, <1>2 DEF Harmless, Trusted, FullControl
<1>4. Canonical(o, e)
  <2>1. \A i \in 1..Len(e.aces) :
          e.aces[i].flags = Wanted(o) /\ ~(o = RuntimeRoot /\ e.aces[i].inherited)
    BY <1>1, <1>2 DEF FullControl
  <2>2. \A sid \in Trusted : \E i \in 1..Len(e.aces) :
          e.aces[i].sid = sid /\ e.aces[i].mask = "full" /\ e.aces[i].flags = Wanted(o)
    <3>1. e.aces[1].sid = "SYSTEM" /\ e.aces[1].mask = "full" /\ e.aces[1].flags = Wanted(o)
      BY <1>1, <1>2 DEF FullControl
    <3>2. e.aces[2].sid = "Administrators" /\ e.aces[2].mask = "full" /\ e.aces[2].flags = Wanted(o)
      BY <1>1, <1>2 DEF FullControl
    <3> QED BY <3>1, <3>2, <1>1, <1>2 DEF Trusted
  <2> QED BY <1>1, <1>2, <2>1, <2>2 DEF Canonical
<1> QED BY <1>3, <1>4 DEF classify, e

\* A new object below the root inherits a canonical DACL.
LEMMA CreatedIsCanonical ==
  ASSUME NEW o \in Objects, o # RuntimeRoot
  PROVE  classify(o, created(o)) = "canonical"
<1> DEFINE e == created(o)
<1>1. /\ e.intact /\ e.owner = "Administrators" /\ e.dacl = "open" /\ Len(e.aces) = 2
      /\ e.aces[1] = [canonicalACEs(o)[1] EXCEPT !.inherited = TRUE]
      /\ e.aces[2] = [canonicalACEs(o)[2] EXCEPT !.inherited = TRUE]
  BY CreatedTyped
<1>2. /\ e.aces[1].sid = "SYSTEM" /\ e.aces[1].mask = "full" /\ e.aces[1].type = "allow"
      /\ e.aces[1].flags = Wanted(o)
      /\ e.aces[2].sid = "Administrators" /\ e.aces[2].mask = "full" /\ e.aces[2].type = "allow"
      /\ e.aces[2].flags = Wanted(o)
  BY <1>1 DEF canonicalACEs, FullControl
<1> HIDE DEF e
<1>0. \A i \in 1..Len(e.aces) : i = 1 \/ i = 2
  BY <1>1
<1>3. Harmless(e)
  <2>1. e.owner \in Trusted /\ e.dacl # "null"
    BY <1>1 DEF Trusted
  <2>2. \A i \in 1..Len(e.aces) : e.aces[i].type = "allow" /\ e.aces[i].sid \in Trusted
    BY <1>0, <1>2 DEF Trusted
  <2> QED BY <1>1, <2>1, <2>2 DEF Harmless
<1>4. Canonical(o, e)
  <2>1. \A i \in 1..Len(e.aces) : e.aces[i].flags = Wanted(o)
    BY <1>0, <1>2
  <2>2. \A sid \in Trusted : \E i \in 1..Len(e.aces) :
          e.aces[i].sid = sid /\ e.aces[i].mask = "full" /\ e.aces[i].flags = Wanted(o)
    <3>1. 1 \in 1..Len(e.aces) /\ 2 \in 1..Len(e.aces)
      BY <1>1
    <3> QED BY <1>2, <3>1 DEF Trusted
  <2> QED BY <1>1, <2>1, <2>2 DEF Canonical
<1> QED BY <1>3, <1>4 DEF classify, e
-----------------------------------------------------------------------------
(* Where a download may go.                                                *)

\* Containment of paths is transitive ...
LEMMA ContainsTransitive ==
  ASSUME NEW a, NEW b, NEW c, Len(a) \in Nat, Len(b) \in Nat, Len(c) \in Nat,
         containsPath(a, b), containsPath(b, c)
  PROVE  containsPath(a, c)
BY DEF containsPath

\* ... and two folders of one path contain each other one way.
LEMMA PrefixesNest ==
  ASSUME NEW a, NEW b, NEW c, Len(a) \in Nat, Len(b) \in Nat, Len(c) \in Nat,
         containsPath(a, c), containsPath(b, c)
  PROVE  containsPath(a, b) \/ containsPath(b, a)
BY DEF containsPath

\* An accepted configuration and an accepted destination: the two checks are
\* made at different times, by different code, of different paths.
THEOREM AcceptedIsOutside ==
  ASSUME NEW directory, NEW allowed, NEW path, Len(path) \in Nat,
         \A root \in Effective(directory, allowed) : Len(root) \in Nat,
         ValidateRoots(directory, allowed),
         destinationAllowed(Effective(directory, allowed), path)
  PROVE  Outside(path)
<1>1. PICK root \in Effective(directory, allowed) : containsPath(root, path)
  BY DEF destinationAllowed
<1>2. rootAllowed(root) /\ Len(root) \in Nat
  BY DEF ValidateRoots
<1>3. Len(RuntimeRoot) \in Nat /\ Len(InstallRoot) \in Nat /\ Len(Data) \in Nat
  BY PolicyAssumption
<1>4. Len(path) > 1
  BY <1>1, <1>2 DEF rootAllowed, containsPath
<1>5. ASSUME containsPath(RuntimeRoot, path)
      PROVE  Below(Data, path)
  <2>1. containsPath(RuntimeRoot, root)
    BY <1>1, <1>2, <1>3, <1>5, PrefixesNest DEF rootAllowed
  <2>2. containsPath(Data, root) /\ ~containsPath(root, Data)
    BY <2>1, <1>2 DEF rootAllowed
  <2>3. containsPath(Data, path)
    BY <2>2, <1>1, <1>2, <1>3, ContainsTransitive
  <2> QED BY <2>2, <2>3, <1>1 DEF Below
<1>6. ~containsPath(path, RuntimeRoot) /\ ~containsPath(path, InstallRoot)
  BY <1>1, <1>2, <1>3, ContainsTransitive DEF rootAllowed
<1>7. ~containsPath(InstallRoot, path)
  BY <1>1, <1>2, <1>3, PrefixesNest DEF rootAllowed
<1> QED BY <1>4, <1>5, <1>6, <1>7 DEF Outside

\* A download never goes to the agent's private state or around its binaries,
\* whatever the allow-list and the commands say (policy.go:23, destination.go:34).
THEOREM DestinationsStayOutside == Spec => []StaysOutside
<1> DEFINE Inv == roots \in AllowLists /\ (jpc # "idle" => Outside(jdir))
<1>1. Init => Inv
  BY DEF Init
<1>2. Inv /\ [Next]_vars => Inv'
  <2> SUFFICES ASSUME Inv, [Next]_vars PROVE Inv'
    OBVIOUS
  <2> USE DEF gate, job
  <2>1. CASE \E d \in Destinations : JobStart(d)
    <3>1. PICK d \in Destinations : JobStart(d)
      BY <2>1
    <3>2. Len(d) \in Nat /\ \A root \in Effective(Downloads, roots) : Len(root) \in Nat
      BY GateAssumption DEF Effective
    <3>3. Outside(d)
      BY <3>1, <3>2, AcceptedIsOutside DEF JobStart
    <3> QED BY <3>1, <3>3 DEF JobStart, Outside, Below
  <2>2. ASSUME roots' = roots, jdir' = jdir, jpc' = "idle" \/ jpc # "idle"
        PROVE  Inv'
    BY <2>2 DEF Outside, Below
  <2>3. ASSUME NEW p \in Procs, Start(p) \/ Gate(p) \/ Release(p) \/ Trouble(p) \/ Crash(p)
        PROVE  Inv'
    BY <2>2, <2>3 DEF Start, Gate, Visit, CreateLock, Lock, Preflight, Ensure, Repair, Recheck,
       Verify, Release, Trouble, Crash
  <2>4. ASSUME NEW o \in Objects, NEW d, Tamper(o, d)
        PROVE  Inv'
    BY <2>2, <2>4 DEF Tamper
  <2>5. CASE Job \/ JobTrouble
    BY <2>2, <2>5 DEF Job, JobTrouble, Pin, Held, CheckTemp, CheckPublish, LookAgain, CreateTemp,
       Publish, JobTo, JobFails
  <2>6. CASE UNCHANGED vars
    BY <2>2, <2>6 DEF vars
  <2> QED BY <2>1, <2>3, <2>4, <2>5, <2>6 DEF Next
<1>3. Inv => StaysOutside
  BY DEF StaysOutside, Outside
<1> QED BY <1>1, <1>2, <1>3, PTL DEF Spec

-----------------------------------------------------------------------------
(* The inductive invariant of the gate.                                    *)

Holding == {"preflight", "repair", "write", "recheck", "verify", "ready"}
Scanning == Holding \ {"ready"}

TypeOK ==
  /\ acl \in [Objects -> Descriptor \cup {Absent}]
  /\ pc \in [Procs -> Holding \cup {"down", "visit", "lock"}]
  /\ at \in [Procs -> Nat \ {0}]
  /\ opened \in [Procs -> Seq(Objects)]
  /\ holder \in Procs \cup {NoProc}
  /\ events \in Nat

\* Unless it was changed since: there and not unsafe, or canonical.
Sound(o) == o \in edited \/ (acl[o] # Absent /\ Class(o) # "unsafe")
Fine(o) == o \in edited \/ (acl[o] # Absent /\ Class(o) = "canonical")

\* The lock belongs to whoever is past it, and a job to a running service.
Locked ==
  /\ \A p \in Procs : pc[p] \in Holding <=> holder = p
  /\ jpc # "idle" => pc[Service] = "ready"

\* Opened objects lie in the runtime root and stay while they are pinned.
Present ==
  \A p \in Procs : \A i \in 1..Len(opened[p]) :
    /\ opened[p][i] \in Objects /\ containsPath(RuntimeRoot, opened[p][i])
    /\ pc[p] # "ready" => acl[opened[p][i]] # Absent

Indexed ==
  \A p \in Procs :
    /\ pc[p] \in Scanning => at[p] \in 1..Len(opened[p])
    /\ pc[p] = "visit" => at[p] \in 1..Len(Order)

Drifted(o) == o \in edited \/ (acl[o] # Absent /\ Class(o) = "repairable")

\* How far the holder's inspection has come.
Checked ==
  \A p \in Procs :
    /\ pc[p] = "preflight" => \A i \in 1..(at[p] - 1) : Sound(opened[p][i])
    /\ pc[p] \in {"repair", "write", "recheck", "verify"} =>
         \A i \in 1..Len(opened[p]) : Sound(opened[p][i])
    /\ pc[p] = "write" => Drifted(opened[p][at[p]])
    /\ pc[p] = "verify" => \A i \in 1..(at[p] - 1) : Fine(opened[p][i])
    /\ pc[p] = "ready" => \A i \in 1..Len(opened[p]) : Fine(opened[p][i])

Inv == TypeOK /\ Locked /\ Present /\ Indexed /\ Checked

\* No process has begun and nothing is open.
LEMMA InitInv == Init => Inv
<1> SUFFICES ASSUME Init PROVE Inv
  OBVIOUS
<1>1. \A o \in Objects : created(o) \in Descriptor /\ repaired(o, created(o)) \in Descriptor
  BY CreatedTyped, RepairedTyped
<1>2. TypeOK
  BY <1>1, GateAssumption DEF Init, TypeOK, Holding
<1> QED BY <1>2, GateAssumption DEF Init, Inv, Locked, Present, Indexed, Checked, Holding, Scanning

\* Giving up gives back the lock: nothing is claimed of the next holder yet.
LEMMA FailKeeps ==
  ASSUME Inv, NEW p \in Procs, Fail(p), UNCHANGED acl, holder # p => UNCHANGED edited,
         events' \in Nat, jpc' # "idle" => jpc # "idle" /\ p # Service
  PROVE  Inv'
<1>1. TypeOK'
  BY DEF Inv, TypeOK, Fail, Goto
<1>2. Locked'
  BY GateAssumption DEF Inv, TypeOK, Locked, Fail, Goto, Holding
<1>3. Present' /\ Indexed'
  BY DEF Inv, TypeOK, Present, Indexed, Fail, Goto, Scanning, Holding
<1>4. \A q \in Procs : pc'[q] \in Holding =>
        holder # p /\ pc'[q] = pc[q] /\ at'[q] = at[q] /\ opened'[q] = opened[q]
  BY DEF Inv, TypeOK, Locked, Fail, Goto, Holding
<1>5. Checked'
  BY <1>4 DEF Inv, Checked, Sound, Fine, Drifted, Class, Holding
<1> QED BY <1>1, <1>2, <1>3, <1>5 DEF Inv

\* What one more opened object makes of the list.
LEMMA AppendKeeps ==
  ASSUME NEW s \in Seq(Objects), NEW o \in Objects
  PROVE  /\ Append(s, o) \in Seq(Objects) /\ Len(Append(s, o)) = Len(s) + 1
         /\ \A i \in 1..Len(Append(s, o)) :
              Append(s, o)[i] = o \/ (i \in 1..Len(s) /\ Append(s, o)[i] = s[i])
<1> DEFINE t == Append(s, o)
<1>1. Len(s) \in Nat
  BY LenProperties
<1>2. \A i \in 1..(Len(s) + 1) : i \in 1..Len(s) \/ i = Len(s) + 1
  BY <1>1
<1>3. /\ t \in Seq(Objects) /\ Len(t) = Len(s) + 1
      /\ \A i \in 1..Len(s) : t[i] = s[i]
      /\ t[Len(s) + 1] = o
  BY AppendProperties
<1> HIDE DEF t
<1>4. \A i \in 1..Len(t) : t[i] = o \/ (i \in 1..Len(s) /\ t[i] = s[i])
  <2> SUFFICES ASSUME NEW i \in 1..Len(t)
               PROVE  t[i] = o \/ (i \in 1..Len(s) /\ t[i] = s[i])
    OBVIOUS
  <2>1. i \in 1..(Len(s) + 1)
    BY <1>3
  <2>2. CASE i \in 1..Len(s)
    BY <2>2, <1>3
  <2>3. CASE i = Len(s) + 1
    BY <2>3, <1>3
  <2> QED BY <2>1, <2>2, <2>3, <1>2
<1> QED BY <1>3, <1>4 DEF t

\* What happens before the lock is taken leaves the holder's findings alone.
LEMMA StartKeeps ==
  ASSUME Inv, NEW p \in Procs, Start(p)
  PROVE  Inv'
<1> USE DEF Start, Goto, gate, job, NoEvent, Event
<1>0. events' \in Nat
  BY DEF Inv, TypeOK
<1>1. TypeOK'
  BY <1>0 DEF Inv, TypeOK
<1>1a. Locked'
  BY GateAssumption DEF Inv, TypeOK, Locked, Holding
<1>2. Present' /\ Indexed'
  BY GateAssumption DEF Inv, TypeOK, Present, Indexed, Scanning, Holding
<1>3. Checked'
  BY DEF Inv, TypeOK, Checked, Sound, Fine, Drifted, Class
<1> QED BY <1>1, <1>1a, <1>2, <1>3 DEF Inv

\* Opening and inspecting an object of the order.
LEMMA VisitKeeps ==
  ASSUME Inv, NEW p \in Procs, Visit(p)
  PROVE  Inv'
<1> DEFINE o == Order[at[p]]
<1>1. o \in Objects /\ containsPath(RuntimeRoot, o)
  BY GateAssumption DEF Visit, Inv, TypeOK, Indexed
<1>2. CASE Fail(p)
  BY <1>2, FailKeeps DEF Visit, Inv, TypeOK, Locked, job
<1>3. ASSUME ~Fail(p)
      PROVE  /\ Advance(p, Len(Order), "lock") /\ UNCHANGED <<acl, holder, edited, jpc, events>>
             /\ opened' = opened \/ (acl[o] # Absent /\ opened' = [opened EXCEPT ![p] = Append(@, o)])
             /\ pc[p] = "visit"
  BY <1>3 DEF Visit, job
<1>4. ASSUME ~Fail(p) PROVE Inv'
  <2> HIDE DEF o
  <2> USE <1>3, <1>4 DEF Advance, Goto
  <2>1. \A q \in Procs : q # p => pc'[q] = pc[q] /\ at'[q] = at[q] /\ opened'[q] = opened[q]
    BY DEF Inv, TypeOK
  <2>2. pc'[p] \in {"visit", "lock"} /\ at'[p] \in Nat \ {0}
    BY DEF Inv, TypeOK
  <2>2a. opened[p] \in Seq(Objects) /\ opened' \in [Procs -> Seq(Objects)]
    <3>1. opened[p] \in Seq(Objects)
      BY DEF Inv, TypeOK
    <3>2. Append(opened[p], o) \in Seq(Objects)
      BY <1>1, <3>1, AppendProperties
    <3> QED BY <3>1, <3>2 DEF Inv, TypeOK
  <2>3. TypeOK'
    BY <2>1, <2>2, <2>2a DEF Inv, TypeOK
  <2>4. Locked'
    BY <2>1, <2>2, GateAssumption DEF Inv, Locked, Holding
  <2>5. Present'
    <3>1. \A i \in 1..Len(opened'[p]) :
            (opened'[p][i] = o /\ acl[o] # Absent)
            \/ (i \in 1..Len(opened[p]) /\ opened'[p][i] = opened[p][i])
      BY <1>1, <2>2a, AppendKeeps DEF Inv, TypeOK
    <3> QED BY <1>1, <2>1, <3>1 DEF Inv, Present
  <2>6. Indexed'
    <3>1. at[p] \in 1..Len(Order) /\ Len(Order) \in Nat
      BY GateAssumption, LenProperties DEF Inv, Indexed
    <3>2. pc'[p] = "visit" => at'[p] = at[p] + 1 /\ at[p] < Len(Order)
      BY DEF Inv, TypeOK
    <3>3. pc'[p] = "visit" => at'[p] \in 1..Len(Order)
      BY <3>1, <3>2
    <3> QED BY <2>1, <2>2, <3>3 DEF Inv, Indexed, Scanning, Holding
  <2>7. Checked'
    BY <2>1, <2>2 DEF Inv, Checked, Sound, Fine, Drifted, Class
  <2> QED BY <2>3, <2>4, <2>5, <2>6, <2>7 DEF Inv
<1> QED BY <1>2, <1>4

\* The findings of the lock's holder carry over to a step in which it does not
\* look further.
LEMMA CheckedMoves ==
  ASSUME Inv,
         \A o \in Objects : (Sound(o) => Sound(o)') /\ (Fine(o) => Fine(o)') /\ (Drifted(o) => Drifted(o)'),
         \A q \in Procs : pc'[q] \in Holding =>
           pc'[q] = pc[q] /\ opened'[q] = opened[q] /\ at'[q] = at[q]
  PROVE  Checked'
<1>1. \A q \in Procs : \A i \in 1..Len(opened[q]) : opened[q][i] \in Objects
  BY DEF Inv, Present
<1>2. \A q \in Procs : /\ at[q] \in Nat /\ Len(opened[q]) \in Nat
                       /\ pc[q] \in Scanning => at[q] \in 1..Len(opened[q])
  BY LenProperties DEF Inv, TypeOK, Indexed
<1>3. \A q \in Procs : pc[q] \in Scanning => \A i \in 1..(at[q] - 1) : i \in 1..Len(opened[q])
  BY <1>2
<1>4. ASSUME NEW q \in Procs
      PROVE  (/\ pc[q] = "preflight" => \A i \in 1..(at[q] - 1) : Sound(opened[q][i])
              /\ pc[q] = "verify" => \A i \in 1..(at[q] - 1) : Fine(opened[q][i]))'
  BY <1>1, <1>3 DEF Inv, Checked, Scanning, Holding
<1>5. ASSUME NEW q \in Procs
      PROVE  (/\ pc[q] \in {"repair", "write", "recheck", "verify"} =>
                   \A i \in 1..Len(opened[q]) : Sound(opened[q][i])
              /\ pc[q] = "ready" => \A i \in 1..Len(opened[q]) : Fine(opened[q][i]))'
  BY <1>1 DEF Inv, Checked, Holding
<1>6. ASSUME NEW q \in Procs
      PROVE  (pc[q] = "write" => Drifted(opened[q][at[q]]))'
  BY <1>1, <1>2 DEF Inv, Checked, Scanning, Holding
<1> QED BY <1>4, <1>5, <1>6 DEF Checked

\* Creating the lock file with its descriptor.
LEMMA CreateLockKeeps ==
  ASSUME Inv, NEW p \in Procs, CreateLock(p)
  PROVE  Inv'
<1> DEFINE d == repaired(LockFile, created(LockFile))
<1>1. LockFile \in Objects /\ containsPath(RuntimeRoot, LockFile) /\ d \in Descriptor
  BY GateAssumption, CreatedTyped, RepairedTyped
<1>2. CASE acl[LockFile] # Absent
  BY <1>2, FailKeeps DEF CreateLock, Inv, TypeOK, Locked, job
<1>3. CASE acl[LockFile] = Absent
  <2>1. /\ pc[p] = "lock" /\ acl' = [acl EXCEPT ![LockFile] = d]
        /\ opened' = [opened EXCEPT ![p] = Append(@, LockFile)]
        /\ UNCHANGED <<pc, at, holder, edited, jpc, events>>
    BY <1>3 DEF CreateLock, job
  <2> HIDE DEF d
  <2>2. TypeOK' /\ Locked'
    BY <1>1, <2>1 DEF Inv, TypeOK, Locked
  <2>3. \A i \in 1..Len(opened'[p]) :
          opened'[p][i] = LockFile \/ (i \in 1..Len(opened[p]) /\ opened'[p][i] = opened[p][i])
    BY <1>1, <2>1, AppendKeeps DEF Inv, TypeOK
  <2>4. \A o \in Objects : acl'[o] # Absent \/ acl'[o] = acl[o]
    BY <1>1, <2>1, TamperAssumption DEF Inv, TypeOK
  <2>4a. acl'[LockFile] # Absent
    BY <1>1, <2>1, TamperAssumption DEF Inv, TypeOK
  <2>5. Present'
    BY <1>1, <2>1, <2>3, <2>4, <2>4a DEF Inv, TypeOK, Present
  <2>6. Indexed'
    BY <2>1 DEF Inv, TypeOK, Indexed, Scanning
  <2>7. Checked'
    <3>1. \A o \in Objects : o = LockFile \/ acl'[o] = acl[o]
      BY <2>1 DEF Inv, TypeOK
    <3>2. \A o \in Objects : (Sound(o) => Sound(o)') /\ (Fine(o) => Fine(o)')
      BY <1>3, <2>1, <3>1 DEF Sound, Fine, Class
    <3>3. \A o \in Objects : Drifted(o) => Drifted(o)'
      BY <1>3, <2>1, <3>1 DEF Drifted, Class
    <3>4. \A q \in Procs : pc'[q] \in Holding =>
            pc'[q] = pc[q] /\ opened'[q] = opened[q] /\ at'[q] = at[q]
      BY <2>1 DEF Inv, TypeOK, Holding
    <3> QED BY CheckedMoves, <3>2, <3>3, <3>4
  <2> QED BY <2>2, <2>5, <2>6, <2>7 DEF Inv
<1> QED BY <1>2, <1>3

\* Taking the lock begins the inspection anew.
LEMMA LockKeeps ==
  ASSUME Inv, NEW p \in Procs, Lock(p)
  PROVE  Inv'
<1>1. CASE ~(Class(LockFile) # "unsafe" /\ holder = NoProc)
  <2>1. Fail(p) /\ UNCHANGED <<acl, edited, jpc, events>> /\ pc[p] = "lock"
    BY <1>1 DEF Lock, job
  <2> QED BY <2>1, FailKeeps DEF Inv, TypeOK, Locked
<1>2. CASE Class(LockFile) # "unsafe" /\ holder = NoProc
  <2>1. /\ pc[p] = "lock" /\ Has(p, LockFile) /\ holder = NoProc /\ holder' = p
        /\ pc' = [pc EXCEPT ![p] = "preflight"] /\ at' = [at EXCEPT ![p] = 1]
        /\ UNCHANGED <<acl, opened, jpc, events>>
    BY <1>2 DEF Lock, Goto, job
  <2>2. \A q \in Procs : pc'[q] \in Holding => q = p /\ pc'[q] = "preflight" /\ at'[q] = 1
    BY <2>1, GateAssumption DEF Inv, TypeOK, Locked, Holding
  <2>3. TypeOK'
    BY <2>1 DEF Inv, TypeOK, Holding
  <2>4. Locked'
    BY <2>1, GateAssumption DEF Inv, TypeOK, Locked, Holding
  <2>5. Present'
    BY <2>1 DEF Inv, TypeOK, Present
  <2>6. 1 \in 1..Len(opened[p])
    <3>1. Len(opened[p]) \in Nat
      BY LenProperties DEF Inv, TypeOK
    <3> QED BY <3>1, <2>1 DEF Has
  <2>7. Indexed'
    BY <2>1, <2>6 DEF Inv, TypeOK, Indexed, Scanning
  <2>8. Checked'
    BY <2>2 DEF Checked, Holding
  <2> QED BY <2>3, <2>4, <2>5, <2>7, <2>8 DEF Inv
<1> QED BY <1>1, <1>2

\* One look of the lock's holder: what it saw is no longer in doubt, and nobody
\* else's findings are concerned.
LEMMA LookKeeps ==
  ASSUME Inv, NEW p \in Procs, pc[p] \in Scanning,
         \A x \in Objects : x \in edited /\ x \notin edited' => acl[x] # Absent /\ Class(x) # "unsafe",
         pc' \in [Procs -> Holding \cup {"down", "visit", "lock"}], at' \in [Procs -> Nat \ {0}],
         \A q \in Procs \ {p} : pc'[q] = pc[q] /\ at'[q] = at[q],
         pc'[p] \in Holding, pc'[p] \in Scanning => at'[p] \in 1..Len(opened[p]),
         UNCHANGED <<acl, opened, holder, jpc, events>>
  PROVE  /\ TypeOK' /\ Locked' /\ Present' /\ Indexed'
         /\ \A q \in Procs : pc'[q] \in Holding => q = p
         /\ \A o \in Objects : Sound(o) => Sound(o)'
<1>1. TypeOK'
  BY DEF Inv, TypeOK, Holding, Scanning
<1>2. Locked'
  <2>1. p # Service \/ jpc = "idle"
    BY DEF Inv, Locked, Scanning, Holding
  <2>2. \A q \in Procs : pc'[q] \in Holding <=> holder = q
    BY DEF Inv, Locked, Scanning
  <2> QED BY <2>1, <2>2, GateAssumption DEF Inv, Locked
<1>3. Present'
  BY DEF Inv, Present, Scanning, Holding
<1>3a. Indexed'
  <2>1. pc'[p] # "visit"
    BY DEF Holding
  <2> QED BY <2>1 DEF Inv, Indexed
<1>4. \A q \in Procs : pc'[q] \in Holding => q = p
  BY DEF Inv, TypeOK, Locked, Holding, Scanning
<1>5. \A o \in Objects : Sound(o) => Sound(o)'
  BY DEF Sound, Class
<1> QED BY <1>1, <1>2, <1>3, <1>3a, <1>4, <1>5

\* The look at everything opened before anything is repaired.
LEMMA PreflightKeeps ==
  ASSUME Inv, NEW p \in Procs, Preflight(p)
  PROVE  Inv'
<1>1. pc[p] = "preflight" /\ holder = p /\ at[p] \in 1..Len(opened[p]) /\ Len(opened[p]) \in Nat
  BY LenProperties DEF Preflight, Inv, TypeOK, Locked, Indexed, Scanning, Holding
<1>2. PICK o \in Objects : o = opened[p][at[p]] /\ acl[o] # Absent
  BY <1>1 DEF Inv, Present, Holding
<1>3. CASE Class(o) = "unsafe"
  <2>1. Fail(p) /\ UNCHANGED <<acl, jpc, events>>
    BY <1>2, <1>3 DEF Preflight, job
  <2> QED BY <1>1, <2>1, FailKeeps DEF Inv, TypeOK, Locked
<1>4. CASE Class(o) # "unsafe"
  <2>1. /\ Advance(p, Len(opened[p]), "repair") /\ edited' = edited \ {o}
        /\ UNCHANGED <<acl, opened, holder, jpc, events>>
    BY <1>2, <1>4 DEF Preflight, Looked, job
  <2>2. Sound(o)'
    BY <1>2, <1>4, <2>1 DEF Sound, Class
  <2>3. CASE at[p] < Len(opened[p])
    <3>1. pc' = [pc EXCEPT ![p] = "preflight"] /\ at' = [at EXCEPT ![p] = at[p] + 1]
      BY <1>1, <2>1, <2>3 DEF Advance, Inv, TypeOK
    <3>2. /\ TypeOK' /\ Locked' /\ Present' /\ Indexed'
          /\ \A q \in Procs : pc'[q] \in Holding => q = p
          /\ \A x \in Objects : Sound(x) => Sound(x)'
      <4>1. /\ pc' \in [Procs -> Holding \cup {"down", "visit", "lock"}] /\ at' \in [Procs -> Nat \ {0}]
            /\ \A q \in Procs \ {p} : pc'[q] = pc[q] /\ at'[q] = at[q]
            /\ pc'[p] = "preflight" /\ at'[p] = at[p] + 1
        BY <1>1, <3>1 DEF Inv, TypeOK, Holding
      <4>2. /\ pc[p] \in Scanning /\ pc'[p] \in Holding
            /\ pc'[p] \in Scanning => at'[p] \in 1..Len(opened[p])
        BY <1>1, <2>3, <4>1 DEF Scanning, Holding
      <4>3. \A x \in Objects : x \in edited /\ x \notin edited' => acl[x] # Absent /\ Class(x) # "unsafe"
        BY <1>2, <1>4, <2>1
      <4> QED BY <2>1, <4>1, <4>2, <4>3, LookKeeps
    <3>3. at'[p] = at[p] + 1 /\ pc'[p] = "preflight"
      BY <3>1 DEF Inv, TypeOK
    <3>4. (\A i \in 1..(at[p] - 1) : Sound(opened[p][i]))'
      <4>1. \A i \in 1..(at[p] - 1) : Sound(opened[p][i]) /\ opened[p][i] \in Objects
        BY <1>1 DEF Inv, Checked, Present
      <4>2. \A i \in 1..at[p] : i \in 1..(at[p] - 1) \/ i = at[p]
        BY <1>1
      <4> QED BY <1>1, <1>2, <2>1, <2>2, <3>2, <3>3, <4>1, <4>2
    <3>5. Checked'
      BY <3>2, <3>3, <3>4 DEF Checked, Holding
    <3> QED BY <3>2, <3>5 DEF Inv
  <2>4. CASE ~(at[p] < Len(opened[p]))
    <3>1. pc' = [pc EXCEPT ![p] = "repair"] /\ at' = [at EXCEPT ![p] = 1]
      BY <1>1, <2>1, <2>4 DEF Advance, Goto
    <3>2. /\ TypeOK' /\ Locked' /\ Present' /\ Indexed'
          /\ \A q \in Procs : pc'[q] \in Holding => q = p
          /\ \A x \in Objects : Sound(x) => Sound(x)'
      <4>1. /\ pc' \in [Procs -> Holding \cup {"down", "visit", "lock"}] /\ at' \in [Procs -> Nat \ {0}]
            /\ \A q \in Procs \ {p} : pc'[q] = pc[q] /\ at'[q] = at[q]
            /\ pc'[p] = "repair" /\ at'[p] = 1
        BY <1>1, <3>1 DEF Inv, TypeOK, Holding
      <4>2. /\ pc[p] \in Scanning /\ pc'[p] \in Holding
            /\ pc'[p] \in Scanning => at'[p] \in 1..Len(opened[p])
        BY <1>1, <4>1 DEF Scanning, Holding
      <4>3. \A x \in Objects : x \in edited /\ x \notin edited' => acl[x] # Absent /\ Class(x) # "unsafe"
        BY <1>2, <1>4, <2>1
      <4> QED BY <2>1, <4>1, <4>2, <4>3, LookKeeps
    <3>3. pc'[p] = "repair" /\ at[p] = Len(opened[p])
      BY <1>1, <2>4, <3>1 DEF Inv, TypeOK
    <3>4. (\A i \in 1..Len(opened[p]) : Sound(opened[p][i]))'
      <4>1. \A i \in 1..(at[p] - 1) : Sound(opened[p][i]) /\ opened[p][i] \in Objects
        BY <1>1 DEF Inv, Checked, Present
      <4>2. \A i \in 1..at[p] : i \in 1..(at[p] - 1) \/ i = at[p]
        BY <1>1
      <4> QED BY <1>1, <1>2, <2>1, <2>2, <3>2, <3>3, <4>1, <4>2
    <3>5. Checked'
      BY <3>2, <3>3, <3>4 DEF Checked, Holding
    <3> QED BY <3>2, <3>5 DEF Inv
  <2> QED BY <2>3, <2>4
<1> QED BY <1>3, <1>4

\* The repair of one object.
LEMMA EnsureKeeps ==
  ASSUME Inv, NEW p \in Procs, Ensure(p)
  PROVE  Inv'
<1>1. pc[p] = "repair" /\ holder = p /\ at[p] \in 1..Len(opened[p]) /\ Len(opened[p]) \in Nat
  BY LenProperties DEF Ensure, Inv, TypeOK, Locked, Indexed, Scanning, Holding
<1>2. PICK o \in Objects : o = opened[p][at[p]] /\ acl[o] # Absent
  BY <1>1 DEF Inv, Present, Holding
<1>3. PICK folder : folder = {x \in {parent(o)} : Has(p, x)}
  OBVIOUS
<1>3a. \A x \in folder : acl[x] # Absent
  BY <1>1, <1>3 DEF Inv, Present, Has, Holding
<1>4. CASE Class(o) = "unsafe" \/ \E x \in folder : Class(x) # "canonical"
  <2>1. Fail(p) /\ UNCHANGED <<acl, jpc, events>>
    BY <1>2, <1>3, <1>4 DEF Ensure, job
  <2> QED BY <1>1, <2>1, FailKeeps DEF Inv, TypeOK, Locked
<1>5. CASE ~(Class(o) = "unsafe" \/ \E x \in folder : Class(x) # "canonical")
  <2>1. /\ edited' = edited \ ({o} \cup folder) /\ UNCHANGED <<acl, opened, holder, jpc, events>>
        /\ IF Class(o) = "canonical" THEN Advance(p, Len(opened[p]), "verify")
           ELSE pc' = [pc EXCEPT ![p] = "write"] /\ at' = at
    BY <1>2, <1>3, <1>5 DEF Ensure, Looked, job
  <2>2. \A x \in Objects : x \in edited /\ x \notin edited' => acl[x] # Absent /\ Class(x) # "unsafe"
    BY <1>2, <1>3a, <1>5, <2>1
  <2>3. /\ pc' \in [Procs -> Holding \cup {"down", "visit", "lock"}] /\ at' \in [Procs -> Nat \ {0}]
        /\ \A q \in Procs \ {p} : pc'[q] = pc[q] /\ at'[q] = at[q]
        /\ \/ pc'[p] \in {"repair", "write"} /\ at'[p] \in 1..Len(opened[p])
           \/ pc'[p] = "verify" /\ at'[p] = 1
        /\ pc'[p] = "write" => at'[p] = at[p] /\ Class(o) # "canonical"
    <3>1. CASE Class(o) # "canonical"
      BY <1>1, <2>1, <3>1 DEF Inv, TypeOK, Holding
    <3>2. CASE Class(o) = "canonical" /\ at[p] < Len(opened[p])
      <4>1. pc' = pc /\ at' = [at EXCEPT ![p] = at[p] + 1]
        BY <2>1, <3>2 DEF Advance
      <4> QED BY <1>1, <3>2, <4>1 DEF Inv, TypeOK, Holding
    <3>3. CASE Class(o) = "canonical" /\ ~(at[p] < Len(opened[p]))
      <4>1. pc' = [pc EXCEPT ![p] = "verify"] /\ at' = [at EXCEPT ![p] = 1]
        BY <2>1, <3>3 DEF Advance, Goto
      <4> QED BY <1>1, <3>3, <4>1 DEF Inv, TypeOK, Holding
    <3> QED BY <3>1, <3>2, <3>3
  <2>4. /\ pc[p] \in Scanning /\ pc'[p] \in Holding
        /\ pc'[p] \in Scanning => at'[p] \in 1..Len(opened[p])
    BY <1>1, <2>3 DEF Scanning, Holding
  <2>5. /\ TypeOK' /\ Locked' /\ Present' /\ Indexed'
        /\ \A q \in Procs : pc'[q] \in Holding => q = p
        /\ \A x \in Objects : Sound(x) => Sound(x)'
    BY <2>1, <2>2, <2>3, <2>4, LookKeeps
  <2>6. (\A i \in 1..Len(opened[p]) : Sound(opened[p][i]))'
    <3>1. \A i \in 1..Len(opened[p]) : Sound(opened[p][i]) /\ opened[p][i] \in Objects
      BY <1>1 DEF Inv, Checked, Present
    <3> QED BY <2>1, <2>5, <3>1
  <2>7. (pc[p] = "write" => Drifted(opened[p][at[p]]))'
    <3>1. Class(o) # "canonical" => Class(o) = "repairable"
      BY <1>5 DEF Class, classify
    <3> QED BY <1>2, <2>1, <2>3, <3>1 DEF Drifted, Class
  <2>8. Checked'
    BY <2>3, <2>5, <2>6, <2>7 DEF Checked, Holding
  <2> QED BY <2>5, <2>8 DEF Inv
<1> QED BY <1>4, <1>5

\* The repair of what was found repairable makes it canonical, unless it was
\* changed in between: then it still counts as changed.
LEMMA RepairKeeps ==
  ASSUME Inv, NEW p \in Procs, Repair(p)
  PROVE  Inv'
<1>1. pc[p] = "write" /\ holder = p /\ at[p] \in 1..Len(opened[p]) /\ Len(opened[p]) \in Nat
  BY LenProperties DEF Repair, Inv, TypeOK, Locked, Indexed, Scanning, Holding
<1>2. PICK o \in Objects : o = opened[p][at[p]] /\ acl[o] # Absent
  BY <1>1 DEF Inv, Present, Holding
<1>3. /\ acl' = [acl EXCEPT ![o] = repaired(o, acl[o])]
      /\ pc' = [pc EXCEPT ![p] = "recheck"]
      /\ UNCHANGED <<at, opened, holder, edited, jpc, events>>
  BY <1>2 DEF Repair, job
<1>4. acl[o] \in Descriptor /\ repaired(o, acl[o]) \in Descriptor
  BY <1>2, RepairedTyped DEF Inv, TypeOK
<1>5. TypeOK'
  BY <1>2, <1>3, <1>4 DEF Inv, TypeOK, Holding
<1>6. Locked'
  BY <1>1, <1>3, GateAssumption DEF Inv, TypeOK, Locked, Holding
<1>7. Present'
  <2>1. \A x \in Objects : acl[x] # Absent => acl'[x] # Absent
    BY <1>3, <1>4, TamperAssumption DEF Inv, TypeOK
  <2> QED BY <1>1, <1>3, <2>1 DEF Inv, TypeOK, Present
<1>8. Indexed'
  BY <1>1, <1>3 DEF Inv, TypeOK, Indexed, Scanning, Holding
<1>9. \A q \in Procs : pc'[q] \in Holding => q = p /\ pc'[q] = "recheck"
  BY <1>1, <1>3 DEF Inv, TypeOK, Locked, Holding
<1>10. \A x \in Objects : Sound(x) => Sound(x)'
  <2>1. Sound(o)'
    <3>1. CASE o \in edited
      BY <1>3, <3>1 DEF Sound
    <3>2. CASE o \notin edited
      <4>1. Class(o) = "repairable"
        BY <1>1, <1>2, <3>2 DEF Inv, Checked, Drifted
      <4>2. classify(o, repaired(o, acl[o])) = "canonical"
        BY <4>1, <1>4, RepairedIsCanonical DEF Class, classify
      <4>3. acl'[o] = repaired(o, acl[o])
        BY <1>3 DEF Inv, TypeOK
      <4> QED BY <4>2, <4>3, <1>4, TamperAssumption DEF Sound, Class
    <3> QED BY <3>1, <3>2
  <2>2. ASSUME NEW x \in Objects, x # o, Sound(x)
        PROVE  Sound(x)'
    <3>1. acl'[x] = acl[x]
      BY <1>3, <2>2 DEF Inv, TypeOK
    <3> QED BY <1>3, <2>2, <3>1 DEF Sound, Class
  <2> QED BY <2>1, <2>2
<1>11. Checked'
  <2>1. \A i \in 1..Len(opened[p]) : Sound(opened[p][i]) /\ opened[p][i] \in Objects
    BY <1>1 DEF Inv, Checked, Present
  <2>2. (\A i \in 1..Len(opened[p]) : Sound(opened[p][i]))'
    BY <1>3, <1>10, <2>1
  <2> QED BY <1>9, <2>2 DEF Checked, Holding
<1> QED BY <1>5, <1>6, <1>7, <1>8, <1>11 DEF Inv

\* The look after the repair.
LEMMA RecheckKeeps ==
  ASSUME Inv, NEW p \in Procs, Recheck(p)
  PROVE  Inv'
<1>1. pc[p] = "recheck" /\ holder = p /\ at[p] \in 1..Len(opened[p]) /\ Len(opened[p]) \in Nat
  BY LenProperties DEF Recheck, Inv, TypeOK, Locked, Indexed, Scanning, Holding
<1>2. PICK o \in Objects : o = opened[p][at[p]] /\ acl[o] # Absent
  BY <1>1 DEF Inv, Present, Holding
<1>3. CASE Class(o) # "canonical"
  <2>1. Fail(p) /\ UNCHANGED <<acl, jpc, events>>
    BY <1>2, <1>3 DEF Recheck, job
  <2> QED BY <1>1, <2>1, FailKeeps DEF Inv, TypeOK, Locked
<1>4. CASE Class(o) = "canonical"
  <2>1. /\ edited' = edited \ {o} /\ UNCHANGED <<acl, opened, holder, jpc, events>>
        /\ IF at[p] < Len(opened[p])
           THEN pc' = [pc EXCEPT ![p] = "repair"] /\ at' = [at EXCEPT ![p] = @ + 1]
           ELSE Goto(p, "verify")
    BY <1>2, <1>4 DEF Recheck, Looked, job
  <2>2. \A x \in Objects : x \in edited /\ x \notin edited' => acl[x] # Absent /\ Class(x) # "unsafe"
    BY <1>2, <1>4, <2>1
  <2>3. /\ pc' \in [Procs -> Holding \cup {"down", "visit", "lock"}] /\ at' \in [Procs -> Nat \ {0}]
        /\ \A q \in Procs \ {p} : pc'[q] = pc[q] /\ at'[q] = at[q]
        /\ \/ pc'[p] = "repair" /\ at'[p] \in 1..Len(opened[p])
           \/ pc'[p] = "verify" /\ at'[p] = 1
    <3>1. CASE at[p] < Len(opened[p])
      <4>1. pc' = [pc EXCEPT ![p] = "repair"] /\ at' = [at EXCEPT ![p] = at[p] + 1]
        BY <2>1, <3>1
      <4> QED BY <1>1, <3>1, <4>1 DEF Inv, TypeOK, Holding
    <3>2. CASE ~(at[p] < Len(opened[p]))
      <4>1. pc' = [pc EXCEPT ![p] = "verify"] /\ at' = [at EXCEPT ![p] = 1]
        BY <2>1, <3>2 DEF Goto
      <4> QED BY <1>1, <3>2, <4>1 DEF Inv, TypeOK, Holding
    <3> QED BY <3>1, <3>2
  <2>4. /\ pc[p] \in Scanning /\ pc'[p] \in Holding
        /\ pc'[p] \in Scanning => at'[p] \in 1..Len(opened[p])
    BY <1>1, <2>3 DEF Scanning, Holding
  <2>5. /\ TypeOK' /\ Locked' /\ Present' /\ Indexed'
        /\ \A q \in Procs : pc'[q] \in Holding => q = p
        /\ \A x \in Objects : Sound(x) => Sound(x)'
    BY <2>1, <2>2, <2>3, <2>4, LookKeeps
  <2>6. (\A i \in 1..Len(opened[p]) : Sound(opened[p][i]))'
    <3>1. \A i \in 1..Len(opened[p]) : Sound(opened[p][i]) /\ opened[p][i] \in Objects
      BY <1>1 DEF Inv, Checked, Present
    <3> QED BY <2>1, <2>5, <3>1
  <2>7. Checked'
    BY <2>3, <2>5, <2>6 DEF Checked, Holding
  <2> QED BY <2>5, <2>7 DEF Inv
<1> QED BY <1>3, <1>4

\* The last pass: every object in turn is canonical, all of them in the end.
LEMMA VerifyKeeps ==
  ASSUME Inv, NEW p \in Procs, Verify(p)
  PROVE  Inv'
<1>1. pc[p] = "verify" /\ holder = p /\ at[p] \in 1..Len(opened[p]) /\ Len(opened[p]) \in Nat
  BY LenProperties DEF Verify, Inv, TypeOK, Locked, Indexed, Scanning, Holding
<1>2. PICK o \in Objects : o = opened[p][at[p]] /\ acl[o] # Absent
  BY <1>1 DEF Inv, Present, Holding
<1>3. CASE Class(o) # "canonical"
  <2>1. Fail(p) /\ UNCHANGED <<acl, jpc, events>>
    BY <1>2, <1>3 DEF Verify, job
  <2> QED BY <1>1, <2>1, FailKeeps DEF Inv, TypeOK, Locked
<1>4. CASE Class(o) = "canonical"
  <2>1. /\ edited' = edited \ {o} /\ UNCHANGED <<acl, opened, holder, jpc, events>>
        /\ Advance(p, Len(opened[p]), "ready")
    BY <1>2, <1>4 DEF Verify, Looked, job
  <2>2. \A x \in Objects : x \in edited /\ x \notin edited' => acl[x] # Absent /\ Class(x) # "unsafe"
    BY <1>2, <1>4, <2>1
  <2>3. /\ pc' \in [Procs -> Holding \cup {"down", "visit", "lock"}] /\ at' \in [Procs -> Nat \ {0}]
        /\ \A q \in Procs \ {p} : pc'[q] = pc[q] /\ at'[q] = at[q]
        /\ \/ pc'[p] = "verify" /\ at'[p] = at[p] + 1 /\ at[p] < Len(opened[p])
           \/ pc'[p] = "ready" /\ at[p] = Len(opened[p])
    <3>1. CASE at[p] < Len(opened[p])
      BY <1>1, <2>1, <3>1 DEF Advance, Inv, TypeOK, Holding
    <3>2. CASE ~(at[p] < Len(opened[p]))
      <4>1. pc' = [pc EXCEPT ![p] = "ready"] /\ at' = [at EXCEPT ![p] = 1]
        BY <2>1, <3>2 DEF Advance, Goto
      <4> QED BY <1>1, <3>2, <4>1 DEF Inv, TypeOK, Holding
    <3> QED BY <3>1, <3>2
  <2>4. /\ pc[p] \in Scanning /\ pc'[p] \in Holding
        /\ pc'[p] \in Scanning => at'[p] \in 1..Len(opened[p])
    BY <1>1, <2>3 DEF Scanning, Holding
  <2>5. /\ TypeOK' /\ Locked' /\ Present' /\ Indexed'
        /\ \A q \in Procs : pc'[q] \in Holding => q = p
        /\ \A x \in Objects : Sound(x) => Sound(x)'
    BY <2>1, <2>2, <2>3, <2>4, LookKeeps
  <2>6. (\A i \in 1..Len(opened[p]) : Sound(opened[p][i]))'
    <3>1. \A i \in 1..Len(opened[p]) : Sound(opened[p][i]) /\ opened[p][i] \in Objects
      BY <1>1 DEF Inv, Checked, Present
    <3> QED BY <2>1, <2>5, <3>1
  <2>7. \A i \in 1..at[p] : Fine(opened[p][i])'
    <3>1. \A i \in 1..(at[p] - 1) : Fine(opened[p][i]) /\ opened[p][i] \in Objects
      BY <1>1 DEF Inv, Checked, Present
    <3>2. \A x \in Objects : Fine(x) => Fine(x)'
      BY <1>2, <1>4, <2>1 DEF Fine, Class
    <3>3. Fine(o)'
      BY <1>2, <1>4, <2>1 DEF Fine, Class
    <3>4. \A i \in 1..at[p] : i \in 1..(at[p] - 1) \/ i = at[p]
      BY <1>1
    <3> QED BY <1>2, <2>1, <3>1, <3>2, <3>3, <3>4
  <2>8. Checked'
    <3>1. CASE pc'[p] = "verify"
      <4>1. (\A i \in 1..(at[p] - 1) : Fine(opened[p][i]))'
        BY <1>1, <2>1, <2>3, <2>7, <3>1
      <4> QED BY <2>5, <2>6, <3>1, <4>1 DEF Checked, Holding
    <3>2. CASE pc'[p] = "ready"
      <4>1. (\A i \in 1..Len(opened[p]) : Fine(opened[p][i]))'
        BY <1>1, <2>1, <2>3, <2>7, <3>2
      <4> QED BY <2>5, <3>2, <4>1 DEF Checked, Holding
    <3> QED BY <2>3, <3>1, <3>2
  <2> QED BY <2>5, <2>8 DEF Inv
<1> QED BY <1>3, <1>4

\* An outsider's change is in doubt until somebody looks, and cannot take away
\* what is pinned.
LEMMA TamperKeeps ==
  ASSUME Inv, NEW o \in Objects, NEW d \in Tampered[o] \cup {Absent}, Tamper(o, d)
  PROVE  Inv'
<1>1. /\ edited' = edited \cup {x \in Objects : acl'[x] # acl[x]}
      /\ UNCHANGED <<pc, at, opened, holder, jpc>> /\ events' \in Nat
  BY DEF Tamper, gate, Event, Inv, TypeOK
<1>2. acl' \in [Objects -> Descriptor \cup {Absent}]
  <2>1. d \in Descriptor \cup {Absent}
    BY TamperAssumption
  <2> QED BY <2>1 DEF Tamper, Inv, TypeOK
<1>3. TypeOK' /\ Locked' /\ Indexed'
  BY <1>1, <1>2 DEF Inv, TypeOK, Locked, Indexed
<1>4. Present'
  <2> SUFFICES ASSUME NEW p \in Procs, NEW i \in 1..Len(opened[p]), pc[p] # "ready"
               PROVE  acl'[opened[p][i]] # Absent
    BY <1>1 DEF Inv, Present
  <2>1. PICK x \in Objects : x = opened[p][i] /\ acl[x] # Absent /\ Pinned(x)
    BY DEF Inv, Present, Pinned
  <2>2. CASE acl[o] # Absent /\ d # Absent /\ acl' = [acl EXCEPT ![o] = d]
    BY <2>1, <2>2 DEF Inv, TypeOK
  <2>3. CASE /\ \A y \in Objects : containsPath(o, y) => ~Pinned(y)
             /\ acl' = [y \in Objects |-> IF y = o THEN d ELSE IF Below(o, y) THEN Absent ELSE acl[y]]
    <3>1. ~containsPath(o, x)
      BY <2>1, <2>3
    <3>2. containsPath(o, o)
      BY GateAssumption DEF containsPath
    <3> QED BY <2>1, <2>3, <3>1, <3>2 DEF Below
  <2> QED BY <2>1, <2>2, <2>3 DEF Tamper
<1>5. \A x \in Objects : (Sound(x) => Sound(x)') /\ (Fine(x) => Fine(x)') /\ (Drifted(x) => Drifted(x)')
  <2>1. \A x \in Objects : x \in edited' \/ (x \notin edited /\ acl'[x] = acl[x])
    BY <1>1
  <2> QED BY <2>1 DEF Sound, Fine, Drifted, Class
<1>6. Checked'
  BY <1>1, <1>5, CheckedMoves
<1> QED BY <1>3, <1>4, <1>6 DEF Inv

\* What a download validates is canonical if it is an object of the gate.
LEMMA ValidatedIsCanonical ==
  ASSUME NEW o \in Objects, Len(jdir) \in Nat, o \in Chain(jdir), validate(o),
         containsPath(RuntimeRoot, o)
  PROVE  acl[o] # Absent /\ Class(o) = "canonical"
<1>1. Len(RuntimeRoot) \in Nat /\ Len(o) \in Nat
  BY PolicyAssumption, GateAssumption
<1>2. containsPath(RuntimeRoot, jdir)
  BY <1>1, ContainsTransitive DEF Chain
<1>3. o \in Chain(o)
  BY <1>1 DEF Chain, containsPath
<1> QED BY <1>2, <1>3 DEF validate, PrivateBoundary, Straight

\* A download creates what is missing and looks at what is there.
LEMMA JobKeeps ==
  ASSUME Inv, Len(jdir) \in Nat, Job \/ JobTrouble
  PROVE  Inv'
<1>1. /\ UNCHANGED <<pc, at, opened, holder, events, jdir>>
      /\ jpc # "idle"
  BY DEF Job, JobTrouble, Pin, Held, CheckTemp, CheckPublish, LookAgain, CreateTemp, Publish, gate
<1>2. /\ \A x \in Objects : acl'[x] = acl[x] \/
           (/\ acl[x] = Absent /\ acl'[x] \in Descriptor /\ edited' = edited)
      /\ \A x \in Objects : x \in edited /\ x \notin edited' => x \in Chain(jdir) /\ validate(x)
      /\ acl' = acl \/ edited' = edited
      /\ edited' \subseteq edited /\ acl' \in [Objects -> Descriptor \cup {Absent}]
  <2>1. CASE \E o \in Objects : Pin(o)
    <3>1. PICK o \in Objects : Pin(o)
      BY <2>1
    <3>2. created(o) \in Descriptor
      BY CreatedTyped
    <3> QED BY <3>1, <3>2 DEF Pin, Unpinned, Looked, Inv, TypeOK
  <2>2. CASE CheckTemp \/ CheckPublish
    BY <2>2 DEF CheckTemp, CheckPublish, LookAgain, Looked, Valid, Inv, TypeOK
  <2>3. CASE Held \/ CreateTemp \/ Publish \/ JobTrouble
    BY <2>3 DEF Held, CreateTemp, Publish, JobTrouble, Inv, TypeOK
  <2> QED BY <2>1, <2>2, <2>3 DEF Job
<1>3. TypeOK' /\ Locked' /\ Indexed'
  BY <1>1, <1>2 DEF Inv, TypeOK, Locked, Indexed
<1>4. Present'
  BY <1>1, <1>2, TamperAssumption DEF Inv, Present
<1>5. \A p \in Procs : pc[p] \in Holding => pc[p] = "ready"
  BY <1>1, GateAssumption DEF Inv, Locked, Holding
<1>6. \A p \in Procs : pc[p] = "ready" => (\A i \in 1..Len(opened[p]) : Fine(opened[p][i]))'
  <2> SUFFICES ASSUME NEW p \in Procs, pc[p] = "ready", NEW i \in 1..Len(opened[p])
               PROVE  Fine(opened[p][i])'
    BY <1>1
  <2>1. PICK x \in Objects : x = opened[p][i] /\ containsPath(RuntimeRoot, x) /\ Fine(x)
    BY DEF Inv, Present, Checked
  <2>2. CASE x \in edited'
    BY <1>1, <2>1, <2>2 DEF Fine
  <2>3. CASE x \notin edited'
    <3>1. acl[x] # Absent /\ Class(x) = "canonical"
      BY <1>2, <2>1, <2>3, ValidatedIsCanonical DEF Fine
    <3>2. acl'[x] = acl[x]
      BY <1>2, <3>1
    <3> QED BY <1>1, <2>1, <3>1, <3>2 DEF Fine, Class
  <2> QED BY <2>2, <2>3
<1>7. Checked'
  BY <1>1, <1>5, <1>6 DEF Checked, Holding
<1> QED BY <1>3, <1>4, <1>7 DEF Inv

\* The directory of a download is a path of the model.
Placed == Len(jdir) \in Nat

\* Every step keeps the invariant.
LEMMA NextKeeps ==
  ASSUME Inv, Placed, [Next]_vars
  PROVE  Inv' /\ Placed'
<1> USE DEF gate, job
<1>1. ASSUME NEW p \in Procs, Start(p) \/ Visit(p) \/ CreateLock(p) \/ Lock(p) \/ Preflight(p)
                 \/ Ensure(p) \/ Repair(p) \/ Recheck(p) \/ Verify(p)
      PROVE  Inv' /\ Placed'
  <2>1. jdir' = jdir
    BY <1>1 DEF Start, Visit, CreateLock, Lock, Preflight, Ensure, Repair, Recheck, Verify
  <2> QED BY <1>1, <2>1, StartKeeps, VisitKeeps, CreateLockKeeps, LockKeeps, PreflightKeeps,
             EnsureKeeps, RepairKeeps, RecheckKeeps, VerifyKeeps DEF Placed
<1>2. ASSUME NEW p \in Procs, Release(p) \/ Trouble(p) \/ Crash(p)
      PROVE  Inv' /\ Placed'
  <2>1. Fail(p) /\ UNCHANGED <<acl, edited, jdir>>
    BY <1>2 DEF Release, Trouble, Crash
  <2>2. events' \in Nat
    BY <1>2 DEF Release, Trouble, Crash, Event, NoEvent, Inv, TypeOK
  <2>3. jpc' # "idle" => jpc # "idle" /\ p # Service
    BY <1>2 DEF Release, Trouble, Crash, Inv, Locked
  <2> QED BY <2>1, <2>2, <2>3, FailKeeps DEF Placed
<1>3. ASSUME NEW o \in Objects, NEW d \in Tampered[o] \cup {Absent}, Tamper(o, d)
      PROVE  Inv' /\ Placed'
  BY <1>3, TamperKeeps DEF Tamper, Placed
<1>4. ASSUME NEW d \in Destinations, JobStart(d)
      PROVE  Inv' /\ Placed'
  BY <1>4, GateAssumption DEF JobStart, Placed, Inv, TypeOK, Locked, Present, Indexed, Checked,
     Sound, Fine, Drifted, Class
<1>5. CASE Job \/ JobTrouble
  <2>1. jdir' = jdir
    BY <1>5 DEF Job, JobTrouble, Pin, Held, CheckTemp, CheckPublish, LookAgain, CreateTemp, Publish
  <2> QED BY <1>5, <2>1, JobKeeps DEF Placed
<1>6. CASE UNCHANGED vars
  BY <1>6 DEF vars, Placed, Inv, TypeOK, Locked, Present, Indexed, Checked, Sound, Fine, Drifted, Class
<1> QED BY <1>1, <1>2, <1>3, <1>4, <1>5, <1>6 DEF Next, Gate

\* The invariant holds.
LEMMA SpecInv == Spec => [](Inv /\ Placed)
<1>1. Init => Inv /\ Placed
  BY InitInv, GateAssumption DEF Init, Placed
<1> QED BY <1>1, NextKeeps, PTL DEF Spec

\* Whoever is past the gate holds the runtime lock alone, and what it opened is
\* canonical, and good enough for the reader of the key file, unless it was
\* changed after it was last inspected (runtime_windows.go:442).
THEOREM GateIsTight == Spec => []GateHolds
<1>1. Inv => GateHolds
  <2> SUFFICES ASSUME Inv, NEW p \in Procs, pc[p] = "ready", NEW o \in Opened(p), o \notin edited
               PROVE  acl[o] # Absent /\ Class(o) = "canonical" /\ validateDescriptor(o, acl[o])
    BY DEF GateHolds, Inv, Locked, Holding
  <2>1. o \in Objects /\ acl[o] # Absent /\ Class(o) = "canonical"
    BY DEF Inv, Checked, Present, Fine, Opened
  <2>2. acl[o] \in Descriptor
    BY <2>1 DEF Inv, TypeOK
  <2> QED BY <2>1, <2>2, CanonicalIsEnough DEF Class
<1> QED BY <1>1, SpecInv, PTL

\* Nothing that exists is changed except by the holder of the lock, which found
\* it repairable while no object it had opened was unsafe (runtime_windows.go:422).
THEOREM RepairsAreSafe == Spec => RepairsOnlySafe
<1> USE DEF gate, job
<1>1. ASSUME Inv, Placed, [Next]_vars, NEW o \in Objects,
             acl[o] # Absent, acl'[o] # acl[o], events' = events
      PROVE  \E p \in Procs : /\ holder = p
                              /\ Class(o) = "repairable" \/ o \in edited
                              /\ \A x \in Opened(p) \ edited : Class(x) # "unsafe"
  <2>1. ASSUME NEW p \in Procs, Repair(p)
        PROVE  /\ holder = p
               /\ Class(o) = "repairable" \/ o \in edited
               /\ \A x \in Opened(p) \ edited : Class(x) # "unsafe"
    <3>1. pc[p] = "write" /\ holder = p
      BY <1>1, <2>1 DEF Repair, Inv, TypeOK, Locked, Holding
    <3>2. o = opened[p][at[p]]
      BY <1>1, <2>1 DEF Repair, Inv, TypeOK
    <3>3. Class(o) = "repairable" \/ o \in edited
      BY <1>1, <3>1, <3>2 DEF Inv, Checked, Drifted
    <3>4. \A x \in Opened(p) \ edited : Class(x) # "unsafe"
      BY <1>1, <3>1 DEF Inv, Checked, Sound, Opened
    <3> QED BY <3>1, <3>3, <3>4
  <2>2. ASSUME NEW p \in Procs, CreateLock(p)
        PROVE  FALSE
    BY <1>1, <2>2 DEF CreateLock, Inv, TypeOK
  <2>3. ASSUME NEW x \in Objects, Pin(x)
        PROVE  FALSE
    BY <1>1, <2>3 DEF Pin, Inv, TypeOK
  <2>4. ASSUME NEW x, NEW d, Tamper(x, d)
        PROVE  FALSE
    BY <1>1, <2>4 DEF Tamper, Event, Inv, TypeOK
  <2> QED BY <1>1, <2>1, <2>2, <2>3, <2>4 DEF Next, Gate, Start, Visit, Lock, Preflight, Ensure, Recheck,
             Verify, Release, Trouble, Crash, JobStart, Job, JobTrouble, Held, CheckTemp,
             CheckPublish, LookAgain, CreateTemp, Publish, vars
<1>2. Inv /\ Placed /\ [Next]_vars =>
        [\A o \in Objects : acl[o] # Absent /\ acl'[o] # acl[o] /\ events' = events =>
           \E p \in Procs : /\ holder = p
                            /\ Class(o) = "repairable" \/ o \in edited
                            /\ \A x \in Opened(p) \ edited : Class(x) # "unsafe"]_vars
  BY <1>1
<1> QED BY <1>2, SpecInv, PTL DEF Spec, RepairsOnlySafe

-----------------------------------------------------------------------------
(* Where a download lands.                                                 *)

\* From the creation of the .part file on the whole path of the job is pinned; from
\* its last inspection on it is what it was found to be, except for permissions that
\* an administrator has changed since.
JobInv ==
  /\ part # "strayed" /\ roots \in AllowLists
  /\ jpc # "idle" => jdir \in Objects \ Files
  /\ jpc \in {"create", "fetch", "rename"} => jpins = Chain(jdir)
  /\ jpc \in {"fetch", "rename"} => part = "inside"
  /\ jpc = "rename" =>
       \A o \in Chain(jdir) :
         /\ acl[o] # Absent /\ acl[o].intact
         /\ PrivateBoundary(jdir) /\ containsPath(RuntimeRoot, o) =>
              o \in edited \/ Class(o) = "canonical"

\* The gate changes nothing of a download that is about to be published: nobody but
\* the service has the lock, and it is past its own inspections.
LEMMA GateKeepsJob ==
  ASSUME Inv, JobInv,
         \E p \in Procs : Start(p) \/ Gate(p) \/ Release(p) \/ Trouble(p) \/ Crash(p)
  PROVE  JobInv'
<1> PICK p \in Procs : Start(p) \/ Gate(p) \/ Release(p) \/ Trouble(p) \/ Crash(p)
  OBVIOUS
<1>1. UNCHANGED <<jdir, part, roots>> /\ (jpc' = "idle" \/ UNCHANGED <<jpc, jpins>>)
  BY DEF Start, Gate, Visit, CreateLock, Lock, Preflight, Ensure, Repair, Recheck, Verify, Release,
         Trouble, Crash, job
<1>2. CASE jpc' # "rename"
  BY <1>1, <1>2 DEF JobInv, Chain
<1>3. CASE jpc' = "rename"
  <2>1. jpc = "rename" /\ jpins' = jpins
    BY <1>1, <1>3
  <2>2. pc[p] \notin {"preflight", "repair", "write", "recheck", "verify"} /\ holder = Service
    BY <2>1, GateAssumption DEF Inv, Locked, Holding
  <2>3. /\ edited' = edited
        /\ \A o \in Objects \ Files : acl'[o] = acl[o]
    <3>1. CASE Start(p) \/ Visit(p) \/ Release(p) \/ Trouble(p) \/ Crash(p)
      BY <3>1 DEF Start, Visit, Release, Trouble, Crash
    <3>2. CASE CreateLock(p)
      BY <3>2, GateAssumption DEF CreateLock, Inv, TypeOK
    <3>3. CASE Lock(p)
      BY <2>2, <3>3, GateAssumption DEF Lock
    <3> QED BY <2>2, <3>1, <3>2, <3>3 DEF Gate, Preflight, Ensure, Repair, Recheck, Verify
  <2> QED BY <1>1, <2>1, <2>3 DEF JobInv, Chain, Class
<1> QED BY <1>2, <1>3

\* An outsider cannot take away a pinned folder, nor make a link of one that is not
\* empty; and what else he changes is known to be in doubt.
LEMMA TamperKeepsJob ==
  ASSUME Inv, JobInv, NEW o \in Objects, NEW d \in Tampered[o] \cup {Absent}, Tamper(o, d)
  PROVE  JobInv'
<1>1. /\ UNCHANGED <<jpc, jdir, jpins, roots>> /\ acl \in [Objects -> Descriptor \cup {Absent}]
      /\ edited' = edited \cup {x \in Objects : acl'[x] # acl[x]}
      /\ part' = part \/ part' = "none"
  BY DEF Tamper, Inv, TypeOK
<1>2. ASSUME jpc \in {"create", "fetch", "rename"}
      PROVE  jdir \in Chain(jdir) /\ Pinned(jdir)
  <2>1. jdir \in Objects \ Files /\ jpins = Chain(jdir)
    BY <1>2 DEF JobInv
  <2>2. containsPath(jdir, jdir)
    BY <2>1, GateAssumption DEF containsPath
  <2> QED BY <2>1, <2>2 DEF Chain, Pinned
<1>3. CASE acl[o] # Absent /\ d # Absent /\ (d.intact = acl[o].intact \/ Empty(o))
  <2>1. acl' = [acl EXCEPT ![o] = d] /\ part' = part
    BY <1>3 DEF Tamper
  <2>2. ASSUME jpc = "rename", NEW x \in Chain(jdir)
        PROVE  acl'[x] # Absent /\ acl'[x].intact
    <3>1. CASE x # o
      BY <1>1, <2>1, <2>2, <3>1 DEF JobInv, Chain
    <3>2. CASE x = o
      <4>1. ~Empty(o)
        <5>1. part = "inside" /\ acl[jdir] # Absent /\ jdir \in Objects
          BY <1>2, <2>2 DEF JobInv
        <5>2. CASE o = jdir
          BY <5>1, <5>2 DEF Empty
        <5>3. CASE o # jdir
          <6>1. Below(o, jdir)
            BY <2>2, <3>2, <5>3 DEF Below, Chain
          <6> QED BY <5>1, <6>1 DEF Empty
        <5> QED BY <5>2, <5>3
      <4>2. acl[o].intact
        BY <2>2, <3>2 DEF JobInv
      <4> QED BY <1>1, <1>3, <2>1, <3>2, <4>1, <4>2
    <3> QED BY <3>1, <3>2
  <2>3. \A x \in Objects : x \in edited' \/ acl'[x] = acl[x]
    BY <1>1
  <2> QED BY <1>1, <2>1, <2>2, <2>3 DEF JobInv, Chain, Class
<1>4. CASE ~(acl[o] # Absent /\ d # Absent /\ (d.intact = acl[o].intact \/ Empty(o)))
  <2>1. /\ \A x \in Objects : containsPath(o, x) => ~Pinned(x)
        /\ acl' = [x \in Objects |-> IF x = o THEN d ELSE IF Below(o, x) THEN Absent ELSE acl[x]]
        /\ part' = IF part = "inside" /\ containsPath(o, jdir) THEN "none" ELSE part
    BY <1>4 DEF Tamper
  <2>2. ASSUME jpc \in {"create", "fetch", "rename"}
        PROVE  part' = part /\ \A x \in Chain(jdir) : acl'[x] = acl[x]
    <3>1. jdir \in Objects /\ ~containsPath(o, jdir)
      BY <1>2, <2>1, <2>2 DEF JobInv
    <3>2. ASSUME NEW x \in Chain(jdir) PROVE ~containsPath(o, x)
      <4>1. Len(o) \in Nat /\ Len(x) \in Nat /\ Len(jdir) \in Nat
        BY <3>1, GateAssumption DEF Chain
      <4> QED BY <3>1, <4>1, ContainsTransitive DEF Chain
    <3>3. containsPath(o, o)
      BY GateAssumption DEF containsPath
    <3> QED BY <2>1, <3>1, <3>2, <3>3 DEF Below, Chain
  <2> QED BY <1>1, <2>2 DEF JobInv, Chain, Class
<1> QED BY <1>3, <1>4

\* What a folder is that a look has found valid.
LEMMA ValidPath ==
  ASSUME NEW o \in Chain(jdir), validate(o)
  PROVE  /\ acl[o] # Absent /\ acl[o].intact
         /\ PrivateBoundary(jdir) /\ containsPath(RuntimeRoot, o) => Class(o) = "canonical"
<1>1. o \in Chain(o)
  BY GateAssumption DEF Chain, containsPath
<1> QED BY <1>1 DEF validate, Straight

\* The job looks before it creates and before it publishes.
LEMMA JobKeepsJob ==
  ASSUME Inv, JobInv,
         (\E d \in Destinations : JobStart(d)) \/ Job \/ JobTrouble
  PROVE  JobInv'
<1>1. CASE \E d \in Destinations : JobStart(d)
  <2>1. PICK d \in Destinations : JobStart(d)
    BY <1>1
  <2>2. roots \in AllowLists => d \in Objects \ Files
    BY <2>1, DestinationAssumption DEF JobStart
  <2> QED BY <2>1, <2>2 DEF JobStart, JobTo, JobInv
<1>2. CASE (\E o \in Objects : Pin(o)) \/ Held \/ JobTrouble
  <2>1. jpc' \in {"ensure", "hold", "temp", "idle"} /\ jdir' = jdir /\ roots' = roots /\ jpc # "idle"
    <3>1. CASE \E o \in Objects : Pin(o)
      BY <3>1 DEF Pin, JobFails
    <3>2. CASE Held \/ JobTrouble
      BY <3>2 DEF Held, JobTrouble, JobFails, JobTo
    <3> QED BY <1>2, <3>1, <3>2
  <2>2. part' \in {part, "none"}
    BY <1>2 DEF Pin, Held, JobTrouble, JobFails
  <2> QED BY <2>1, <2>2 DEF JobInv
<1>3. CASE CheckTemp \/ CreateTemp
  <2>1. /\ jdir' = jdir /\ roots' = roots /\ jpc \in {"temp", "create"}
        /\ \/ jpc' = "create" /\ jpins' = Chain(jdir) /\ part' = part
           \/ jpc' = "fetch" /\ jpins' = jpins /\ part' = "inside" /\ jpc = "create"
           \/ jpc' = "idle" /\ part' # "strayed"
    BY <1>3 DEF CheckTemp, LookAgain, CreateTemp, JobFails, JobTo, JobInv
  <2> QED BY <2>1 DEF JobInv, Chain
<1>4. CASE CheckPublish
  <2>1. CASE Valid
    <3>1. /\ jpc = "fetch" /\ jpc' = "rename" /\ jpins' = Chain(jdir)
          /\ UNCHANGED <<acl, jdir, part, roots>>
      BY <1>4, <2>1 DEF CheckPublish, LookAgain, JobTo
    <3>2. \A o \in Chain(jdir) :
            /\ acl[o] # Absent /\ acl[o].intact
            /\ PrivateBoundary(jdir) /\ containsPath(RuntimeRoot, o) => Class(o) = "canonical"
      BY <2>1, ValidPath DEF Valid
    <3> QED BY <3>1, <3>2 DEF JobInv, Chain, Class
  <2>2. CASE ~Valid
    BY <1>4, <2>2 DEF CheckPublish, LookAgain, JobFails, JobInv
  <2> QED BY <2>1, <2>2
<1>5. CASE Publish
  <2>1. \A o \in Chain(jdir) : acl[o] # Absent /\ acl[o].intact
    BY <1>5 DEF Publish, JobInv
  <2> QED BY <1>5, <2>1 DEF Publish, JobTo, Straight, JobInv
<1> QED BY <1>1, <1>2, <1>3, <1>4, <1>5 DEF Job

\* A download ends up in the directory that was checked, or nowhere; and when it is
\* about to, every folder of the private boundary is canonical or has been changed
\* since, for any set of objects and any sequence of changes (destination.go,
\* protectedpath/directory_windows.go).
THEOREM DownloadsLandWhereChecked == Spec => []LandsWhereChecked
<1>1. Init => JobInv
  BY DEF Init, JobInv
<1>2. Inv /\ JobInv /\ [Next]_vars => JobInv'
  <2>1. JobInv /\ UNCHANGED vars => JobInv'
    BY DEF JobInv, vars, job, Chain, Class
  <2> QED BY <2>1, GateKeepsJob, TamperKeepsJob, JobKeepsJob DEF Next
<1>3. JobInv => LandsWhereChecked
  BY DEF JobInv, LandsWhereChecked
<1> QED BY <1>1, <1>2, <1>3, SpecInv, PTL DEF Spec
=============================================================================
