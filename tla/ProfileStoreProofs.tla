------------------------- MODULE ProfileStoreProofs -------------------------
(***************************************************************************)
(* Proofs about ProfileStore, for any number of processes, profiles,       *)
(* credentials, keys and control planes.                                   *)
(***************************************************************************)
EXTENDS ProfileStore, FiniteSetTheorems, TLAPS

Locked == {"load", "check", "stat", "writekey", "assoc", "restore", "restored",
           "target", "rmkey", "clear", "save", "ok"}
Mutations == {"import", "init", "set", "remove", "unlink"}
SetSteps == {"prompt", "check", "stat", "writekey", "assoc", "restore", "restored"}
RemoveSteps == {"target", "rmkey", "clear"}

(***************************************************************************)
(* The inductive invariant.                                                *)
(***************************************************************************)
\* What a command's own arguments are at each of its steps.  This part speaks of
\* one process only and nothing another process does can change it.
ArgsOK(r) ==
    /\ r.pc = "load" => r.op \in {"import", "init"}
    /\ r.pc \in SetSteps => r.op = "set"
    /\ r.pc \in RemoveSteps => r.op \in {"remove", "unlink"}
    /\ r.pc \in {"lock", "save", "ok"} => r.op \in Mutations
    /\ r.pc \in {"readkey", "own", "connected"} => r.cred \in Creds
    /\ r.pc \in {"lock", "load", "save"} /\ r.op \in {"import", "init"} => r.prof \in Profiles
    /\ r.pc \in {"lock", "load", "save"} /\ r.op = "import" => r.plane \in Planes
    /\ r.op = "init" /\ ~r.force => r.seen = None
    /\ r.pc \in SetSteps \cup {"lock", "save"} /\ r.op = "set" =>
          r.prof \in Profiles /\ r.cred \in Creds /\ r.seen \in Planes
    /\ r.pc \in (SetSteps \ {"prompt"}) \cup {"lock", "save"} /\ r.op = "set" =>
          r.key \in Keys /\ Issuer[r.key] = r.seen
    /\ r.pc \in {"lock"} \cup RemoveSteps \cup {"save", "ok"} /\ r.op = "remove" => r.cred \in Creds
    /\ r.pc \in {"lock"} \cup RemoveSteps \cup {"save"} /\ r.op = "unlink" => r.prof \in Profiles
    /\ r.pc \in {"rmkey", "clear", "save"} /\ r.op = "unlink" => r.cred \in Creds
    /\ r.op \in {"import", "init", "set"} => r.left = {}
    /\ r.pc = "save" => r.data \in Files
    /\ r.late => r.op = "set" /\ r.pc \in {"restore", "restored"}
ArgsInv == \A x \in Procs : ArgsOK(proc[x])

\* locks/store.lock excludes: a process is at a step under the lock exactly when
\* it is the holder.
LockInv == \A x \in Procs : proc[x].pc \in Locked <=> lock = x

\* What is about to be saved is the store as it is now, but for one profile, and
\* of that one only what the command is about.
SaveOK(x) ==
    LET r == proc[x] IN
    r.pc = "save" => \E p \in Profiles :
        /\ \A q \in Profiles \ {p} : r.data[q] = profiles[q]
        /\ r.op \in {"import", "init"} =>
              /\ p = r.prof /\ r.data[p].plane = ControlURL(r)
              /\ r.data[p].cred = None \/ r.data[p] = profiles[p]
              /\ \/ r.data[p].cred = profiles[p].cred
                 \/ r.force /\ r.data[p].plane # profiles[p].plane
        /\ r.op = "set" => /\ p = r.prof
                           /\ r.data[p] = [plane |-> profiles[p].plane, cred |-> r.cred]
        /\ r.op \in {"remove", "unlink"} =>
              /\ r.data[p] = [plane |-> profiles[p].plane, cred |-> None]
              /\ profiles[p].cred = r.cred
        /\ r.op = "unlink" => p = r.prof

\* auth remove has still to clear exactly the references that are left; through a
\* profile, that profile's only, and the key stays while others use it.
RemoveOK(x) ==
    LET r == proc[x] IN
    /\ r.op = "remove" =>
         /\ r.pc \in {"rmkey", "clear"} => r.left = References(r.cred)
         /\ r.pc \in {"clear", "save", "ok"} => keys[r.cred] = None
         /\ r.pc = "save" => r.left = {q \in Profiles : r.data[q].cred = r.cred}
         /\ r.pc = "ok" => References(r.cred) = {}
    /\ r.op = "unlink" =>
         /\ r.pc \in {"rmkey", "clear", "save"} =>
              r.left \subseteq {r.prof} /\ profiles[r.prof].cred = r.cred
         /\ r.pc = "save" => r.left = {}
         /\ r.pc \in {"clear", "save"} /\ keys[r.cred] # None =>
              \E q \in Profiles \ {r.prof} : profiles[q].cred = r.cred

StoreInv ==
    /\ TypeOK /\ ArgsInv /\ LockInv
    /\ \A x \in Procs : SaveOK(x) /\ RemoveOK(x)

----------------------------------------------------------------------------
\* A process returns to the prompt, with nothing remembered.
LEMMA IdleOK == Idle \in Process /\ ArgsOK(Idle) /\ Idle.pc = "idle"
  BY DEF Idle, Nothing, Process, Steps, ArgsOK, SetSteps, RemoveSteps

\* Finish, of x: returning, failing or being killed.
LEMMA FinishKeeps ==
    ASSUME StoreInv, NEW x \in Procs, Finish(x)
    PROVE  proc' \in [Procs -> Process] /\ lock' \in Procs \cup {None} /\ ArgsInv' /\ LockInv'
<1>1. proc' \in [Procs -> Process] /\ lock' \in Procs \cup {None}
  BY IdleOK DEF StoreInv, TypeOK, Finish
<1>2. ArgsInv'
  BY IdleOK DEF StoreInv, TypeOK, Finish, ArgsInv
<1>3. LockInv'
  BY IdleOK, NamesAssumption DEF StoreInv, TypeOK, Finish, LockInv, Locked
<1> QED
  BY <1>1, <1>2, <1>3

\* A command before the lock has read the store, at most, and remembers what it
\* was given.
Begun(x) ==
    /\ UNCHANGED <<profiles, keys, lock>>
    /\ \E r \in Process : /\ ArgsOK(r) /\ r.pc \in {"lock", "prompt", "readkey"}
                          /\ proc' = [proc EXCEPT ![x] = r]

\* import, init, auth set, auth remove (both forms) and connect begin.
LEMMA StartArgs ==
    ASSUME StoreInv, NEW x \in Procs, Start(x)
    PROVE  Begun(x)
<1>0. profiles \in Files
  BY DEF StoreInv, TypeOK
<1>1. ASSUME NEW p \in Profiles, NEW plane \in Planes, NEW force \in BOOLEAN,
             StartImport(x, p, plane, force)
      PROVE  Begun(x)
  <2> DEFINE r == [Idle EXCEPT !.pc = "lock", !.op = "import", !.prof = p,
                               !.plane = plane, !.force = force]
  <2>1. r \in Process /\ ArgsOK(r) /\ r.pc = "lock"
    BY DEF Idle, Nothing, Process, Steps, AllCommands, ArgsOK, SetSteps, RemoveSteps, Mutations
  <2> QED
    BY <1>1, <2>1 DEF StartImport, Begun
<1>2. ASSUME NEW p \in Profiles, NEW given \in Planes \cup {None}, NEW force \in BOOLEAN,
             InitReads(x, p, given, force)
      PROVE  Begun(x)
  <2>1. PICK read \in Planes \cup {None} : read = profiles[p].plane /\ (force \/ read = None)
    BY <1>0, <1>2 DEF InitReads, Files, Entry, Exists
  <2> DEFINE r == [Idle EXCEPT !.pc = "lock", !.op = "init", !.prof = p,
                               !.force = force, !.plane = given, !.seen = read]
  <2>2. r \in Process /\ ArgsOK(r) /\ r.pc = "lock"
    BY <2>1 DEF Idle, Nothing, Process, Steps, AllCommands, ArgsOK, SetSteps, RemoveSteps, Mutations
  <2> QED
    BY <1>2, <2>1, <2>2 DEF InitReads, Begun
<1>3. ASSUME NEW p \in Profiles, NEW c \in Creds, NEW force \in BOOLEAN, SetReads(x, p, c, force)
      PROVE  Begun(x)
  <2>1. PICK plane \in Planes : plane = profiles[p].plane
    BY <1>0, <1>3 DEF SetReads, Files, Entry, Exists
  <2> DEFINE r == [Idle EXCEPT !.pc = "prompt", !.op = "set", !.prof = p, !.cred = c,
                               !.force = force, !.seen = plane]
  <2>2. r \in Process /\ ArgsOK(r) /\ r.pc = "prompt"
    BY DEF Idle, Nothing, Process, Steps, AllCommands, ArgsOK, SetSteps, RemoveSteps, Mutations
  <2> QED
    BY <1>3, <2>1, <2>2 DEF SetReads, Begun
<1>4. ASSUME NEW c \in Creds, NEW force \in BOOLEAN, StartRemove(x, c, force)
      PROVE  Begun(x)
  <2> DEFINE r == [Idle EXCEPT !.pc = "lock", !.op = "remove", !.cred = c, !.force = force]
  <2>1. r \in Process /\ ArgsOK(r) /\ r.pc = "lock"
    BY DEF Idle, Nothing, Process, Steps, AllCommands, ArgsOK, SetSteps, RemoveSteps, Mutations
  <2> QED
    BY <1>4, <2>1 DEF StartRemove, Begun
<1>5. ASSUME NEW p \in Profiles, StartUnlink(x, p)
      PROVE  Begun(x)
  <2> DEFINE r == [Idle EXCEPT !.pc = "lock", !.op = "unlink", !.prof = p]
  <2>1. r \in Process /\ ArgsOK(r) /\ r.pc = "lock"
    BY DEF Idle, Nothing, Process, Steps, AllCommands, ArgsOK, SetSteps, RemoveSteps, Mutations
  <2> QED
    BY <1>5, <2>1 DEF StartUnlink, Begun
<1>6. ASSUME NEW p \in Profiles, NEW over \in Planes \cup {None}, ConnectReads(x, p, over)
      PROVE  Begun(x)
  <2>1. PICK e \in Entry : e = profiles[p] /\ e.cred \in Creds
    BY <1>0, <1>6 DEF ConnectReads, Files, Entry
  <2> DEFINE r == [Idle EXCEPT !.pc = "readkey", !.op = "connect", !.prof = p,
                               !.cred = e.cred, !.seen = e.plane]
  <2>2. r \in Process /\ ArgsOK(r) /\ r.pc = "readkey"
    BY <2>1 DEF Idle, Nothing, Process, Steps, AllCommands, ArgsOK, SetSteps, RemoveSteps,
                Mutations, Entry
  <2> QED
    BY <1>6, <2>1, <2>2 DEF ConnectReads, Begun
<1> QED
  BY <1>1, <1>2, <1>3, <1>4, <1>5, <1>6 DEF Start

----------------------------------------------------------------------------
(***************************************************************************)
(* Four shapes of step.  What a process remembers of the stores binds the  *)
(* lock holder only, and only the holder changes the stores.               *)
(***************************************************************************)
\* A process that is not under the lock, and stays outside, disturbs nobody.
LEMMA FreeStep ==
    ASSUME StoreInv, NEW x \in Procs, NEW r \in Process, ArgsOK(r),
           proc' = [proc EXCEPT ![x] = r],
           proc[x].pc \notin Locked, r.pc \notin Locked,
           UNCHANGED <<profiles, keys, lock>>
    PROVE  StoreInv'
<1>1. TypeOK' /\ ArgsInv' /\ LockInv'
  BY DEF StoreInv, TypeOK, ArgsInv, LockInv
<1>2. ASSUME NEW y \in Procs PROVE SaveOK(y)' /\ RemoveOK(y)'
  <2>1. CASE y = x
    BY <2>1 DEF StoreInv, TypeOK, SaveOK, RemoveOK, Locked
  <2>2. CASE y # x
    BY <2>2 DEF StoreInv, TypeOK, SaveOK, RemoveOK, References
  <2> QED
    BY <2>1, <2>2
<1> QED
  BY <1>1, <1>2 DEF StoreInv

\* The lock is granted when nobody holds it.
LEMMA LockStep ==
    ASSUME StoreInv, NEW x \in Procs, LockStore(x)
    PROVE  StoreInv'
<1> DEFINE r == [proc[x] EXCEPT !.pc = FirstStep(proc[x].op)]
<1>0. proc[x] \in Process /\ ArgsOK(proc[x]) /\ proc[x].op \in Mutations
  BY DEF StoreInv, TypeOK, ArgsInv, ArgsOK, LockStore, At
<1>1. FirstStep(proc[x].op) \in {"load", "check", "target"}
  BY <1>0 DEF FirstStep, Mutations
<1>2. r \in Process
  BY <1>0, <1>1 DEF Process, Steps
<1>3. ArgsOK(r)
  BY <1>0, <1>1 DEF ArgsOK, Process, LockStore, At, FirstStep, SetSteps, RemoveSteps, Mutations
<1>4. proc' = [proc EXCEPT ![x] = r] /\ lock = None /\ lock' = x /\ UNCHANGED <<profiles, keys>>
  BY DEF LockStore, Goto
<1>5. \A y \in Procs : proc[y].pc \notin Locked
  BY <1>4, NamesAssumption DEF StoreInv, LockInv
<1>6. r.pc \in {"load", "check", "target"}
  BY <1>0, <1>1 DEF Process
<1> HIDE DEF r
<1>7. TypeOK' /\ ArgsInv'
  BY <1>2, <1>3, <1>4 DEF StoreInv, TypeOK, ArgsInv
<1>8. LockInv'
  BY <1>2, <1>4, <1>5, <1>6 DEF StoreInv, TypeOK, LockInv, Locked
<1>9. ASSUME NEW y \in Procs PROVE SaveOK(y)' /\ RemoveOK(y)'
  <2>1. proc'[y].pc \notin {"save", "rmkey", "clear", "ok"}
    BY <1>2, <1>4, <1>5, <1>6 DEF StoreInv, TypeOK, Locked
  <2> QED
    BY <2>1 DEF SaveOK, RemoveOK
<1> QED
  BY <1>7, <1>8, <1>9 DEF StoreInv

\* A step of the lock holder: nobody else remembers anything of the stores.
LEMMA HolderStep ==
    ASSUME StoreInv, NEW x \in Procs, NEW r \in Process, ArgsOK(r),
           proc' = [proc EXCEPT ![x] = r],
           proc[x].pc \in Locked, r.pc \in Locked, UNCHANGED lock,
           profiles' \in Files, keys' \in [Creds -> Keys \cup {None}],
           SaveOK(x)', RemoveOK(x)'
    PROVE  StoreInv'
<1>1. TypeOK' /\ ArgsInv' /\ LockInv'
  BY DEF StoreInv, TypeOK, ArgsInv, LockInv
<1>2. ASSUME NEW y \in Procs, y # x PROVE SaveOK(y)' /\ RemoveOK(y)'
  <2>1. proc'[y].pc \notin Locked
    BY <1>2 DEF StoreInv, TypeOK, LockInv
  <2> QED
    BY <2>1 DEF SaveOK, RemoveOK, Locked
<1> QED
  BY <1>1, <1>2 DEF StoreInv

\* A command returns, fails or is killed: outside the lock without a change of
\* the stores, or under it.
LEMMA FinishStep ==
    ASSUME StoreInv, NEW x \in Procs, Finish(x),
           proc[x].pc \in Locked \/ UNCHANGED <<profiles, keys>>,
           profiles' \in Files, keys' \in [Creds -> Keys \cup {None}]
    PROVE  StoreInv'
<1>1. TypeOK' /\ ArgsInv' /\ LockInv'
  BY FinishKeeps DEF TypeOK
<1>2. ASSUME NEW y \in Procs PROVE SaveOK(y)' /\ RemoveOK(y)'
  <2>1. CASE y = x
    <3>1. proc'[y].pc = "idle"
      BY <2>1, IdleOK DEF Finish, StoreInv, TypeOK
    <3> QED
      BY <3>1 DEF SaveOK, RemoveOK
  <2>2. CASE y # x /\ proc[x].pc \in Locked
    <3>1. proc'[y].pc \notin Locked
      BY <2>2 DEF Finish, StoreInv, TypeOK, LockInv
    <3> QED
      BY <3>1 DEF SaveOK, RemoveOK, Locked
  <2>3. CASE y # x /\ UNCHANGED <<profiles, keys>>
    <3>1. proc'[y] = proc[y]
      BY <2>3 DEF Finish, StoreInv, TypeOK
    <3> QED
      BY <2>3, <3>1 DEF StoreInv, SaveOK, RemoveOK, References
  <2> QED
    BY <2>1, <2>2, <2>3
<1> QED
  BY <1>1, <1>2 DEF StoreInv

----------------------------------------------------------------------------
\* Every way a command ends, with the stores as they are: an error before the
\* first write, the release of the lock, a lost race for it, a kill.
LEMMA EndKeepsStore ==
    ASSUME StoreInv, NEW x \in Procs,
           \/ StoreBusy(x) \/ ReadFails(x) \/ MoveRefused(x) \/ BindRefused(x)
           \/ CredentialExists(x) \/ RemovalRefused(x) \/ RemoveKeyFails(x) \/ Unlock(x)
           \/ LoadKeyFails(x) \/ ProfileInUse(x) \/ Disconnect(x) \/ Crash(x)
    PROVE  StoreInv'
<1>1. Finish(x) /\ UNCHANGED <<profiles, keys>>
  BY DEF StoreBusy, ReadFails, MoveRefused, BindRefused, CredentialExists, RemovalRefused,
         RemoveKeyFails, Unlock, LoadKeyFails, ProfileInUse, Disconnect, Crash
<1>2. profiles' \in Files /\ keys' \in [Creds -> Keys \cup {None}]
  BY <1>1 DEF StoreInv, TypeOK
<1> QED
  BY <1>1, <1>2, FinishStep

\* A command outside the lock goes on: it begins, its user types a key, connect
\* reads the key and takes the profile's own lock.
LEMMA OutsideKeepsStore ==
    ASSUME StoreInv, NEW x \in Procs,
           Start(x) \/ (\E k \in Keys : KeyTyped(x, k)) \/ LoadKey(x) \/ OwnProfile(x)
    PROVE  StoreInv'
<1>0. proc[x] \in Process /\ ArgsOK(proc[x])
  BY DEF StoreInv, TypeOK, ArgsInv
<1>1. CASE Start(x)
  <2>1. Begun(x)
    BY <1>1, StartArgs
  <2>2. proc[x].pc = "idle"
    BY <1>1 DEF Start, StartImport, InitReads, SetReads, StartRemove, StartUnlink, ConnectReads, At
  <2> QED
    BY <2>1, <2>2, FreeStep DEF Begun, Locked
<1>2. ASSUME NEW k \in Keys, KeyTyped(x, k) PROVE StoreInv'
  <2> DEFINE r == [proc[x] EXCEPT !.key = k, !.pc = "lock"]
  <2>1. r \in Process /\ r.pc = "lock"
    BY <1>0 DEF Process, Steps
  <2>2. ArgsOK(r)
    BY <1>0, <1>2 DEF KeyTyped, At, ArgsOK, Process, SetSteps, RemoveSteps, Mutations
  <2>3. proc' = [proc EXCEPT ![x] = r] /\ UNCHANGED <<profiles, keys, lock>>
    BY <1>2 DEF KeyTyped, StoreInv, TypeOK
  <2> QED
    BY <1>2, <2>1, <2>2, <2>3, FreeStep DEF KeyTyped, At, Locked
<1>3. CASE LoadKey(x)
  <2> DEFINE r == [proc[x] EXCEPT !.key = keys[proc[x].cred], !.pc = "own"]
  <2>1. r \in Process /\ r.pc = "own"
    BY <1>0, <1>3 DEF LoadKey, At, ArgsOK, StoreInv, TypeOK, Process, Steps
  <2>2. ArgsOK(r)
    BY <1>0, <1>3 DEF LoadKey, At, ArgsOK, Process, SetSteps, RemoveSteps, Mutations
  <2>3. proc' = [proc EXCEPT ![x] = r] /\ UNCHANGED <<profiles, keys, lock>>
    BY <1>3 DEF LoadKey, StoreInv, TypeOK
  <2> QED
    BY <1>3, <2>1, <2>2, <2>3, FreeStep DEF LoadKey, At, Locked
<1>4. CASE OwnProfile(x)
  <2> DEFINE r == [proc[x] EXCEPT !.pc = "connected"]
  <2>1. r \in Process /\ r.pc = "connected"
    BY <1>0 DEF Process, Steps
  <2>2. ArgsOK(r)
    BY <1>0, <1>4 DEF OwnProfile, At, ArgsOK, Process, SetSteps, RemoveSteps, Mutations
  <2>3. proc' = [proc EXCEPT ![x] = r] /\ UNCHANGED <<profiles, keys, lock>>
    BY <1>4 DEF OwnProfile, Goto, StoreInv, TypeOK
  <2> QED
    BY <1>4, <2>1, <2>2, <2>3, FreeStep DEF OwnProfile, At, Locked
<1> QED
  BY <1>1, <1>2, <1>3, <1>4

\* importEntry and setEntry: one profile is rewritten, and keeps its credential
\* only on the plane it was bound on.
LEMMA LoadKeepsStore ==
    ASSUME StoreInv, NEW x \in Procs, Load(x)
    PROVE  StoreInv'
<1> DEFINE p == proc[x].prof
           u == ControlURL(proc[x])
           e == [plane |-> u, cred |-> IF Keeps(p, u) THEN profiles[p].cred ELSE None]
           d == [profiles EXCEPT ![p] = e]
           r == [proc[x] EXCEPT !.data = d, !.pc = "save"]
<1>0. /\ proc[x] \in Process /\ ArgsOK(proc[x]) /\ proc[x].pc = "load" /\ profiles \in Files
      /\ UNCHANGED <<profiles, keys, lock>>
  BY DEF StoreInv, TypeOK, ArgsInv, Load, At
<1>1. p \in Profiles /\ u \in Planes /\ proc[x].op \in {"import", "init"}
  BY <1>0, PlanesAssumption DEF ArgsOK, ControlURL, Process
<1>2. d \in Files /\ e.cred \in {None, profiles[p].cred}
  BY <1>0, <1>1 DEF Files, Entry
<1>3. /\ d[p].plane = u /\ (d[p].cred = None \/ d[p] = profiles[p])
      /\ d[p].cred = profiles[p].cred \/ (proc[x].force /\ d[p].plane # profiles[p].plane)
      /\ \A q \in Profiles \ {p} : d[q] = profiles[q]
  <2>1. Keeps(p, u) \/ proc[x].force
    BY DEF Load
  <2> HIDE DEF u
  <2> QED
    BY <1>0, <1>1, <2>1 DEF Files, Entry, Keeps
<1>4. proc' = [proc EXCEPT ![x] = r]
  BY DEF Load, StoreInv, TypeOK
<1> HIDE DEF d
<1>5. /\ r \in Process /\ r.pc = "save" /\ r.data = d /\ r.op = proc[x].op
      /\ r.prof = p /\ r.force = proc[x].force /\ ControlURL(r) = u
  BY <1>0, <1>2, ZenonT(60) DEF Process, Steps, ControlURL
<1>6. ArgsOK(r)
  BY <1>0, <1>1, <1>2 DEF ArgsOK, Process, SetSteps, RemoveSteps, Mutations
<1>7. proc'[x] = r
  BY <1>4 DEF StoreInv, TypeOK
<1> HIDE DEF r
<1>8. SaveOK(x)' /\ RemoveOK(x)'
  BY <1>0, <1>1, <1>3, <1>5, <1>7 DEF SaveOK, RemoveOK
<1> QED
  BY <1>0, <1>4, <1>5, <1>6, <1>8, HolderStep DEF Locked, StoreInv, TypeOK

\* BindCredential up to the key and through its rollback: the profiles stay as
\* they are.
LEMMA BindKeepsStore ==
    ASSUME StoreInv, NEW x \in Procs,
           \/ BindChecks(x) \/ StatKey(x) \/ WriteKey(x) \/ AssociateFails(x) \/ Restore(x)
    PROVE  StoreInv'
<1>0. /\ proc[x] \in Process /\ ArgsOK(proc[x]) /\ proc[x].op = "set"
      /\ proc[x].pc \in SetSteps \ {"prompt"}
      /\ profiles \in Files /\ keys \in [Creds -> Keys \cup {None}]
      /\ UNCHANGED <<profiles, lock>>
  BY DEF StoreInv, TypeOK, ArgsInv, ArgsOK, BindChecks, StatKey, WriteKey, AssociateFails,
         Restore, At, SetSteps
<1>1. proc[x].cred \in Creds /\ proc[x].key \in Keys /\ proc[x].was.key \in Keys \cup {None}
  BY <1>0 DEF ArgsOK, Process
<1>2. keys' \in [Creds -> Keys \cup {None}]
  BY <1>0, <1>1 DEF BindChecks, StatKey, WriteKey, AssociateFails, Restore
<1>3. PICK r \in Process : /\ proc' = [proc EXCEPT ![x] = r]
                           /\ r.pc \in SetSteps \ {"prompt"}
                           /\ r.op = proc[x].op /\ r.prof = proc[x].prof
                           /\ r.cred = proc[x].cred /\ r.seen = proc[x].seen
                           /\ r.key = proc[x].key /\ r.left = proc[x].left
                           /\ r.late => r.pc \in {"restore", "restored"}
  <2>1. CASE BindChecks(x)
    <3> DEFINE w == [key |-> keys[proc[x].cred], refs |-> References(proc[x].cred)]
               r == [proc[x] EXCEPT !.was = w, !.pc = "stat"]
    <3>1. w \in [key : Keys \cup {None}, refs : SUBSET Profiles]
      BY <1>0, <1>1 DEF References
    <3>2. proc' = [proc EXCEPT ![x] = r]
      BY <2>1 DEF BindChecks, StoreInv, TypeOK
    <3>3. ~proc[x].late
      BY <1>0, <2>1 DEF BindChecks, At, ArgsOK
    <3> HIDE DEF w
    <3>4. r \in Process
      BY <1>0, <3>1 DEF Process, Steps
    <3>5. /\ r.pc = "stat" /\ r.op = proc[x].op /\ r.prof = proc[x].prof
          /\ r.cred = proc[x].cred /\ r.seen = proc[x].seen /\ r.key = proc[x].key
          /\ r.left = proc[x].left /\ r.late = proc[x].late
      BY <1>0 DEF Process
    <3> QED
      BY <3>2, <3>3, <3>4, <3>5 DEF SetSteps
  <2>2. CASE ~BindChecks(x)
    <3>1. PICK to \in SetSteps \ {"prompt"} :
            /\ proc' = [proc EXCEPT ![x].pc = to]
            /\ proc[x].late => to \in {"restore", "restored"}
      BY <1>0, <2>2 DEF StatKey, WriteKey, AssociateFails, Restore, At, Goto, SetSteps, ArgsOK
    <3> DEFINE r == [proc[x] EXCEPT !.pc = to]
    <3>2. /\ r \in Process /\ r.pc = to
          /\ r.op = proc[x].op /\ r.prof = proc[x].prof /\ r.cred = proc[x].cred
          /\ r.seen = proc[x].seen /\ r.key = proc[x].key /\ r.left = proc[x].left
          /\ r.late = proc[x].late
      BY <1>0 DEF Process, Steps, SetSteps
    <3>3. proc' = [proc EXCEPT ![x] = r]
      BY <3>1 DEF StoreInv, TypeOK
    <3> QED
      BY <3>1, <3>2, <3>3
  <2> QED
    BY <2>1, <2>2
<1>4. ArgsOK(r) /\ r.op = "set"
  BY <1>0, <1>1, <1>3 DEF ArgsOK, Process, SetSteps, RemoveSteps, Mutations
<1>5. proc'[x] = r
  BY <1>3 DEF StoreInv, TypeOK
<1>6. SaveOK(x)' /\ RemoveOK(x)'
  BY <1>3, <1>4, <1>5 DEF SaveOK, RemoveOK, SetSteps
<1> QED
  BY <1>0, <1>2, <1>3, <1>4, <1>6, HolderStep DEF Locked, SetSteps

\* associate: the profile gets the reference, nothing else changes.
LEMMA AssociateKeepsStore ==
    ASSUME StoreInv, NEW x \in Procs, Associate(x)
    PROVE  StoreInv'
<1> DEFINE p == proc[x].prof
           d == [profiles EXCEPT ![p].cred = proc[x].cred]
           r == [proc[x] EXCEPT !.data = d, !.pc = "save"]
<1>0. /\ proc[x] \in Process /\ ArgsOK(proc[x]) /\ proc[x].pc = "assoc" /\ profiles \in Files
      /\ UNCHANGED <<profiles, keys, lock>>
  BY DEF StoreInv, TypeOK, ArgsInv, Associate, At
<1>1. p \in Profiles /\ proc[x].cred \in Creds /\ proc[x].op = "set"
  BY <1>0 DEF ArgsOK, SetSteps
<1>2. /\ d \in Files /\ d[p] = [plane |-> profiles[p].plane, cred |-> proc[x].cred]
      /\ \A q \in Profiles \ {p} : d[q] = profiles[q]
  BY <1>0, <1>1 DEF Files, Entry
<1>3. proc' = [proc EXCEPT ![x] = r]
  BY DEF Associate, StoreInv, TypeOK
<1> HIDE DEF d
<1>4. /\ r \in Process /\ r.pc = "save" /\ r.data = d /\ r.op = proc[x].op
      /\ r.prof = p /\ r.cred = proc[x].cred
  BY <1>0, <1>2, ZenonT(60) DEF Process, Steps
<1>5. ArgsOK(r)
  BY <1>0, <1>1, <1>2 DEF ArgsOK, Process, SetSteps, RemoveSteps, Mutations
<1>6. proc'[x] = r
  BY <1>3 DEF StoreInv, TypeOK
<1> HIDE DEF r
<1>7. SaveOK(x)' /\ RemoveOK(x)'
  BY <1>0, <1>1, <1>2, <1>4, <1>6 DEF SaveOK, RemoveOK
<1> QED
  BY <1>0, <1>3, <1>4, <1>5, <1>7, HolderStep DEF Locked, StoreInv, TypeOK

\* A key that could not be written or restored: the command ends, the key may
\* have been replaced all the same.
LEMMA KeyFailureKeepsStore ==
    ASSUME StoreInv, NEW x \in Procs, WriteKeyFails(x) \/ RestoreFails(x)
    PROVE  StoreInv'
<1>1. /\ proc[x] \in Process /\ ArgsOK(proc[x]) /\ proc[x].pc \in {"writekey", "restore"}
      /\ Finish(x) /\ UNCHANGED profiles
  BY DEF StoreInv, TypeOK, ArgsInv, WriteKeyFails, RestoreFails, At
<1>2. proc[x].cred \in Creds /\ proc[x].key \in Keys /\ proc[x].was.key \in Keys \cup {None}
  BY <1>1 DEF ArgsOK, Process, SetSteps
<1>3. profiles' \in Files /\ keys' \in [Creds -> Keys \cup {None}]
  BY <1>1, <1>2 DEF StoreInv, TypeOK, WriteKeyFails, RestoreFails
<1> QED
  BY <1>1, <1>3, FinishStep DEF Locked

\* removalTarget and removeReferenced: through a profile whose credential others
\* use, the profile is unlinked and the key stays.
LEMMA DecisionKeepsStore ==
    ASSUME StoreInv, NEW x \in Procs, RemovalDecides(x)
    PROVE  StoreInv'
<1> DEFINE c == Target(x)
           refs == References(c)
           byProfile == proc[x].op = "unlink"
           gone == IF byProfile THEN {proc[x].prof} ELSE refs
           to == IF byProfile /\ Cardinality(refs) > 1 THEN "clear" ELSE "rmkey"
           r == [proc[x] EXCEPT !.cred = c, !.left = gone, !.pc = to]
<1>0. /\ proc[x] \in Process /\ ArgsOK(proc[x]) /\ proc[x].pc = "target" /\ profiles \in Files
      /\ UNCHANGED <<profiles, keys, lock>> /\ c # None
  BY DEF StoreInv, TypeOK, ArgsInv, RemovalDecides, At
<1>1. /\ proc[x].op \in {"remove", "unlink"}
      /\ byProfile => proc[x].prof \in Profiles
      /\ byProfile => profiles[proc[x].prof].cred = c
      /\ c \in Creds
  BY <1>0 DEF ArgsOK, RemoveSteps, Target, Files, Entry
<1>2. gone \in SUBSET Profiles /\ to \in {"clear", "rmkey"}
  BY <1>1 DEF References
<1>3. to = "clear" => byProfile /\ \E q \in Profiles \ {proc[x].prof} : profiles[q].cred = c
  <2> SUFFICES ASSUME to = "clear", \A q \in Profiles \ {proc[x].prof} : profiles[q].cred # c
               PROVE  FALSE
    OBVIOUS
  <2>1. byProfile /\ Cardinality(refs) > 1
    OBVIOUS
  <2>2. refs = {} \/ refs = {proc[x].prof}
    BY DEF References
  <2>3. Cardinality({}) = 0 /\ Cardinality({proc[x].prof}) = 1
    BY FS_EmptySet, FS_Singleton
  <2>4. Cardinality(refs) \in {0, 1}
    BY <2>2, <2>3
  <2> HIDE DEF refs
  <2> QED
    BY <2>1, <2>4
<1>4. proc' = [proc EXCEPT ![x] = r]
  BY DEF RemovalDecides, StoreInv, TypeOK
<1> HIDE DEF c, to, gone
<1>5. /\ r \in Process /\ r.pc = to /\ r.op = proc[x].op /\ r.cred = c /\ r.left = gone
      /\ r.prof = proc[x].prof
  BY <1>0, <1>1, <1>2, ZenonT(60) DEF Process, Steps
<1>6. ArgsOK(r)
  BY <1>0, <1>1, <1>2 DEF ArgsOK, Process, SetSteps, RemoveSteps, Mutations
<1>7. proc'[x] = r
  BY <1>4 DEF StoreInv, TypeOK
<1> HIDE DEF r
<1>8. gone = IF byProfile THEN {proc[x].prof} ELSE References(c)
  BY DEF gone, c
<1>9. SaveOK(x)' /\ RemoveOK(x)'
  BY <1>0, <1>1, <1>2, <1>3, <1>5, <1>7, <1>8 DEF SaveOK, RemoveOK, References
<1> QED
  BY <1>0, <1>2, <1>4, <1>5, <1>6, <1>9, HolderStep DEF Locked, StoreInv, TypeOK

\* removeKey, before any reference is cleared.
LEMMA RemoveKeyKeepsStore ==
    ASSUME StoreInv, NEW x \in Procs, RemoveKey(x)
    PROVE  StoreInv'
<1> DEFINE to == AfterSave(x)
           r == [proc[x] EXCEPT !.pc = to]
<1>0. /\ proc[x] \in Process /\ ArgsOK(proc[x]) /\ proc[x].pc = "rmkey"
      /\ keys \in [Creds -> Keys \cup {None}] /\ RemoveOK(x)
      /\ UNCHANGED <<profiles, lock>> /\ keys' = [keys EXCEPT ![proc[x].cred] = None]
  BY DEF StoreInv, TypeOK, ArgsInv, RemoveKey, At
<1>1. proc[x].op \in {"remove", "unlink"} /\ proc[x].cred \in Creds
  BY <1>0 DEF ArgsOK, RemoveSteps
<1>2. keys' \in [Creds -> Keys \cup {None}] /\ keys'[proc[x].cred] = None
  BY <1>0, <1>1
<1>3. to = IF proc[x].left # {} THEN "clear" ELSE "ok"
  BY DEF AfterSave
<1>4. proc' = [proc EXCEPT ![x] = r]
  BY DEF RemoveKey, Goto, StoreInv, TypeOK
<1> HIDE DEF to
<1>5. /\ r \in Process /\ r.pc = to /\ r.op = proc[x].op /\ r.cred = proc[x].cred
      /\ r.left = proc[x].left /\ r.prof = proc[x].prof
  BY <1>0, <1>3 DEF Process, Steps
<1>6. ArgsOK(r)
  BY <1>0, <1>1, <1>3 DEF ArgsOK, Process, SetSteps, RemoveSteps, Mutations
<1>7. proc'[x] = r
  BY <1>4 DEF StoreInv, TypeOK
<1> HIDE DEF r
<1>8. SaveOK(x)' /\ RemoveOK(x)'
  BY <1>0, <1>1, <1>2, <1>3, <1>5, <1>7 DEF SaveOK, RemoveOK, References
<1> QED
  BY <1>0, <1>2, <1>3, <1>4, <1>5, <1>6, <1>8, HolderStep DEF Locked, StoreInv, TypeOK

\* ClearCredential of the next reference.
LEMMA ClearKeepsStore ==
    ASSUME StoreInv, NEW x \in Procs, Clear(x)
    PROVE  StoreInv'
<1>0. /\ proc[x] \in Process /\ ArgsOK(proc[x]) /\ proc[x].pc = "clear" /\ profiles \in Files
      /\ RemoveOK(x) /\ UNCHANGED <<profiles, keys, lock>>
  BY DEF StoreInv, TypeOK, ArgsInv, Clear, At
<1>1. PICK p \in proc[x].left :
        proc' = [proc EXCEPT ![x].data = [profiles EXCEPT ![p].cred = None],
                             ![x].left = @ \ {p}, ![x].pc = "save"]
  BY DEF Clear
<1> DEFINE d == [profiles EXCEPT ![p].cred = None]
           rest == proc[x].left \ {p}
           r == [proc[x] EXCEPT !.data = d, !.left = rest, !.pc = "save"]
<1>2. /\ p \in Profiles /\ proc[x].op \in {"remove", "unlink"} /\ proc[x].cred \in Creds
      /\ rest \in SUBSET Profiles
  BY <1>0 DEF ArgsOK, Process, RemoveSteps
<1>3. /\ d \in Files /\ d[p] = [plane |-> profiles[p].plane, cred |-> None]
      /\ \A q \in Profiles \ {p} : d[q] = profiles[q]
  BY <1>0, <1>2 DEF Files, Entry
<1>4. proc' = [proc EXCEPT ![x] = r]
  BY <1>1 DEF StoreInv, TypeOK
<1> HIDE DEF d, rest
<1>5. /\ r \in Process /\ r.pc = "save" /\ r.op = proc[x].op /\ r.cred = proc[x].cred
      /\ r.left = rest /\ r.prof = proc[x].prof /\ r.data = d
  <2>1. "save" \in Steps /\ rest \in SUBSET Profiles /\ d \in Files \cup {None}
    BY <1>2, <1>3 DEF Steps
  <2>2. r \in Process
    BY <1>0, <2>1 DEF Process
  <2> QED
    BY <1>0, <2>2 DEF Process
<1>6. ArgsOK(r)
  BY <1>0, <1>2, <1>3 DEF ArgsOK, Process, SetSteps, RemoveSteps, Mutations
<1>7. proc'[x] = r
  BY <1>4 DEF StoreInv, TypeOK
<1> HIDE DEF r
<1>10. profiles[p].cred = proc[x].cred
  BY <1>0, <1>2 DEF RemoveOK, References
<1>8. SaveOK(x)'
  BY <1>0, <1>2, <1>3, <1>5, <1>7, <1>10 DEF SaveOK, RemoveOK
<1>9. RemoveOK(x)'
  BY <1>0, <1>2, <1>3, <1>5, <1>7, NamesAssumption DEF RemoveOK, References, rest
<1> QED
  BY <1>0, <1>4, <1>5, <1>6, <1>8, <1>9, HolderStep DEF Locked, StoreInv, TypeOK

\* save: the store becomes what was prepared; auth remove goes on to the next
\* reference.
LEMMA SaveKeepsStore ==
    ASSUME StoreInv, NEW x \in Procs, Save(x)
    PROVE  StoreInv'
<1> DEFINE to == AfterSave(x)
           r == [proc[x] EXCEPT !.data = None, !.pc = to]
<1>0. /\ proc[x] \in Process /\ ArgsOK(proc[x]) /\ proc[x].pc = "save"
      /\ SaveOK(x) /\ RemoveOK(x)
      /\ UNCHANGED <<keys, lock>> /\ profiles' = proc[x].data
  BY DEF StoreInv, TypeOK, ArgsInv, Save, At
<1>1. proc[x].op \in Mutations /\ proc[x].data \in Files
  BY <1>0 DEF ArgsOK
<1>2. to = (IF proc[x].left # {} THEN "clear" ELSE "ok") /\ to \in Steps
  BY DEF AfterSave, Steps
<1>3. proc' = [proc EXCEPT ![x] = r]
  BY DEF Save, StoreInv, TypeOK
<1> HIDE DEF to
<1>4. /\ r \in Process /\ r.pc = to /\ r.op = proc[x].op /\ r.cred = proc[x].cred
      /\ r.left = proc[x].left /\ r.prof = proc[x].prof
  BY <1>0, <1>2, ZenonT(60) DEF Process
<1>5. ArgsOK(r)
  BY <1>0, <1>1, <1>2 DEF ArgsOK, Process, SetSteps, RemoveSteps, Mutations
<1>6. proc'[x] = r
  BY <1>3 DEF StoreInv, TypeOK
<1> HIDE DEF r
<1>7. SaveOK(x)' /\ RemoveOK(x)'
  BY <1>0, <1>1, <1>2, <1>4, <1>6 DEF SaveOK, RemoveOK, References
<1> QED
  BY <1>0, <1>1, <1>2, <1>3, <1>4, <1>5, <1>7, HolderStep DEF Locked, StoreInv, TypeOK

\* A save that fails, before the rename or after it: auth set goes to its
\* rollback, the others return.
LEMMA SaveFailsKeepsStore ==
    ASSUME StoreInv, NEW x \in Procs, SaveFails(x)
    PROVE  StoreInv'
<1>0. /\ proc[x] \in Process /\ ArgsOK(proc[x]) /\ proc[x].pc = "save" /\ UNCHANGED keys
      /\ profiles' \in {profiles, proc[x].data}
  BY DEF StoreInv, TypeOK, ArgsInv, SaveFails, At
<1>1. profiles' \in Files /\ keys' \in [Creds -> Keys \cup {None}]
  BY <1>0 DEF ArgsOK, StoreInv, TypeOK
<1>2. CASE proc[x].op = "set"
  <2>0. PICK late \in BOOLEAN :
          /\ proc' = [proc EXCEPT ![x].data = None, ![x].late = late, ![x].pc = "restore"]
          /\ UNCHANGED lock
    BY <1>2 DEF SaveFails
  <2> DEFINE r == [proc[x] EXCEPT !.data = None, !.late = late, !.pc = "restore"]
  <2>1. proc' = [proc EXCEPT ![x] = r] /\ UNCHANGED lock
    BY <2>0 DEF StoreInv, TypeOK
  <2>2. r \in Process /\ r.pc = "restore" /\ r.op = "set"
    BY <1>0, <1>2, ZenonT(60) DEF Process, Steps
  <2>3. ArgsOK(r)
    BY <1>0, <1>2 DEF ArgsOK, Process, SetSteps, RemoveSteps, Mutations
  <2>4. proc'[x] = r
    BY <2>1 DEF StoreInv, TypeOK
  <2> HIDE DEF r
  <2>5. SaveOK(x)' /\ RemoveOK(x)'
    BY <2>2, <2>4 DEF SaveOK, RemoveOK
  <2> QED
    BY <1>0, <1>1, <2>1, <2>2, <2>3, <2>5, HolderStep DEF Locked
<1>3. CASE proc[x].op # "set"
  BY <1>0, <1>1, <1>3, FinishStep DEF SaveFails, Locked
<1> QED
  BY <1>2, <1>3

----------------------------------------------------------------------------
\* The invariant of the two stores and the processes, whatever fails and whoever
\* is killed.
THEOREM StoreSafety == Spec => []StoreInv
<1>1. Init => StoreInv
  <2> SUFFICES ASSUME Init PROVE StoreInv
    OBVIOUS
  <2>1. TypeOK
    BY IdleOK DEF Init, TypeOK, Files, Entry
  <2>2. \A x \in Procs : proc[x] = Idle /\ proc[x].pc = "idle" /\ lock # x
    BY IdleOK, NamesAssumption DEF Init
  <2>3. ArgsInv /\ LockInv
    BY <2>2, IdleOK DEF ArgsInv, LockInv, Locked
  <2>4. \A x \in Procs : SaveOK(x) /\ RemoveOK(x)
    BY <2>2 DEF SaveOK, RemoveOK
  <2> QED
    BY <2>1, <2>3, <2>4 DEF StoreInv
<1>2. StoreInv /\ [Next]_vars => StoreInv'
  <2> SUFFICES ASSUME StoreInv, [Next]_vars PROVE StoreInv'
    OBVIOUS
  <2>1. ASSUME NEW x \in Procs,
               \/ Start(x) \/ (\E k \in Keys : KeyTyped(x, k))
               \/ LockStore(x) \/ StoreBusy(x) \/ ReadFails(x)
               \/ Unlock(x) \/ ConnectStep(x) \/ Crash(x)
        PROVE  StoreInv'
    BY <2>1, OutsideKeepsStore, EndKeepsStore, LockStep DEF ConnectStep
  <2>2. ASSUME NEW x \in Procs, MoveStep(x) \/ Save(x) \/ SaveFails(x)
        PROVE  StoreInv'
    BY <2>2, LoadKeepsStore, EndKeepsStore, SaveKeepsStore, SaveFailsKeepsStore DEF MoveStep
  <2>3. ASSUME NEW x \in Procs, BindStep(x)
        PROVE  StoreInv'
    BY <2>3, BindKeepsStore, AssociateKeepsStore, KeyFailureKeepsStore, EndKeepsStore DEF BindStep
  <2>4. ASSUME NEW x \in Procs, UnbindStep(x)
        PROVE  StoreInv'
    BY <2>4, DecisionKeepsStore, RemoveKeyKeepsStore, ClearKeepsStore, EndKeepsStore DEF UnbindStep
  <2>5. CASE UNCHANGED vars
    BY <2>5 DEF vars, StoreInv, TypeOK, ArgsInv, LockInv, SaveOK, RemoveOK, References
  <2> QED
    BY <2>1, <2>2, <2>3, <2>4, <2>5 DEF Next
<1> QED
  BY <1>1, <1>2, PTL DEF Spec

\* profiles.yaml is replaced as a whole, yet a save changes no more than the one
\* profile its command is about, and there only what it was asked to, for any number of
\* processes and profiles; the exception is init's write-back of what it read before
\* the lock when the profile was changed or created since.
THEOREM UpdatesAreNotLost == Spec => []NoLostUpdate
<1>1. StoreInv => NoLostUpdate
  <2> SUFFICES ASSUME StoreInv, NEW x \in Procs, At(x, "save")
               PROVE  /\ Cardinality({p \in Profiles : proc[x].data[p] # profiles[p]}) <= 1
                      /\ \A p \in Profiles :
                          /\ proc[x].data[p].plane # profiles[p].plane =>
                                PlaneIsAsked(x, p) \/ InitIsStale(x, p)
                          /\ proc[x].data[p].cred # profiles[p].cred => ReferenceIsAsked(x, p)
    BY DEF NoLostUpdate
  <2> DEFINE r == proc[x]
             D == {p \in Profiles : r.data[p] # profiles[p]}
  <2>0. r \in Process /\ ArgsOK(r) /\ r.pc = "save" /\ r.op \in Mutations /\ SaveOK(x)
    BY DEF StoreInv, TypeOK, ArgsInv, ArgsOK, At
  <2>1. PICK p \in Profiles :
          /\ \A q \in Profiles \ {p} : r.data[q] = profiles[q]
          /\ r.op \in {"import", "init"} =>
                /\ p = r.prof /\ r.data[p].plane = ControlURL(r)
                /\ r.data[p].cred = None \/ r.data[p] = profiles[p]
                /\ \/ r.data[p].cred = profiles[p].cred
                   \/ r.force /\ r.data[p].plane # profiles[p].plane
          /\ r.op = "set" => /\ p = r.prof
                             /\ r.data[p] = [plane |-> profiles[p].plane, cred |-> r.cred]
          /\ r.op \in {"remove", "unlink"} =>
                /\ r.data[p] = [plane |-> profiles[p].plane, cred |-> None]
                /\ profiles[p].cred = r.cred
    BY <2>0 DEF SaveOK
  <2>2. D = {} \/ D = {p}
    BY <2>1
  <2>3. Cardinality({}) = 0 /\ Cardinality({p}) = 1
    BY FS_EmptySet, FS_Singleton
  <2>4. Cardinality(D) \in {0, 1}
    BY <2>2, <2>3
  <2>5. r.data[p].plane # profiles[p].plane => PlaneIsAsked(x, p) \/ InitIsStale(x, p)
    <3> SUFFICES ASSUME r.data[p].plane # profiles[p].plane, profiles[p].plane # None, ~InitIsStale(x, p)
                 PROVE  r.data[p].plane = r.plane /\ (r.op = "import" \/ r.force) /\ p = r.prof
      BY <2>0, <2>1 DEF PlaneIsAsked, Mutations
    <3>1. r.op \in {"import", "init"} /\ p = r.prof /\ r.data[p].plane = ControlURL(r)
      BY <2>0, <2>1 DEF Mutations
    <3>2. CASE r.op = "import"
      BY <2>0, <3>1, <3>2, PlanesAssumption DEF ArgsOK, ControlURL
    <3>3. CASE r.op = "init"
      <4>1. r.seen = profiles[p].plane
        BY <3>1, <3>3 DEF InitIsStale
      <4> QED
        BY <2>0, <3>1, <3>3, <4>1 DEF ArgsOK, ControlURL
    <3> QED
      BY <3>1, <3>2, <3>3
  <2>6. r.data[p].cred # profiles[p].cred => ReferenceIsAsked(x, p)
    <3>1. CASE r.op = "set"
      BY <2>1, <3>1 DEF ReferenceIsAsked
    <3>2. CASE r.op \in {"remove", "unlink"}
      BY <2>1, <3>2 DEF ReferenceIsAsked
    <3>3. CASE r.op \in {"import", "init"}
      BY <2>1, <3>3 DEF ReferenceIsAsked
    <3> QED
      BY <2>0, <3>1, <3>2, <3>3 DEF Mutations
  <2>7. \A q \in Profiles :
          /\ r.data[q].plane # profiles[q].plane => PlaneIsAsked(x, q) \/ InitIsStale(x, q)
          /\ r.data[q].cred # profiles[q].cred => ReferenceIsAsked(x, q)
    BY <2>1, <2>5, <2>6
  <2> HIDE DEF D
  <2>8. Cardinality(D) <= 1
    BY <2>4
  <2>9. Cardinality({q \in Profiles : proc[x].data[q] # profiles[q]}) <= 1
    BY <2>8 DEF D
  <2> QED
    BY <2>7, <2>9
<1> QED
  BY <1>1, StoreSafety, PTL

\* UnbindCredential by name: when auth remove reports success, neither the key nor
\* a reference to it is left, also after an earlier removal was interrupted.
THEOREM RemovalIsDone == Spec => []RemovalIsComplete
<1>1. StoreInv => RemovalIsComplete
  BY DEF StoreInv, RemoveOK, RemovalIsComplete, At
<1> QED
  BY <1>1, StoreSafety, PTL

\* UnbindCredential deletes the key before it clears the last reference: no save
\* of auth remove leaves a stored key that no profile references.
THEOREM RemovalHidesNoSecret == Spec => RemovalLeavesNoSecret
<1>1. ASSUME StoreInv, NEW x \in Procs, Save(x), proc[x].op \in {"remove", "unlink"},
             keys[proc[x].cred] # None
      PROVE  References(proc[x].cred)' # {}
  <2>0. proc[x].pc = "save" /\ profiles' = proc[x].data /\ SaveOK(x) /\ RemoveOK(x)
    BY <1>1 DEF StoreInv, Save, At
  <2>1. proc[x].op = "unlink"
    BY <1>1, <2>0 DEF RemoveOK
  <2>2. PICK q \in Profiles \ {proc[x].prof} : profiles[q].cred = proc[x].cred
    BY <1>1, <2>0, <2>1 DEF RemoveOK
  <2>3. profiles'[q].cred = proc[x].cred
    BY <2>0, <2>1, <2>2 DEF SaveOK
  <2>4. proc'[x].cred = proc[x].cred
    BY <1>1 DEF Save, StoreInv, TypeOK, Process
  <2> QED
    BY <2>2, <2>3, <2>4 DEF References
<1>2. StoreInv /\ [Next]_vars =>
        [\A x \in Procs :
            Save(x) /\ proc[x].op \in {"remove", "unlink"} /\ keys[proc[x].cred] # None =>
                References(proc[x].cred)' # {}]_vars
  BY <1>1
<1> QED
  BY <1>2, StoreSafety, PTL DEF Spec, RemovalLeavesNoSecret

----------------------------------------------------------------------------
(***************************************************************************)
(* Keys stay with their control plane.                                     *)
(***************************************************************************)
BindSteps == {"stat", "writekey", "assoc", "restore", "restored", "save"}

\* auth set from its checks under the lock to its save or its rollback: the profile
\* and those that share the credential are on the plane the prompt showed, the
\* references are those it found, with its own once a failed save has replaced the
\* file, and so is the key unless it has written its own.
BindOK(x) ==
    LET r == proc[x] IN
    r.op = "set" /\ r.pc \in BindSteps =>
        /\ profiles[r.prof].plane = r.seen
        /\ References(r.cred) = r.was.refs \cup (IF r.late THEN {r.prof} ELSE {})
        /\ \A q \in References(r.cred) : profiles[q].plane = r.seen
        /\ r.pc \in {"assoc", "save"} => keys[r.cred] = r.key
        /\ r.pc = "restored" => keys[r.cred] = r.was.key

BindInv == \A x \in Procs : BindOK(x)

\* What a process x does leaves the memory of every other auth set right: x holds
\* the lock, or does not change the stores.
LEMMA BindFrame ==
    ASSUME StoreInv, BindInv, NEW x \in Procs, NEW r, proc' = [proc EXCEPT ![x] = r],
           proc[x].pc \in Locked \/ UNCHANGED <<profiles, keys>>,
           NEW y \in Procs, y # x
    PROVE  BindOK(y)'
<1>0. proc'[y] = proc[y]
  BY DEF StoreInv, TypeOK
<1>1. CASE proc[x].pc \in Locked
  <2>1. proc'[y].pc \notin Locked
    BY <1>0, <1>1 DEF StoreInv, LockInv
  <2> QED
    BY <2>1 DEF BindOK, BindSteps, Locked
<1>2. CASE UNCHANGED <<profiles, keys>>
  BY <1>0, <1>2 DEF BindInv, BindOK, References
<1> QED
  BY <1>1, <1>2

\* A step of x that leaves the stores alone and is not one of auth set's own steps
\* under the lock.
LEMMA BindQuiet ==
    ASSUME StoreInv, BindInv, NEW x \in Procs, NEW r, proc' = [proc EXCEPT ![x] = r],
           r.op # "set" \/ r.pc \notin BindSteps, UNCHANGED <<profiles, keys>>
    PROVE  BindInv'
<1>1. proc'[x] = r
  BY DEF StoreInv, TypeOK
<1>2. BindOK(x)'
  BY <1>1 DEF BindOK
<1> QED
  BY <1>2, BindFrame DEF BindInv

\* A command that ends, fails or is killed with the stores as they are.
LEMMA BindEnd ==
    ASSUME StoreInv, BindInv, NEW x \in Procs, Finish(x), UNCHANGED <<profiles, keys>>
    PROVE  BindInv'
<1>1. proc' = [proc EXCEPT ![x] = Idle]
  BY DEF Finish
<1>2. Idle.pc \notin BindSteps
  BY IdleOK DEF BindSteps
<1> QED
  BY <1>1, <1>2, BindQuiet

\* Up to the lock, connect, import and init before their save, and auth remove's
\* decision and preparation: the stores stay as they are.
LEMMA OthersKeepBind ==
    ASSUME StoreInv, BindInv, NEW x \in Procs,
           \/ Start(x) \/ (\E k \in Keys : KeyTyped(x, k)) \/ LockStore(x)
           \/ LoadKey(x) \/ OwnProfile(x) \/ Load(x) \/ RemovalDecides(x) \/ Clear(x)
    PROVE  BindInv'
<1>0. proc[x] \in Process /\ ArgsOK(proc[x])
  BY DEF StoreInv, TypeOK, ArgsInv
<1>1. CASE Start(x)
  BY <1>1, StartArgs, BindQuiet DEF Begun, BindSteps
<1>2. ASSUME NEW k \in Keys, KeyTyped(x, k) PROVE BindInv'
  <2> DEFINE r == [proc[x] EXCEPT !.key = k, !.pc = "lock"]
  <2>1. proc' = [proc EXCEPT ![x] = r] /\ UNCHANGED <<profiles, keys>>
    BY <1>2 DEF KeyTyped, StoreInv, TypeOK
  <2>2. r.pc \notin BindSteps
    BY <1>0 DEF Process, BindSteps
  <2> HIDE DEF r
  <2> QED
    BY <2>1, <2>2, BindQuiet
<1>3. CASE LockStore(x)
  <2> DEFINE r == [proc[x] EXCEPT !.pc = FirstStep(proc[x].op)]
  <2>1. proc' = [proc EXCEPT ![x] = r] /\ UNCHANGED <<profiles, keys>>
    BY <1>3 DEF LockStore, Goto, StoreInv, TypeOK
  <2>2. r.pc \notin BindSteps
    BY <1>0 DEF Process, BindSteps, FirstStep
  <2> HIDE DEF r
  <2> QED
    BY <2>1, <2>2, BindQuiet
<1>4. CASE LoadKey(x)
  <2> DEFINE r == [proc[x] EXCEPT !.key = keys[proc[x].cred], !.pc = "own"]
  <2>1. proc' = [proc EXCEPT ![x] = r] /\ UNCHANGED <<profiles, keys>>
    BY <1>4 DEF LoadKey, StoreInv, TypeOK
  <2>2. r.pc \notin BindSteps
    BY <1>0 DEF Process, BindSteps
  <2> HIDE DEF r
  <2> QED
    BY <2>1, <2>2, BindQuiet
<1>5. CASE OwnProfile(x)
  <2> DEFINE r == [proc[x] EXCEPT !.pc = "connected"]
  <2>1. proc' = [proc EXCEPT ![x] = r] /\ UNCHANGED <<profiles, keys>>
    BY <1>5 DEF OwnProfile, Goto, StoreInv, TypeOK
  <2>2. r.pc \notin BindSteps
    BY <1>0 DEF Process, BindSteps
  <2> HIDE DEF r
  <2> QED
    BY <2>1, <2>2, BindQuiet
<1>6. CASE Load(x)
  <2>1. PICK d : proc' = [proc EXCEPT ![x] = [proc[x] EXCEPT !.data = d, !.pc = "save"]]
    BY <1>6 DEF Load, StoreInv, TypeOK
  <2> DEFINE r == [proc[x] EXCEPT !.data = d, !.pc = "save"]
  <2>2. r.op # "set" /\ UNCHANGED <<profiles, keys>>
    BY <1>0, <1>6 DEF Load, At, ArgsOK, Process
  <2> HIDE DEF r
  <2> QED
    BY <2>1, <2>2, BindQuiet DEF r
<1>7. CASE RemovalDecides(x)
  <2>1. PICK c, l, to : proc' = [proc EXCEPT ![x] = [proc[x] EXCEPT !.cred = c, !.left = l, !.pc = to]]
    BY <1>7, ZenonT(60) DEF RemovalDecides, StoreInv, TypeOK
  <2> DEFINE r == [proc[x] EXCEPT !.cred = c, !.left = l, !.pc = to]
  <2>2. r.op # "set" /\ UNCHANGED <<profiles, keys>>
    BY <1>0, <1>7 DEF RemovalDecides, At, ArgsOK, RemoveSteps, Process
  <2> HIDE DEF r
  <2> QED
    BY <2>1, <2>2, BindQuiet DEF r
<1>8. CASE Clear(x)
  <2>0. PICK p \in proc[x].left :
          proc' = [proc EXCEPT ![x].data = [profiles EXCEPT ![p].cred = None],
                               ![x].left = @ \ {p}, ![x].pc = "save"]
    BY <1>8 DEF Clear
  <2>1. PICK d, l : proc' = [proc EXCEPT ![x] = [proc[x] EXCEPT !.data = d, !.left = l, !.pc = "save"]]
    BY <2>0 DEF StoreInv, TypeOK
  <2> DEFINE r == [proc[x] EXCEPT !.data = d, !.left = l, !.pc = "save"]
  <2>2. r.op # "set" /\ UNCHANGED <<profiles, keys>>
    BY <1>0, <1>8 DEF Clear, At, ArgsOK, RemoveSteps, Process
  <2> HIDE DEF r
  <2> QED
    BY <2>1, <2>2, BindQuiet DEF r
<1> QED
  BY <1>1, <1>2, <1>3, <1>4, <1>5, <1>6, <1>7, <1>8

\* BindCredential's own steps before its save: its checks under the lock find the
\* plane the prompt showed, and every profile that shares the credential on it.
LEMMA ChecksKeepBind ==
    ASSUME StoreInv, BindInv, NEW x \in Procs, BindChecks(x) \/ StatKey(x)
    PROVE  BindInv'
<1>0. /\ proc[x] \in Process /\ ArgsOK(proc[x]) /\ profiles \in Files
      /\ keys \in [Creds -> Keys \cup {None}] /\ BindOK(x) /\ ~proc[x].late
      /\ proc[x].pc \in {"check", "stat"} /\ UNCHANGED <<profiles, keys, lock>>
  BY DEF StoreInv, TypeOK, ArgsInv, ArgsOK, BindInv, BindChecks, StatKey, At
<1>1. proc[x].prof \in Profiles /\ proc[x].cred \in Creds
  BY <1>0 DEF ArgsOK, SetSteps
<1>3. CASE BindChecks(x)
  <2> DEFINE w == [key |-> keys[proc[x].cred], refs |-> References(proc[x].cred)]
             r == [proc[x] EXCEPT !.was = w, !.pc = "stat"]
  <2>1. proc' = [proc EXCEPT ![x] = r] /\ proc'[x] = r
    BY <1>3 DEF BindChecks, StoreInv, TypeOK
  <2>2. /\ r.pc = "stat" /\ r.prof = proc[x].prof /\ r.cred = proc[x].cred
        /\ r.seen = proc[x].seen /\ r.was.key = keys[r.cred] /\ r.was.refs = References(r.cred)
        /\ ~r.late
    BY <1>0 DEF Process
  <2>3. profiles[r.prof].plane = r.seen
    BY <1>3, <2>2 DEF BindChecks, BindAllowed
  <2>4. \A q \in References(r.cred) : profiles[q].plane = r.seen
    BY <1>3, <2>2, <2>3 DEF BindChecks, BindAllowed, SharedConflict, References
  <2> HIDE DEF r
  <2>6. BindOK(x)'
    BY <1>0, <2>1, <2>2, <2>3, <2>4 DEF BindOK, References
  <2> QED
    BY <1>0, <2>1, <2>6, BindFrame DEF BindInv
<1>4. CASE StatKey(x)
  <2> DEFINE r == [proc[x] EXCEPT !.pc = "writekey"]
  <2>1. proc' = [proc EXCEPT ![x] = r] /\ proc'[x] = r /\ proc[x].pc = "stat"
    BY <1>4 DEF StatKey, At, Goto, StoreInv, TypeOK
  <2>2. /\ r.pc = "writekey" /\ r.prof = proc[x].prof /\ r.cred = proc[x].cred
        /\ r.seen = proc[x].seen /\ r.was = proc[x].was /\ r.op = proc[x].op
        /\ r.late = proc[x].late
    BY <1>0 DEF Process
  <2> HIDE DEF r
  <2>3. BindOK(x)'
    BY <1>0, <2>1, <2>2 DEF BindOK, References, BindSteps
  <2> QED
    BY <1>0, <2>1, <2>3, BindFrame DEF BindInv
<1> QED
  BY <1>3, <1>4

\* credential.Store.Set and the rollback: the profiles stay as they are.
LEMMA KeyWriteKeepsBind ==
    ASSUME StoreInv, BindInv, NEW x \in Procs, WriteKey(x) \/ Restore(x)
    PROVE  BindInv'
<1> DEFINE c == proc[x].cred
           k == IF proc[x].pc = "writekey" THEN proc[x].key ELSE proc[x].was.key
           to == IF proc[x].pc = "writekey" THEN "assoc" ELSE "restored"
           r == [proc[x] EXCEPT !.pc = to]
<1>0. /\ proc[x] \in Process /\ ArgsOK(proc[x]) /\ profiles \in Files
      /\ keys \in [Creds -> Keys \cup {None}] /\ BindOK(x)
      /\ proc[x].pc \in {"writekey", "restore"} /\ UNCHANGED <<profiles, lock>>
      /\ proc' = [proc EXCEPT ![x] = r] /\ proc'[x] = r
      /\ keys' = [keys EXCEPT ![c] = k]
  BY DEF StoreInv, TypeOK, ArgsInv, BindInv, WriteKey, Restore, At, Goto
<1>1. /\ c \in Creds /\ proc[x].op = "set"
      /\ proc[x].key \in Keys /\ Issuer[proc[x].key] = proc[x].seen
  BY <1>0 DEF ArgsOK, SetSteps
<1>4. /\ r.pc = to /\ r.prof = proc[x].prof /\ r.cred = proc[x].cred /\ r.key = proc[x].key
      /\ r.seen = proc[x].seen /\ r.was = proc[x].was /\ r.op = proc[x].op
      /\ r.late = proc[x].late
  BY <1>0 DEF Process
<1>5. keys'[c] = k
  BY <1>0, <1>1
<1> HIDE DEF r
<1>6. BindOK(x)'
  BY <1>0, <1>1, <1>4, <1>5 DEF BindOK, References, BindSteps
<1> QED
  BY <1>0, <1>6, BindFrame DEF BindInv, Locked

\* associate, and its failure: the store is untouched so far.
LEMMA AssociateKeepsBind ==
    ASSUME StoreInv, BindInv, NEW x \in Procs, Associate(x) \/ AssociateFails(x)
    PROVE  BindInv'
<1>0. /\ proc[x] \in Process /\ BindOK(x)
      /\ proc[x].pc = "assoc" /\ UNCHANGED <<profiles, keys, lock>>
  BY DEF StoreInv, TypeOK, BindInv, Associate, AssociateFails, At
<1>1. PICK d, to : /\ proc' = [proc EXCEPT ![x] = [proc[x] EXCEPT !.data = d, !.pc = to]]
                   /\ to \in {"save", "restore"}
  <2>1. CASE Associate(x)
    BY <2>1 DEF Associate, StoreInv, TypeOK
  <2>2. CASE AssociateFails(x)
    <3>1. [proc[x] EXCEPT !.pc = "restore"] = [proc[x] EXCEPT !.data = proc[x].data, !.pc = "restore"]
      BY <1>0 DEF Process
    <3> QED
      BY <2>2, <3>1 DEF AssociateFails, Goto, StoreInv, TypeOK
  <2> QED
    BY <2>1, <2>2
<1> DEFINE r == [proc[x] EXCEPT !.data = d, !.pc = to]
<1>2. proc' = [proc EXCEPT ![x] = r] /\ proc'[x] = r
  BY <1>1 DEF StoreInv, TypeOK
<1>3. /\ r.pc = to /\ r.prof = proc[x].prof /\ r.cred = proc[x].cred /\ r.key = proc[x].key
      /\ r.seen = proc[x].seen /\ r.was = proc[x].was /\ r.op = proc[x].op
      /\ r.late = proc[x].late
  BY <1>0 DEF Process
<1> HIDE DEF r
<1>4. BindOK(x)'
  BY <1>0, <1>1, <1>2, <1>3 DEF BindOK, References, BindSteps
<1> QED
  BY <1>0, <1>2, <1>4, BindFrame DEF BindInv

\* removeKey, save, and a failed save of a command other than auth set: an auth set is
\* at none of its steps afterwards.
LEMMA WritesKeepBind ==
    ASSUME StoreInv, BindInv, NEW x \in Procs,
           RemoveKey(x) \/ Save(x) \/ (SaveFails(x) /\ proc[x].op # "set")
    PROVE  BindInv'
<1>0. proc[x] \in Process /\ ArgsOK(proc[x]) /\ proc[x].pc \in Locked
  BY DEF StoreInv, TypeOK, ArgsInv, RemoveKey, Save, SaveFails, At, Locked
<1>1. PICK r : /\ proc' = [proc EXCEPT ![x] = r]
               /\ r.op # "set" \/ r.pc \notin BindSteps
  <2>1. CASE RemoveKey(x)
    <3> DEFINE r == [proc[x] EXCEPT !.pc = AfterSave(x)]
    <3>1. proc' = [proc EXCEPT ![x] = r]
      BY <2>1 DEF RemoveKey, Goto, StoreInv, TypeOK
    <3>2. r.op # "set"
      BY <1>0, <2>1 DEF RemoveKey, At, ArgsOK, RemoveSteps, Process
    <3> QED
      BY <3>1, <3>2
  <2>2. CASE Save(x)
    <3> DEFINE r == [proc[x] EXCEPT !.data = None, !.pc = AfterSave(x)]
    <3>1. proc' = [proc EXCEPT ![x] = r]
      BY <2>2 DEF Save, StoreInv, TypeOK
    <3>2. r.pc \notin BindSteps
      BY <1>0 DEF Process, AfterSave, BindSteps
    <3> QED
      BY <3>1, <3>2
  <2>3. CASE SaveFails(x) /\ proc[x].op # "set"
    <3>1. Idle.pc \notin BindSteps
      BY IdleOK DEF BindSteps
    <3> QED
      BY <2>3, <3>1 DEF SaveFails, Finish
  <2> QED
    BY <2>1, <2>2, <2>3
<1>2. BindOK(x)'
  BY <1>1 DEF BindOK, StoreInv, TypeOK
<1> QED
  BY <1>0, <1>1, <1>2, BindFrame DEF BindInv

\* auth set's save fails: its rollback begins, with the old file in place or with the
\* reference written.
LEMMA FailedSaveKeepsBind ==
    ASSUME StoreInv, BindInv, NEW x \in Procs, SaveFails(x), proc[x].op = "set"
    PROVE  BindInv'
<1>0. /\ proc[x] \in Process /\ ArgsOK(proc[x]) /\ proc[x].pc = "save"
      /\ SaveOK(x) /\ BindOK(x) /\ UNCHANGED keys /\ profiles \in Files
  BY DEF StoreInv, TypeOK, ArgsInv, BindInv, SaveFails, At
<1>1. PICK late \in BOOLEAN :
        /\ profiles' = IF late THEN proc[x].data ELSE profiles
        /\ proc' = [proc EXCEPT ![x].data = None, ![x].late = late, ![x].pc = "restore"]
  BY DEF SaveFails
<1> DEFINE r == [proc[x] EXCEPT !.data = None, !.late = late, !.pc = "restore"]
<1>2. proc' = [proc EXCEPT ![x] = r] /\ proc'[x] = r
  BY <1>1 DEF StoreInv, TypeOK
<1>3. /\ r.pc = "restore" /\ r.prof = proc[x].prof /\ r.cred = proc[x].cred
      /\ r.seen = proc[x].seen /\ r.was = proc[x].was /\ r.op = proc[x].op /\ r.late = late
  BY <1>0 DEF Process
<1> HIDE DEF r
<1>4. /\ proc[x].prof \in Profiles /\ ~proc[x].late
      /\ profiles[proc[x].prof].plane = proc[x].seen
      /\ References(proc[x].cred) = proc[x].was.refs
      /\ \A q \in References(proc[x].cred) : profiles[q].plane = proc[x].seen
  BY <1>0 DEF ArgsOK, BindOK, BindSteps
<1>5. /\ \A q \in Profiles \ {proc[x].prof} : proc[x].data[q] = profiles[q]
      /\ proc[x].data[proc[x].prof] = [plane |-> profiles[proc[x].prof].plane, cred |-> proc[x].cred]
  BY <1>0 DEF SaveOK
<1>6. CASE late
  <2>1. {q \in Profiles : profiles'[q].cred = r.cred} = r.was.refs \cup {r.prof}
    BY <1>1, <1>3, <1>4, <1>5, <1>6 DEF References
  <2>2. \A q \in r.was.refs \cup {r.prof} : profiles'[q].plane = r.seen
    BY <1>1, <1>3, <1>4, <1>5, <1>6 DEF References
  <2>3. BindOK(x)'
    BY <1>2, <1>3, <1>6, <2>1, <2>2, ZenonT(60) DEF BindOK, References
  <2> QED
    BY <1>0, <1>2, <2>3, BindFrame DEF BindInv, Locked
<1>7. CASE ~late
  <2>1. BindOK(x)'
    BY <1>0, <1>1, <1>2, <1>3, <1>4, <1>7, ZenonT(60) DEF BindOK, References
  <2> QED
    BY <1>0, <1>2, <2>1, BindFrame DEF BindInv, Locked
<1> QED
  BY <1>6, <1>7

\* The key could not be written or restored: the command ends.
LEMMA KeyFailuresKeepBind ==
    ASSUME StoreInv, BindInv, NEW x \in Procs, WriteKeyFails(x) \/ RestoreFails(x)
    PROVE  BindInv'
<1>1. proc' = [proc EXCEPT ![x] = Idle] /\ proc[x].pc \in Locked
  BY DEF WriteKeyFails, RestoreFails, Finish, At, Locked
<1>2. BindOK(x)'
  BY <1>1, IdleOK DEF BindOK, BindSteps, StoreInv, TypeOK
<1> QED
  BY <1>1, <1>2, BindFrame DEF BindInv

\* The invariant behind the two results below: what auth set remembers of the stores
\* between its prompt and the end of its rollback.
THEOREM BindSafety == Spec => []BindInv
<1>1. Init => BindInv
  <2> SUFFICES ASSUME Init PROVE BindInv
    OBVIOUS
  <2>1. \A x \in Procs : proc[x].pc = "idle"
    BY IdleOK DEF Init
  <2> QED
    BY <2>1 DEF BindInv, BindOK, BindSteps
<1>2. StoreInv /\ BindInv /\ [Next]_vars => BindInv'
  <2> SUFFICES ASSUME StoreInv, BindInv, [Next]_vars PROVE BindInv'
    OBVIOUS
  <2>1. ASSUME NEW x \in Procs,
               \/ StoreBusy(x) \/ ReadFails(x) \/ MoveRefused(x) \/ BindRefused(x)
               \/ CredentialExists(x) \/ RemovalRefused(x) \/ RemoveKeyFails(x) \/ Unlock(x)
               \/ LoadKeyFails(x) \/ ProfileInUse(x) \/ Disconnect(x) \/ Crash(x)
        PROVE  BindInv'
    <3>1. Finish(x) /\ UNCHANGED <<profiles, keys>>
      BY <2>1 DEF StoreBusy, ReadFails, MoveRefused, BindRefused, CredentialExists,
                  RemovalRefused, RemoveKeyFails, Unlock, LoadKeyFails, ProfileInUse,
                  Disconnect, Crash
    <3> QED
      BY <3>1, BindEnd
  <2>2. ASSUME NEW x \in Procs,
               \/ Start(x) \/ (\E k \in Keys : KeyTyped(x, k))
               \/ LockStore(x) \/ StoreBusy(x) \/ ReadFails(x)
               \/ Unlock(x) \/ ConnectStep(x) \/ Crash(x)
        PROVE  BindInv'
    BY <2>1, <2>2, OthersKeepBind DEF ConnectStep
  <2>3. ASSUME NEW x \in Procs, MoveStep(x) \/ Save(x) \/ SaveFails(x)
        PROVE  BindInv'
    BY <2>1, <2>3, OthersKeepBind, WritesKeepBind, FailedSaveKeepsBind DEF MoveStep
  <2>4. ASSUME NEW x \in Procs, BindStep(x)
        PROVE  BindInv'
    BY <2>1, <2>4, ChecksKeepBind, KeyWriteKeepsBind, AssociateKeepsBind, KeyFailuresKeepBind
    DEF BindStep
  <2>5. ASSUME NEW x \in Procs, UnbindStep(x)
        PROVE  BindInv'
    BY <2>1, <2>5, OthersKeepBind, WritesKeepBind DEF UnbindStep
  <2>6. CASE UNCHANGED vars
    BY <2>6 DEF vars, BindInv, BindOK, References
  <2> QED
    BY <2>2, <2>3, <2>4, <2>5, <2>6 DEF Next
<1> QED
  BY <1>1, <1>2, StoreSafety, PTL DEF Spec

----------------------------------------------------------------------------
\* The steps that change neither store.
QuietStep(x) ==
    \/ Start(x) \/ (\E k \in Keys : KeyTyped(x, k))
    \/ LockStore(x) \/ StoreBusy(x) \/ ReadFails(x) \/ MoveStep(x)
    \/ BindChecks(x) \/ BindRefused(x) \/ StatKey(x) \/ CredentialExists(x)
    \/ Associate(x) \/ AssociateFails(x)
    \/ RemovalRefused(x) \/ RemovalDecides(x) \/ RemoveKeyFails(x) \/ Clear(x)
    \/ Unlock(x) \/ ConnectStep(x) \/ Crash(x)

LEMMA QuietIsQuiet ==
    ASSUME NEW x \in Procs, QuietStep(x)
    PROVE  UNCHANGED <<profiles, keys>>
<1>1. CASE \/ Start(x) \/ (\E k \in Keys : KeyTyped(x, k)) \/ LockStore(x) \/ StoreBusy(x)
           \/ ReadFails(x) \/ MoveStep(x)
  BY <1>1 DEF Start, StartImport, InitReads, SetReads, StartRemove, StartUnlink, ConnectReads,
              KeyTyped, LockStore, StoreBusy, ReadFails, MoveStep, Load, MoveRefused
<1>2. CASE \/ BindChecks(x) \/ BindRefused(x) \/ StatKey(x) \/ CredentialExists(x)
           \/ Associate(x) \/ AssociateFails(x)
  BY <1>2 DEF BindChecks, BindRefused, StatKey, CredentialExists, Associate, AssociateFails
<1>3. CASE \/ RemovalRefused(x) \/ RemovalDecides(x) \/ RemoveKeyFails(x) \/ Clear(x)
           \/ Unlock(x) \/ ConnectStep(x) \/ Crash(x)
  BY <1>3 DEF RemovalRefused, RemovalDecides, RemoveKeyFails, Clear, Unlock, ConnectStep,
              LoadKey, LoadKeyFails, OwnProfile, ProfileInUse, Disconnect, Crash
<1> QED
  BY <1>1, <1>2, <1>3 DEF QuietStep

\* profiles.yaml is replaced by what x was about to save: a profile whose entry changes
\* loses its reference, or gets the credential whose key auth set has just written for
\* the profile's plane.
LEMMA SavedIsAtHome ==
    ASSUME StoreInv, BindInv, NEW x \in Procs, proc[x].pc = "save",
           profiles' = proc[x].data, UNCHANGED keys,
           NEW p \in Profiles, AtHome(p)
    PROVE  AtHome(p)'
<1>0. /\ proc[x] \in Process /\ ArgsOK(proc[x]) /\ SaveOK(x) /\ BindOK(x)
  BY DEF StoreInv, TypeOK, ArgsInv, BindInv
<1>1. PICK q \in Profiles :
        /\ \A o \in Profiles \ {q} : proc[x].data[o] = profiles[o]
        /\ proc[x].op \in {"import", "init"} =>
              proc[x].data[q].cred = None \/ proc[x].data[q] = profiles[q]
        /\ proc[x].op = "set" =>
              /\ q = proc[x].prof
              /\ proc[x].data[q] = [plane |-> profiles[q].plane, cred |-> proc[x].cred]
        /\ proc[x].op \in {"remove", "unlink"} =>
              proc[x].data[q] = [plane |-> profiles[q].plane, cred |-> None]
  BY <1>0 DEF SaveOK
<1>2. proc[x].op \in Mutations
  BY <1>0 DEF ArgsOK
<1>3. CASE profiles'[p] = profiles[p]
  BY <1>3 DEF AtHome
<1>4. CASE profiles'[p] # profiles[p] /\ proc[x].op # "set"
  <2>1. profiles'[p].cred = None
    BY <1>1, <1>2, <1>4 DEF Mutations
  <2> QED
    BY <2>1 DEF AtHome
<1>5. CASE profiles'[p] # profiles[p] /\ proc[x].op = "set"
  <2>1. p = proc[x].prof /\ profiles'[p].plane = profiles[p].plane /\ profiles'[p].cred = proc[x].cred
    BY <1>1, <1>5
  <2>2. profiles[p].plane = proc[x].seen /\ keys[proc[x].cred] = proc[x].key
    BY <1>0, <1>5, <2>1 DEF BindOK, BindSteps
  <2>3. Issuer[proc[x].key] = proc[x].seen
    BY <1>0, <1>5 DEF ArgsOK
  <2> QED
    BY <2>1, <2>2, <2>3 DEF AtHome
<1> QED
  BY <1>3, <1>4, <1>5

\* A key of the credential x is about is replaced, by k: only the profiles that
\* reference it can be taken off their plane, and all are on the plane x was shown.
LEMMA ReplacedKey ==
    ASSUME StoreInv, NEW x \in Procs, proc[x].cred \in Creds, NEW k,
           UNCHANGED profiles, keys' = [keys EXCEPT ![proc[x].cred] = k],
           NEW p \in Profiles, AtHome(p), ~AtHome(p)'
    PROVE  p \in References(proc[x].cred) /\ k # None /\ Issuer[k] # profiles[p].plane
<1>0. profiles \in Files /\ keys \in [Creds -> Keys \cup {None}]
  BY DEF StoreInv, TypeOK
<1>1. profiles[p].cred \in Creds /\ profiles'[p] = profiles[p]
  BY <1>0 DEF AtHome, Files, Entry
<1>2. profiles[p].cred = proc[x].cred
  BY <1>0, <1>1 DEF AtHome
<1>3. keys'[proc[x].cred] = k
  BY <1>0
<1> QED
  BY <1>1, <1>2, <1>3 DEF AtHome, References

\* What KeysKeepTheirPlane asks of one step.
KeyPutBack(p) ==
    \E x \in Procs :
        /\ At(x, "restore") /\ keys' = [keys EXCEPT ![proc[x].cred] = proc[x].was.key]
        /\ \/ p \in proc[x].was.refs
           \/ p = proc[x].prof /\ proc[x].late

\* The steps of auth set that write its key or put the previous one back.
LEMMA KeyWriteKeepsHome ==
    ASSUME StoreInv, BindInv, NEW x \in Procs,
           WriteKey(x) \/ WriteKeyFails(x) \/ Restore(x) \/ RestoreFails(x),
           NEW p \in Profiles, AtHome(p), ~AtHome(p)'
    PROVE  KeyPutBack(p)
<1>0. /\ proc[x] \in Process /\ ArgsOK(proc[x]) /\ BindOK(x) /\ UNCHANGED profiles
      /\ proc[x].pc \in {"writekey", "restore"}
  BY DEF StoreInv, TypeOK, ArgsInv, BindInv, WriteKey, WriteKeyFails, Restore, RestoreFails, At
<1>1. /\ proc[x].cred \in Creds /\ proc[x].op = "set"
      /\ Issuer[proc[x].key] = proc[x].seen
      /\ References(proc[x].cred) = proc[x].was.refs \cup (IF proc[x].late THEN {proc[x].prof} ELSE {})
      /\ \A q \in References(proc[x].cred) : profiles[q].plane = proc[x].seen
  BY <1>0 DEF ArgsOK, SetSteps, BindOK, BindSteps
<1>2. keys' # keys
  BY <1>0 DEF AtHome
<1>3. CASE proc[x].pc = "writekey"
  <2>1. keys' = [keys EXCEPT ![proc[x].cred] = proc[x].key]
    BY <1>2, <1>3 DEF WriteKey, WriteKeyFails, Restore, RestoreFails, At
  <2> QED
    BY <1>0, <1>1, <2>1, ReplacedKey
<1>4. CASE proc[x].pc = "restore"
  <2>1. keys' = [keys EXCEPT ![proc[x].cred] = proc[x].was.key]
    BY <1>2, <1>4 DEF WriteKey, WriteKeyFails, Restore, RestoreFails, At
  <2>2. p \in References(proc[x].cred)
    BY <1>0, <1>1, <2>1, ReplacedKey
  <2> QED
    BY <1>1, <1>4, <2>1, <2>2 DEF KeyPutBack, At
<1> QED
  BY <1>0, <1>3, <1>4

\* No step takes a profile off the control plane that issued its key but the rollback
\* of auth set: whatever commands run, fail, before or after a rename, or are killed,
\* and in whatever order.
THEOREM KeysStayHome == Spec => KeysKeepTheirPlane
<1>1. ASSUME StoreInv, BindInv, Next, NEW p \in Profiles, AtHome(p), ~AtHome(p)'
      PROVE  KeyPutBack(p)
  <2>1. ASSUME NEW x \in Procs, QuietStep(x) PROVE KeyPutBack(p)
    <3>1. UNCHANGED <<profiles, keys>>
      BY <2>1, QuietIsQuiet
    <3> QED
      BY <1>1, <3>1 DEF AtHome
  <2>2. ASSUME NEW x \in Procs, Save(x) \/ SaveFails(x) PROVE KeyPutBack(p)
    <3>1. proc[x].pc = "save" /\ UNCHANGED keys /\ profiles' \in {profiles, proc[x].data}
      BY <2>2 DEF Save, SaveFails, At
    <3>2. profiles' # profiles
      BY <1>1, <3>1 DEF AtHome
    <3> QED
      BY <1>1, <3>1, <3>2, SavedIsAtHome
  <2>3. ASSUME NEW x \in Procs, WriteKey(x) \/ WriteKeyFails(x) \/ Restore(x) \/ RestoreFails(x)
        PROVE  KeyPutBack(p)
    BY <1>1, <2>3, KeyWriteKeepsHome
  <2>4. ASSUME NEW x \in Procs, RemoveKey(x) PROVE KeyPutBack(p)
    <3>1. /\ UNCHANGED profiles /\ keys' = [keys EXCEPT ![proc[x].cred] = None]
          /\ proc[x].cred \in Creds
      BY <1>1, <2>4 DEF RemoveKey, At, StoreInv, ArgsInv, ArgsOK, RemoveSteps
    <3> QED
      BY <1>1, <3>1, ReplacedKey
  <2>5. PICK x \in Procs :
          \/ QuietStep(x) \/ Save(x) \/ SaveFails(x) \/ RemoveKey(x)
          \/ WriteKey(x) \/ WriteKeyFails(x) \/ Restore(x) \/ RestoreFails(x)
    BY <1>1 DEF Next, QuietStep, BindStep, UnbindStep
  <2> QED
    BY <2>1, <2>2, <2>3, <2>4, <2>5
<1>2. StoreInv /\ BindInv /\ [Next]_vars =>
        [\A p \in Profiles : AtHome(p) /\ ~AtHome(p)' => KeyPutBack(p)]_vars
  BY <1>1
<1> QED
  BY <1>2, StoreSafety, BindSafety, PTL DEF Spec, KeysKeepTheirPlane, KeyPutBack

\* After the rollback of auth set the key is the one it found under the lock, and so
\* are the references, but for its own when the save failed after the rename.
THEOREM RollbackIsExact == Spec => []RollbackPutsBack
<1>1. StoreInv /\ BindInv => RollbackPutsBack
  BY DEF StoreInv, ArgsInv, ArgsOK, SetSteps, BindInv, BindOK, BindSteps, RollbackPutsBack, At
<1> QED
  BY <1>1, StoreSafety, BindSafety, PTL
=============================================================================
