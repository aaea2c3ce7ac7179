---------------------------- MODULE ProfileStore ----------------------------
(***************************************************************************)
(* The profile store and the credential store it references, as changed by *)
(* concurrent ts-bridge commands: import, init --profile, auth set, auth   *)
(* remove, and read by connect.  One advisory lock serializes the          *)
(* mutations; reads never take it.  A command may fail at every write and  *)
(* may be killed between any two steps; the kernel then drops its lock.    *)
(*                                                                         *)
(* A control URL is its control plane (SameControlURL decides equality).   *)
(* A key carries the plane that issued it: the one the user saw when the   *)
(* command prompted.  Targets and runtime settings are left out.           *)
(***************************************************************************)
EXTENDS Integers, FiniteSets

CONSTANTS
    Procs,        \* ts-bridge processes
    Profiles,     \* profile names
    Creds,        \* credential names
    Planes,       \* control planes
    SaaS,         \* the plane an empty control URL means
    Keys,         \* auth keys a user may type
    Issuer,       \* Issuer[k]: the control plane that issued key k
    None,
    Commands      \* the commands the processes run

AllCommands == {"import", "init", "set", "remove", "unlink", "connect"}

ASSUME PlanesAssumption == SaaS \in Planes /\ None \notin Planes
ASSUME KeysAssumption == Issuer \in [Keys -> Planes] /\ None \notin Keys
ASSUME NamesAssumption == None \notin Procs /\ None \notin Profiles /\ None \notin Creds
ASSUME CommandsAssumption == Commands \subseteq AllCommands

VARIABLES
    profiles,  \* profiles.yaml: plane None is a name that is not in the file
    keys,      \* the credential directory: keys[c] is None when there is no file
    lock,      \* the holder of locks/store.lock
    proc       \* proc[x]: what process x is doing

vars == <<profiles, keys, lock, proc>>

Entry == [plane : Planes \cup {None}, cred : Creds \cup {None}]
Files == [Profiles -> Entry]

Steps == {"idle", "prompt", "lock", "load", "check", "stat", "writekey", "assoc",
          "restore", "restored", "target", "rmkey", "clear", "save", "ok",
          "readkey", "own", "connected"}

\* A command's arguments and what it remembers between steps: plane is the control
\* URL it was given, seen the plane it read without the lock, was the key and the
\* references to it that auth set found under the lock, data the store it is about to
\* save, late whether a save that failed had replaced the file, left the references
\* that auth remove has still to clear.
Process == [pc : Steps, op : AllCommands \cup {None}, prof : Profiles \cup {None},
            cred : Creds \cup {None}, plane : Planes \cup {None}, key : Keys \cup {None},
            force : BOOLEAN, seen : Planes \cup {None},
            was : [key : Keys \cup {None}, refs : SUBSET Profiles],
            data : Files \cup {None}, late : BOOLEAN, left : SUBSET Profiles]

Nothing == [key |-> None, refs |-> {}]
Idle == [pc |-> "idle", op |-> None, prof |-> None, cred |-> None, plane |-> None,
         key |-> None, force |-> FALSE, seen |-> None, was |-> Nothing,
         data |-> None, late |-> FALSE, left |-> {}]

TypeOK ==
    /\ profiles \in Files
    /\ keys \in [Creds -> Keys \cup {None}]
    /\ lock \in Procs \cup {None}
    /\ proc \in [Procs -> Process]

Init ==
    /\ profiles = [p \in Profiles |-> [plane |-> None, cred |-> None]]
    /\ keys = [c \in Creds |-> None]
    /\ lock = None
    /\ proc = [x \in Procs |-> Idle]

Exists(p) == profiles[p].plane # None
At(x, step) == proc[x].pc = step
Goto(x, step) == proc' = [proc EXCEPT ![x].pc = step]
References(c) == {p \in Profiles : profiles[p].cred = c}

\* sharedConflict: another profile references c on another control plane.
SharedConflict(p, c, plane) ==
    \E q \in Profiles \ {p} : profiles[q].cred = c /\ profiles[q].plane # plane

\* The command returns; Update's deferred Close drops the lock.
Finish(x) ==
    /\ proc' = [proc EXCEPT ![x] = Idle]
    /\ lock' = IF lock = x THEN None ELSE lock

(***************************************************************************)
(* Up to the lock.  init and auth set read the store first.                *)
(***************************************************************************)
StartImport(x, p, plane, force) ==
    /\ At(x, "idle") /\ "import" \in Commands
    /\ proc' = [proc EXCEPT ![x] = [Idle EXCEPT !.pc = "lock", !.op = "import", !.prof = p,
                                                !.plane = plane, !.force = force]]
    /\ UNCHANGED <<profiles, keys, lock>>

\* runInitProfile: the profile is read, and its absence checked, before the lock.
InitReads(x, p, given, force) ==
    /\ At(x, "idle") /\ "init" \in Commands
    /\ ~Exists(p) \/ force
    /\ proc' = [proc EXCEPT ![x] =
                    [Idle EXCEPT !.pc = "lock", !.op = "init", !.prof = p, !.force = force,
                                 !.plane = given, !.seen = profiles[p].plane]]
    /\ UNCHANGED <<profiles, keys, lock>>

SetReads(x, p, c, force) ==
    /\ At(x, "idle") /\ "set" \in Commands
    /\ Exists(p)
    /\ proc' = [proc EXCEPT ![x] =
                    [Idle EXCEPT !.pc = "prompt", !.op = "set", !.prof = p, !.cred = c,
                                 !.force = force, !.seen = profiles[p].plane]]
    /\ UNCHANGED <<profiles, keys, lock>>

\* readAuthInput: the user enters a key of the control plane that was read.
KeyTyped(x, k) ==
    /\ At(x, "prompt") /\ Issuer[k] = proc[x].seen
    /\ proc' = [proc EXCEPT ![x].key = k, ![x].pc = "lock"]
    /\ UNCHANGED <<profiles, keys, lock>>

StartRemove(x, c, force) ==
    /\ At(x, "idle") /\ "remove" \in Commands
    /\ proc' = [proc EXCEPT ![x] = [Idle EXCEPT !.pc = "lock", !.op = "remove", !.cred = c,
                                                !.force = force]]
    /\ UNCHANGED <<profiles, keys, lock>>

StartUnlink(x, p) ==
    /\ At(x, "idle") /\ "unlink" \in Commands
    /\ proc' = [proc EXCEPT ![x] = [Idle EXCEPT !.pc = "lock", !.op = "unlink", !.prof = p]]
    /\ UNCHANGED <<profiles, keys, lock>>

FirstStep(op) ==
    CASE op \in {"import", "init"} -> "load"
      [] op = "set" -> "check"
      [] op \in {"remove", "unlink"} -> "target"
      [] OTHER -> "idle"

\* Faulty variant: the lock is granted whoever holds it.
LockStoreShared(x) ==
    /\ At(x, "lock")
    /\ lock' = x
    /\ Goto(x, FirstStep(proc[x].op))
    /\ UNCHANGED <<profiles, keys>>

LockStore(x) ==
    /\ At(x, "lock") /\ lock = None
    /\ lock' = x
    /\ Goto(x, FirstStep(proc[x].op))
    /\ UNCHANGED <<profiles, keys>>

\* storeLockWait passed.
StoreBusy(x) ==
    /\ At(x, "lock") /\ lock # None
    /\ Finish(x)
    /\ UNCHANGED <<profiles, keys>>

\* A read of either store fails before anything was written.
ReadFails(x) ==
    /\ proc[x].pc \in {"load", "check", "stat", "target"}
    /\ Finish(x)
    /\ UNCHANGED <<profiles, keys>>

(***************************************************************************)
(* importEntry and setEntry.                                               *)
(***************************************************************************)
\* bindCredential: the reference stays on the plane it was bound on.
Keeps(p, plane) == profiles[p].cred = None \/ profiles[p].plane = plane

\* The control URL to write: a URL that init is not given is the one it read.
ControlURL(r) ==
    IF r.plane # None THEN r.plane ELSE IF r.seen # None THEN r.seen ELSE SaaS

Load(x) ==
    LET p == proc[x].prof
        plane == ControlURL(proc[x])
    IN
    /\ At(x, "load")
    /\ Keeps(p, plane) \/ proc[x].force
    /\ proc' = [proc EXCEPT
                  ![x].data = [profiles EXCEPT ![p] =
                                 [plane |-> plane,
                                  cred |-> IF Keeps(p, plane) THEN @.cred ELSE None]],
                  ![x].pc = "save"]
    /\ UNCHANGED <<profiles, keys, lock>>

\* ControlPlaneChangeError.
MoveRefused(x) ==
    /\ At(x, "load")
    /\ ~Keeps(proc[x].prof, ControlURL(proc[x])) /\ ~proc[x].force
    /\ Finish(x)
    /\ UNCHANGED <<profiles, keys>>

(***************************************************************************)
(* save: write a temporary file, harden it, rename it over the store,      *)
(* harden the store.                                                       *)
(***************************************************************************)
AfterSave(x) == IF proc[x].left # {} THEN "clear" ELSE "ok"

Save(x) ==
    /\ At(x, "save")
    /\ profiles' = proc[x].data
    /\ proc' = [proc EXCEPT ![x].data = None, ![x].pc = AfterSave(x)]
    /\ UNCHANGED <<keys, lock>>

\* The write fails, before the rename or, in the second Harden, after it.  auth set
\* then restores the key it replaced; the other commands return the error.
SaveFails(x) ==
    /\ At(x, "save")
    /\ \E late \in BOOLEAN :
        /\ profiles' = IF late THEN proc[x].data ELSE profiles
        /\ IF proc[x].op = "set"
           THEN /\ proc' = [proc EXCEPT ![x].data = None, ![x].late = late, ![x].pc = "restore"]
                /\ UNCHANGED lock
           ELSE Finish(x)
    /\ UNCHANGED keys

(***************************************************************************)
(* BindCredential: auth set.                                               *)
(***************************************************************************)
BindAllowed(x) ==
    LET p == proc[x].prof IN
    /\ Exists(p)
    /\ profiles[p].plane = proc[x].seen
    /\ ~SharedConflict(p, proc[x].cred, profiles[p].plane)

\* Faulty variant: the profile is not compared with what the prompt showed.
BindChecksStale(x) ==
    LET p == proc[x].prof
        c == proc[x].cred
    IN
    /\ At(x, "check") /\ Exists(p) /\ ~SharedConflict(p, c, profiles[p].plane)
    /\ proc' = [proc EXCEPT ![x].was = [key |-> keys[c], refs |-> References(c)],
                            ![x].pc = "stat"]
    /\ UNCHANGED <<profiles, keys, lock>>

BindChecks(x) ==
    /\ At(x, "check") /\ BindAllowed(x)
    /\ proc' = [proc EXCEPT ![x].was = [key |-> keys[proc[x].cred],
                                        refs |-> References(proc[x].cred)],
                            ![x].pc = "stat"]
    /\ UNCHANGED <<profiles, keys, lock>>

BindRefused(x) ==
    /\ At(x, "check") /\ ~BindAllowed(x)
    /\ Finish(x)
    /\ UNCHANGED <<profiles, keys>>

\* credential.Store.Set: without --force the name must be free.
StatKey(x) ==
    /\ At(x, "stat")
    /\ proc[x].force \/ keys[proc[x].cred] = None
    /\ Goto(x, "writekey")
    /\ UNCHANGED <<profiles, keys, lock>>

CredentialExists(x) ==
    /\ At(x, "stat")
    /\ ~proc[x].force /\ keys[proc[x].cred] # None
    /\ Finish(x)
    /\ UNCHANGED <<profiles, keys>>

WriteKey(x) ==
    /\ At(x, "writekey")
    /\ keys' = [keys EXCEPT ![proc[x].cred] = proc[x].key]
    /\ Goto(x, "assoc")
    /\ UNCHANGED <<profiles, lock>>

WriteKeyFails(x) ==
    /\ At(x, "writekey")
    /\ \/ UNCHANGED keys
       \/ keys' = [keys EXCEPT ![proc[x].cred] = proc[x].key]
    /\ Finish(x)
    /\ UNCHANGED profiles

Associate(x) ==
    LET p == proc[x].prof
        c == proc[x].cred
    IN
    /\ At(x, "assoc")
    /\ Exists(p) /\ ~SharedConflict(p, c, profiles[p].plane)
    /\ proc' = [proc EXCEPT ![x].data = [profiles EXCEPT ![p].cred = c], ![x].pc = "save"]
    /\ UNCHANGED <<profiles, keys, lock>>

\* The load of associate fails, or its own check refuses.
AssociateFails(x) ==
    /\ At(x, "assoc")
    /\ Goto(x, "restore")
    /\ UNCHANGED <<profiles, keys, lock>>

\* Faulty variant: the rollback removes the key instead of restoring the old one.
RestoreRemoves(x) ==
    /\ At(x, "restore")
    /\ keys' = [keys EXCEPT ![proc[x].cred] = None]
    /\ Goto(x, "restored")
    /\ UNCHANGED <<profiles, lock>>

\* Remove when there was no key, Set to the previous one otherwise.
Restore(x) ==
    /\ At(x, "restore")
    /\ keys' = [keys EXCEPT ![proc[x].cred] = proc[x].was.key]
    /\ Goto(x, "restored")
    /\ UNCHANGED <<profiles, lock>>

RestoreFails(x) ==
    /\ At(x, "restore")
    /\ \/ UNCHANGED keys
       \/ keys' = [keys EXCEPT ![proc[x].cred] = proc[x].was.key]
    /\ Finish(x)
    /\ UNCHANGED profiles

(***************************************************************************)
(* UnbindCredential: auth remove, by credential name or through a profile. *)
(***************************************************************************)
\* removalTarget.
Target(x) == IF proc[x].op = "remove" THEN proc[x].cred ELSE profiles[proc[x].prof].cred

RemovalRefused(x) ==
    /\ At(x, "target")
    /\ \/ proc[x].op = "unlink" /\ Target(x) = None
       \/ proc[x].op = "remove" /\ References(Target(x)) # {} /\ ~proc[x].force
    /\ Finish(x)
    /\ UNCHANGED <<profiles, keys>>

\* Faulty variant: the references are cleared before the key is deleted.
RemovalDecidesClearFirst(x) ==
    LET c == Target(x)
        refs == References(c)
    IN
    /\ At(x, "target") /\ c # None
    /\ proc[x].op = "remove" => refs = {} \/ proc[x].force
    /\ proc' = [proc EXCEPT ![x].cred = c,
                            ![x].left = IF proc[x].op = "remove" THEN refs ELSE {proc[x].prof},
                            ![x].pc = IF refs # {} THEN "clear" ELSE "rmkey"]
    /\ UNCHANGED <<profiles, keys, lock>>

\* removeReferenced: a profile whose credential others use is only unlinked.
RemovalDecides(x) ==
    LET c == Target(x)
        refs == References(c)
        byProfile == proc[x].op = "unlink"
    IN
    /\ At(x, "target") /\ c # None
    /\ byProfile \/ refs = {} \/ proc[x].force
    /\ proc' = [proc EXCEPT ![x].cred = c,
                            ![x].left = IF byProfile THEN {proc[x].prof} ELSE refs,
                            ![x].pc = IF byProfile /\ Cardinality(refs) > 1 THEN "clear"
                                      ELSE "rmkey"]
    /\ UNCHANGED <<profiles, keys, lock>>

\* removeKey: a key already gone is fine while a reference to it remains.
RemoveKey(x) ==
    /\ At(x, "rmkey")
    /\ keys[proc[x].cred] # None \/ proc[x].left # {}
    /\ keys' = [keys EXCEPT ![proc[x].cred] = None]
    /\ Goto(x, AfterSave(x))
    /\ UNCHANGED <<profiles, lock>>

\* os.Remove fails, for one because there is nothing to remove.
RemoveKeyFails(x) ==
    /\ At(x, "rmkey")
    /\ Finish(x)
    /\ UNCHANGED <<profiles, keys>>

\* Faulty variant: only the first reference is cleared.
ClearFirst(x) ==
    /\ At(x, "clear")
    /\ \E p \in proc[x].left :
        proc' = [proc EXCEPT ![x].data = [profiles EXCEPT ![p].cred = None],
                             ![x].left = {}, ![x].pc = "save"]
    /\ UNCHANGED <<profiles, keys, lock>>

\* ClearCredential of the next reference.
Clear(x) ==
    /\ At(x, "clear")
    /\ \E p \in proc[x].left :
        proc' = [proc EXCEPT ![x].data = [profiles EXCEPT ![p].cred = None],
                             ![x].left = @ \ {p}, ![x].pc = "save"]
    /\ UNCHANGED <<profiles, keys, lock>>

\* The mutation is done, or undone: Update releases the lock.
Unlock(x) ==
    /\ proc[x].pc \in {"ok", "restored"}
    /\ Finish(x)
    /\ UNCHANGED <<profiles, keys>>

(***************************************************************************)
(* connect and browser: the profile, then its key, without the store lock; *)
(* then the profile's own lock, held while the bridge runs.                *)
(***************************************************************************)
\* loadBoundProfileCredential: a layer above the profile may set the control
\* URL (over), but not to another plane.
ConnectReads(x, p, over) ==
    /\ At(x, "idle") /\ "connect" \in Commands
    /\ profiles[p].cred # None
    /\ over \in {None, profiles[p].plane}
    /\ proc' = [proc EXCEPT ![x] =
                    [Idle EXCEPT !.pc = "readkey", !.op = "connect", !.prof = p,
                                 !.cred = profiles[p].cred, !.seen = profiles[p].plane]]
    /\ UNCHANGED <<profiles, keys, lock>>

LoadKey(x) ==
    /\ At(x, "readkey")
    /\ keys[proc[x].cred] # None
    /\ proc' = [proc EXCEPT ![x].key = keys[proc[x].cred], ![x].pc = "own"]
    /\ UNCHANGED <<profiles, keys, lock>>

LoadKeyFails(x) ==
    /\ At(x, "readkey")
    /\ keys[proc[x].cred] = None
    /\ Finish(x)
    /\ UNCHANGED <<profiles, keys>>

Connected(p) == \E y \in Procs : At(y, "connected") /\ proc[y].prof = p

\* lockCommandProfile.
OwnProfile(x) ==
    /\ At(x, "own") /\ ~Connected(proc[x].prof)
    /\ Goto(x, "connected")
    /\ UNCHANGED <<profiles, keys, lock>>

ProfileInUse(x) ==
    /\ At(x, "own") /\ Connected(proc[x].prof)
    /\ Finish(x)
    /\ UNCHANGED <<profiles, keys>>

Disconnect(x) ==
    /\ At(x, "connected")
    /\ Finish(x)
    /\ UNCHANGED <<profiles, keys>>

\* The process is killed.  A crash during a save leaves the old store or the new
\* one, and a temporary file nothing reads.
Crash(x) ==
    /\ ~At(x, "idle")
    /\ Finish(x)
    /\ UNCHANGED <<profiles, keys>>

Start(x) ==
    \/ \E p \in Profiles, plane \in Planes, force \in BOOLEAN : StartImport(x, p, plane, force)
    \/ \E p \in Profiles, given \in Planes \cup {None}, force \in BOOLEAN :
            InitReads(x, p, given, force)
    \/ \E p \in Profiles, c \in Creds, force \in BOOLEAN : SetReads(x, p, c, force)
    \/ \E c \in Creds, force \in BOOLEAN : StartRemove(x, c, force)
    \/ \E p \in Profiles : StartUnlink(x, p)
    \/ \E p \in Profiles, over \in Planes \cup {None} : ConnectReads(x, p, over)

MoveStep(x) == Load(x) \/ MoveRefused(x)
BindStep(x) ==
    \/ BindChecks(x) \/ BindRefused(x) \/ StatKey(x) \/ CredentialExists(x)
    \/ WriteKey(x) \/ WriteKeyFails(x) \/ Associate(x) \/ AssociateFails(x)
    \/ Restore(x) \/ RestoreFails(x)
UnbindStep(x) ==
    \/ RemovalRefused(x) \/ RemovalDecides(x)
    \/ RemoveKey(x) \/ RemoveKeyFails(x) \/ Clear(x)
ConnectStep(x) ==
    \/ LoadKey(x) \/ LoadKeyFails(x) \/ OwnProfile(x) \/ ProfileInUse(x) \/ Disconnect(x)

Next ==
    \E x \in Procs :
        \/ Start(x) \/ (\E k \in Keys : KeyTyped(x, k))
        \/ LockStore(x) \/ StoreBusy(x) \/ ReadFails(x)
        \/ MoveStep(x) \/ BindStep(x) \/ UnbindStep(x)
        \/ Save(x) \/ SaveFails(x) \/ Unlock(x)
        \/ ConnectStep(x)
        \/ Crash(x)

Spec == Init /\ [][Next]_vars

(***************************************************************************)
(* Properties.                                                             *)
(***************************************************************************)
\* The profile is on the control plane that issued the key it references.
AtHome(p) ==
    LET c == profiles[p].cred IN
    c = None \/ keys[c] = None \/ Issuer[keys[c]] = profiles[p].plane

\* A key is issued by one control plane and is never bound on another (#617,
\* #653): whatever the commands, failures and kills, no step takes a profile off the
\* plane of its key, but for the rollback of auth set.  That puts back the key it
\* found, for the profiles that referenced it then, and, when its save failed after
\* the rename, under its own profile, which references the key by now.
KeysKeepTheirPlane ==
    [][\A p \in Profiles : AtHome(p) /\ ~AtHome(p)' =>
            \E x \in Procs :
                /\ At(x, "restore") /\ keys' = [keys EXCEPT ![proc[x].cred] = proc[x].was.key]
                /\ \/ p \in proc[x].was.refs
                   \/ p = proc[x].prof /\ proc[x].late]_vars

\* init read its profile before the lock and another command has changed its plane,
\* or created it, since.
InitIsStale(x, p) ==
    proc[x].op = "init" /\ p = proc[x].prof /\ proc[x].seen # profiles[p].plane

\* The plane of a profile a command may write over the one that is there: what the
\* user asked for, in import or in a forced init, on a profile that is its own.
PlaneIsAsked(x, p) ==
    LET r == proc[x] IN
    /\ p = r.prof
    /\ \/ profiles[p].plane = None
       \/ r.data[p].plane = r.plane /\ (r.op = "import" \/ r.force)

\* The reference a command may write over the one that is there: its own credential,
\* none in place of the one it removes, or none where a forced move leaves the plane.
ReferenceIsAsked(x, p) ==
    LET r == proc[x] IN
    \/ r.op = "set" /\ p = r.prof /\ r.data[p].cred = r.cred
    \/ r.op \in {"remove", "unlink"} /\ profiles[p].cred = r.cred /\ r.data[p].cred = None
    \/ r.force /\ r.data[p].plane # profiles[p].plane /\ r.data[p].cred = None

\* SEC-391 AC1, "concurrent writers lose no update": a save replaces the whole file,
\* yet it changes one profile at most, and there only what its command was asked to
\* change.  The exception is init --profile, which writes its profile from what it
\* read before the lock: it puts back a control URL that was changed since, clearing
\* the reference that was bound there if forced, and without --force it overwrites a
\* profile that was created since.
NoLostUpdate ==
    \A x \in Procs : At(x, "save") =>
        /\ Cardinality({p \in Profiles : proc[x].data[p] # profiles[p]}) <= 1
        /\ \A p \in Profiles :
            /\ proc[x].data[p].plane # profiles[p].plane => PlaneIsAsked(x, p) \/ InitIsStale(x, p)
            /\ proc[x].data[p].cred # profiles[p].cred => ReferenceIsAsked(x, p)

\* "Credential removed" is true when auth remove is done: no key and no reference
\* is left, also when it finished the work of a removal that was interrupted.
RemovalIsComplete ==
    \A x \in Procs : At(x, "ok") /\ proc[x].op = "remove" =>
        keys[proc[x].cred] = None /\ References(proc[x].cred) = {}

\* After the rollback of auth set the key is the one it found under the lock, and so
\* are the references to it: exactly, when its save failed with the old file in place,
\* and but for its own profile, which has the reference, when it failed after the rename.
RollbackPutsBack ==
    \A x \in Procs : At(x, "restored") =>
        /\ keys[proc[x].cred] = proc[x].was.key
        /\ References(proc[x].cred) =
                proc[x].was.refs \cup (IF proc[x].late THEN {proc[x].prof} ELSE {})

\* "profile association failed, credential store restored": after the rollback
\* of auth set the key and the references to it are those it found under the lock.
FailedBindUndone ==
    \A x \in Procs : At(x, "restored") =>
        /\ keys[proc[x].cred] = proc[x].was.key
        /\ References(proc[x].cred) = proc[x].was.refs

\* UnbindCredential deletes the key before it clears a reference, so auth remove
\* never leaves a stored key that no profile references: the secret the user
\* believes removed is gone whatever fails or is killed afterwards.
RemovalLeavesNoSecret ==
    [][\A x \in Procs :
            Save(x) /\ proc[x].op \in {"remove", "unlink"} /\ keys[proc[x].cred] # None =>
                References(proc[x].cred)' # {}]_vars

\* store.go on ControlPlaneChangeError, a managed credential "must not follow the
\* profile to the new" control plane; credential_share.go on what must not happen:
\* "send it to the wrong one".  connect sends the key to the plane it resolved.
ConnectSendsKeyHome ==
    \A x \in Procs : At(x, "connected") => Issuer[proc[x].key] = proc[x].seen
=============================================================================
