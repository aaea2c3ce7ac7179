---------------------------- MODULE ConfigFiles -----------------------------
(***************************************************************************)
(* ts-bridge init writes the files that ts-bridge connect reads: one .env  *)
(* (--format env), or a YAML file and the .env beside it (--format yaml),  *)
(* which outranks it.  Neither command takes a lock, init writes the two   *)
(* files one after the other and can be stopped in between, and a person   *)
(* edits both by hand.  What connect makes of them is ConfigMerge.         *)
(***************************************************************************)
EXTENDS ConfigMerge, Backoff

CONSTANTS
    InitInputs,    \* [flags, answers, format, force, tty]: the flags of an init and what
                   \* its wizard is answered
    Settings,      \* [env, flags, profile, config]: what a connect is started with, its
                   \* explicit variables, its flags, its profile and whether --config is given
    WithInit,      \* those of them that are tried with and after an init: a bound
    Edits,         \* what a person may leave on the disk
    Offsets,       \* outcomes of the hash selectAvailablePort starts from
    Busy,          \* the ports other processes hold
    MaxInits, MaxEdits,
    None           \* no init to be held to

\* What parses as a number, or a duration, is an integer.
IntNumbers(layer) == \A f \in DOMAIN layer \cap Numbers : layer[f] \in Int

ASSUME NumbersAssumption ==
    /\ \A s \in Settings : IntNumbers(s.env) /\ IntNumbers(s.flags)
    /\ \A d \in Edits : \A name \in DOMAIN d : IntNumbers(d[name])
    /\ Offsets \subseteq Nat

\* Go's "" is a field outside the domain, of a flag as of an answer.
ASSUME InputsAssumption ==
    \A in \in InitInputs : \A layer \in {in.flags, in.answers} :
        /\ Get(layer, "ControlURL", "saas") # "empty" /\ Get(layer, "Instance", "none") # ""
        /\ Sets(layer, "PortRange") => layer["PortRange"] \in Int \X Int

VARIABLES
    disk,    \* the files that exist, "yaml" and "env", and the fields each sets
    init,    \* the init that runs
    conn,    \* the connect that runs
    given,   \* what the init that wrote this .env was given, and whether the files
             \* are all its own; None once a person edits them
    inits, edits

vars == <<disk, init, conn, given, inits, edits>>

Idle == [pc |-> "idle"]
File(name) == IF name \in DOMAIN disk THEN disk[name] ELSE Empty

Init ==
    /\ disk = Empty
    /\ init = Idle
    /\ conn = Idle
    /\ given = None
    /\ inits = 0
    /\ edits = 0

-----------------------------------------------------------------------------
(* Reading: envfile, decodeYAML, the profile *)

\* A blank value reads as an empty one.
Values ==
    LET l == File("env")
    IN IF Get(l, "ControlURL", "saas") = "blank" THEN "ControlURL" :> "empty" @@ l ELSE l

\* os.Setenv for every pair, over what the process was started with; os.Getenv
\* then takes an empty value for an unset one.
Load(explicit) ==
    LET l == Values @@ explicit
    IN IF Get(l, "ControlURL", "saas") = "empty" THEN Without(l, {"ControlURL"}) ELSE l

\* decodeYAML only warns of a field it does not know, port_range among them.
knownFields ==
    (Strings \ {"HealthAllowRemote"}) \cup Modes \cup Numbers \cup {"Routes", "AutoInstance"}

LoadYAMLConfig == TrimSpace(Only(File("yaml"), knownFields))

\* Faulty variant: a blank value counts as none.
overridingControlURLTrimmed(flags, env, yaml) ==
    TrimSpace(Only(flags, {"ControlURL"})) @@ TrimSpace(Only(env, {"ControlURL"})) @@ Only(yaml, {"ControlURL"})

\* The control URL a layer above the profile imposes: a blank one imposes SaaS.
overridingControlURL(flags, env, yaml) ==
    Only(flags, {"ControlURL"}) @@ Only(env, {"ControlURL"}) @@ Only(yaml, {"ControlURL"})

\* Whether the profile's managed key is asked for, and whether it may go where the
\* merge will lead; SameControlURL trims both sides.
usesManagedKey(s, env) ==
    Sets(s.profile, "Credential") /\ ~Sets(s.flags, "AuthKey") /\ ~Sets(env, "AuthKey")

credentialIsBound(s, env, yaml) ==
    LET imposed == overridingControlURL(s.flags, env, yaml)
    IN Sets(imposed, "ControlURL") =>
            Get(TrimSpace(imposed), "ControlURL", "saas") = Get(TrimSpace(s.profile), "ControlURL", "saas")

profileFields ==
    {"Target", "ControlURL", "BootstrapSSH", "BootstrapSOCKSAddr", "Hostname", "StateDir",
     "LocalAddr", "HealthAddr"}

applyConnectProfile(yaml, profile) == yaml @@ Only(profile, profileFields)

-----------------------------------------------------------------------------
(* ts-bridge connect: .env, YAML, profile, merge *)

ConnectLoad(s) ==
    /\ conn.pc = "idle"
    /\ inits > 0 => s \in WithInit
    /\ conn' = [pc |-> "loaded", s |-> s, dotenv |-> Values, env |-> Load(s.env),
                given |-> given]
    /\ UNCHANGED <<disk, init, given, inits, edits>>

Resolved(offset) ==
    LET s == conn.s
        file == IF s.config THEN LoadYAMLConfig ELSE Empty
        yaml == applyConnectProfile(file, s.profile)
        managed == usesManagedKey(s, conn.env)
        profileKey == IF managed THEN "AuthKey" :> s.profile["Credential"] ELSE Empty
        merged == Merge(yaml, conn.env, s.flags, profileKey, offset, Busy)
        refused ==
            {r \in {"no file", "bound", "health"} :
                CASE r = "no file" -> s.config /\ "yaml" \notin DOMAIN disk
                  [] r = "bound"   -> managed /\ ~credentialIsBound(s, conn.env, file)
                  [] r = "health"  -> merged.refused = {} /\ ~ValidateHealthListener(merged.cfg)}
    IN [cfg |-> merged.cfg, refused |-> merged.refused \cup refused, managed |-> managed, file |-> file]

ConnectResolve(offset) ==
    /\ conn.pc = "loaded"
    /\ LET r == Resolved(offset)
       IN conn' = [pc |-> IF r.refused = {} THEN "up" ELSE "refused",
                   s |-> conn.s, dotenv |-> conn.dotenv, env |-> conn.env, file |-> r.file,
                   cfg |-> IF r.refused = {} THEN r.cfg ELSE Empty,
                   refused |-> r.refused, managed |-> r.managed,
                   given |-> conn.given, undisturbed |-> given = conn.given]
    /\ UNCHANGED <<disk, init, given, inits, edits>>

ConnectEnds ==
    /\ conn.pc \in {"up", "refused"}
    /\ conn' = Idle
    /\ UNCHANGED <<disk, init, given, inits, edits>>

-----------------------------------------------------------------------------
(* ts-bridge init *)

\* The wizard asks for the key, the target, the instance, the port range if there
\* is no instance, and the format.
collectInteractiveInputs(in) ==
    LET range == IF Sets(in.answers, "Instance") THEN {} ELSE {"PortRange"}
    IN Only(in.answers, {"AuthKey", "Target", "Instance"} \cup range)
        @@ Only(in.flags, {"ControlURL", "PortRange"})

Interactive(in) == ~({"AuthKey", "Target"} \subseteq DOMAIN in.flags)

InitFlags(in) == IF Interactive(in) THEN collectInteractiveInputs(in) ELSE in.flags

\* The flag when there is one; else, in YAML mode, the .env init preserves.
effectiveControlURL(f, format) ==
    IF Sets(f, "ControlURL") THEN Only(f, {"ControlURL"})
    ELSE IF format = "yaml" THEN Only(Values, {"ControlURL"})
    ELSE Empty

Trimmed(l) == IF Get(l, "ControlURL", "saas") \in {"blank", "empty"} THEN Empty ELSE l

\* runInit up to the files, with what its validators let through.  An init that is
\* refused here changes nothing.
InitBegin(in) ==
    LET f == InitFlags(in)
        plane == Trimmed(effectiveControlURL(f, in.format))
    IN /\ init.pc = "idle"
       /\ inits < MaxInits
       /\ conn.pc # "idle" => conn.s \in WithInit
       /\ Sets(in.flags, "AuthKey") => Sets(in.flags, "Target")
       /\ Interactive(in) => in.tty
       /\ {"AuthKey", "Target"} \subseteq DOMAIN f /\ ValidateKey(f["AuthKey"])
       /\ validTarget(f["Target"])
       /\ Sets(f, "PortRange") => validPortRange(f["PortRange"])
       /\ ValidateControlPlane(f["AuthKey"], plane)
       /\ init' = [pc |-> "confirm", in |-> in, f |-> f, plane |-> plane, touched |-> FALSE]
       /\ inits' = inits + 1
       /\ UNCHANGED <<disk, conn, given, edits>>

\* ensureWritable for the files to be written, which may wait for a person, and
\* then the second read of .env.
InitConfirm ==
    LET yaml == init.in.format = "yaml"
        files == IF yaml THEN {"yaml", "env"} ELSE {"env"}
    IN /\ init.pc = "confirm"
       /\ files \cap DOMAIN disk # {} => init.in.force \/ init.in.tty
       /\ init' = [init EXCEPT !.pc = IF yaml THEN "writeYAML" ELSE "writeEnv"]
                    @@ "existing" :> Values
       /\ UNCHANGED <<disk, conn, given, inits, edits>>

buildYAMLContent(f) ==
    LET hostname == IF Sets(f, "Instance") THEN "Hostname" :> "tsb-" \o f["Instance"] ELSE Empty
    IN Only(f, {"Target", "ControlURL", "PortRange"}) @@ hostname

\* Faulty variants: the control URL of the previous .env stays; it is in YAML only.
buildEnvContentPreserves(f, existing) == Only(f, {"AuthKey", "Target"}) @@ existing
buildEnvContentKeyOnly(f, existing) ==
    Only(f, {"AuthKey", "Target"}) @@ Without(existing, {"ControlURL"})

\* The target and the control URL init was given, not the preserved ones.
buildEnvContent(f, existing) == Only(f, {"AuthKey", "Target", "ControlURL"}) @@ existing

buildEnvConfigContent(f) == Only(f, {"AuthKey", "Target", "Instance", "PortRange", "ControlURL"})

InitWritesYAML ==
    /\ init.pc = "writeYAML"
    /\ disk' = "yaml" :> buildYAMLContent(init.f) @@ disk
    /\ init' = [init EXCEPT !.pc = "writeEnv"]
    /\ given' = IF given = None THEN None ELSE [given EXCEPT !.whole = FALSE]
    /\ UNCHANGED <<conn, inits, edits>>

InitWritesEnv ==
    /\ init.pc = "writeEnv"
    /\ disk' = "env" :> (IF init.in.format = "yaml" THEN buildEnvContent(init.f, init.existing)
                         ELSE buildEnvConfigContent(init.f)) @@ disk
    /\ given' = IF init.touched THEN None
                ELSE [f |-> init.f, plane |-> init.plane, format |-> init.in.format, whole |-> TRUE]
    /\ init' = Idle
    /\ UNCHANGED <<conn, inits, edits>>

\* Not confirmed, killed, or a write that fails, before or after its rename.
InitStops ==
    /\ init.pc # "idle"
    /\ init' = Idle
    /\ UNCHANGED <<disk, conn, given, inits, edits>>

-----------------------------------------------------------------------------
(* The person *)

Edit(d) ==
    /\ edits < MaxEdits
    /\ disk' = d
    /\ edits' = edits + 1
    /\ given' = None
    /\ init' = IF init.pc = "idle" THEN init ELSE [init EXCEPT !.touched = TRUE]
    /\ UNCHANGED <<conn, inits>>

Next ==
    \/ \E s \in Settings : ConnectLoad(s)
    \/ \E o \in Offsets : ConnectResolve(o)
    \/ ConnectEnds
    \/ \E in \in InitInputs : InitBegin(in)
    \/ InitConfirm \/ InitWritesYAML \/ InitWritesEnv \/ InitStops
    \/ \E d \in Edits : Edit(d)

Spec == Init /\ [][Next]_vars

-----------------------------------------------------------------------------
(* Properties *)

\* Types: the files of init and connect, and the points both commands can be at.
TypeOK ==
    /\ DOMAIN disk \subseteq {"yaml", "env"}
    /\ init.pc \in {"idle", "confirm", "writeYAML", "writeEnv"}
    /\ conn.pc \in {"idle", "loaded", "up", "refused"}
    /\ given # None => given.format \in {"yaml", "env"} /\ given.whole \in BOOLEAN
    /\ inits \in 0 .. MaxInits
    /\ edits \in 0 .. MaxEdits

Up == conn.pc = "up"

\* The connect that init's "Next step" names: its files and nothing else.
Plain(g) ==
    /\ conn.s.env = Empty /\ conn.s.flags = Empty /\ conn.s.profile = Empty
    /\ conn.s.config <=> g.format = "yaml"

\* What init writes into .env; anything else there is a setting that an init in
\* YAML format has preserved.
InitFields == {"AuthKey", "Target", "ControlURL", "Instance", "PortRange"}

\* init validates "the values this run makes effective": once it has finished, and
\* whatever inits were stopped half way before, the connect it points to is not
\* refused for its key, target or control plane, and runs with the ones given; in
\* the env format with the port range and the instance as well.  With a .env that
\* holds nothing else it is refused for want of a free port only; with a preserved
\* TS_SOCKS5_ADDR beside the target init writes, it is always refused.
InitIsHonoured ==
    (conn.pc \in {"up", "refused"} /\ conn.given # None /\ conn.undisturbed) =>
        LET g == conn.given
        IN g.whole /\ Plain(g) =>
            /\ conn.refused \cap {"target", "no mode", "key", "no key", "YAML key", "plane", "no file"} = {}
            /\ "mode" \in conn.refused <=> Sets(conn.env, "SOCKS5Addr")
            /\ g.format = "env" \/ DOMAIN conn.env \subseteq InitFields => conn.refused \subseteq {"ports"}
            /\ Up => /\ conn.cfg["AuthKey"] = g.f["AuthKey"]
                     /\ conn.cfg["Target"] = g.f["Target"]
                     /\ Only(conn.cfg, {"ControlURL"}) = g.plane
            /\ (Up /\ g.format = "env") =>
                    /\ Sets(g.f, "PortRange") =>
                            conn.cfg["LocalAddr"][2] \in g.f["PortRange"][1] .. g.f["PortRange"][2]
                    /\ Sets(g.f, "Instance") => conn.cfg["Hostname"] = deriveAutoHostname(g.f["Instance"])

\* A key that init stored together with a control URL goes to that control plane
\* and to no other, also while a later init is between its two writes or was
\* stopped there, unless connect is told otherwise by a flag.
KeyKeepsItsPlane ==
    (/\ Up /\ conn.given # None
     /\ Sets(conn.given.plane, "ControlURL")
     /\ conn.cfg["AuthKey"] = conn.given.f["AuthKey"]
     /\ DOMAIN conn.s.flags \cap {"AuthKey", "ControlURL"} = {}) =>
        Only(conn.cfg, {"ControlURL"}) = conn.given.plane

\* loadBoundProfileCredential foresees the control URL Merge will resolve: a
\* managed key is never part of a configuration for another control plane.
ManagedKeyStaysHome ==
    (Up /\ conn.managed) =>
        Get(conn.cfg, "ControlURL", "saas") = Get(TrimSpace(conn.s.profile), "ControlURL", "saas")

\* The layers from the top.  A control URL that is empty sets nothing, and in .env
\* it also unsets the explicit variable.
NonEmpty(l) == IF Get(l, "ControlURL", "saas") = "empty" THEN Without(l, {"ControlURL"}) ELSE l
Explicit ==
    IF Get(conn.dotenv, "ControlURL", "saas") = "empty" THEN Without(conn.s.env, {"ControlURL"})
    ELSE NonEmpty(conn.s.env)

Layers ==
    <<conn.s.flags, NonEmpty(conn.dotenv), Explicit, conn.file, Only(conn.s.profile, profileFields)>>
Tops(fields) ==
    {i \in 1 .. 5 : /\ DOMAIN Layers[i] \cap fields # {}
                    /\ \A j \in 1 .. i - 1 : DOMAIN Layers[j] \cap fields = {}}

\* flags > .env > explicit variables > YAML > profile > defaults: the topmost layer
\* that says TCP or SOCKS decides which, the topmost that names a field decides it,
\* and a state directory some layer names is not the ephemeral one that shutdown
\* deletes.  That .env outranks the explicit variables is what envfile.Load does.
LayersDecide ==
    Up =>
        /\ \A i \in Tops(Modes) : Only(conn.cfg, Modes) = Only(Layers[i], Modes)
        /\ \A f \in Strings \ {"ControlURL"} : \A i \in Tops({f}) : conn.cfg[f] = Layers[i][f]
        /\ \A i \in Tops({"ControlURL"}) :
                Only(conn.cfg, {"ControlURL"}) = TrimSpace(Only(Layers[i], {"ControlURL"}))
        /\ \A f \in Numbers : \A i \in Tops({f}) : Layers[i][f] > 0 => conn.cfg[f] = Layers[i][f]
        /\ Tops({"StateDir"}) # {} => ~conn.cfg["EphemeralState"]

\* Whatever base, ceiling and retry count connect accepts, no wait before a retry
\* is longer than one and a half times the ceiling, also where the shift overflows;
\* and none is negative, unless that length does not fit a time.Duration.
BackoffBounded ==
    Up => LET longest == conn.cfg["DialBackoffMax"] + (conn.cfg["DialBackoffMax"] \div 2)
          IN \A attempt \in 0 .. conn.cfg["DialRetries"] - 1 :
                \A wait \in computeBackoff(attempt, conn.cfg["DialBackoffBase"], conn.cfg["DialBackoffMax"]) :
                    wait <= longest /\ (wait >= 0 \/ longest > MaxDuration)
=============================================================================
