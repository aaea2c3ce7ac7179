---------------------------- MODULE ConfigMerge -----------------------------
(***************************************************************************)
(* What configuration connect runs with: config.Merge and the profile that *)
(* cmd/cli/connect.go lays under it.                                       *)
(*                                                                         *)
(* A layer (YAML file, environment, flags, profile) is a function whose    *)
(* domain is the fields it sets; Go's "" and nil are fields outside the    *)
(* domain.  An address is <<host, port>>, port 0 standing for one that     *)
(* does not parse; a key is <<kind, id>> with kind "ts", "hs" or "bad"; a  *)
(* control URL is a name, "blank" one that TrimSpace empties and "bad" one *)
(* that controlurl.Validate refuses.                                       *)
(***************************************************************************)
EXTENDS Integers, Sequences

CONSTANT Second   \* one second in the unit of the durations

ASSUME SecondAssumption == Second \in Nat \ {0}

Modes == {"Target", "SOCKS5Addr"}
Strings == {"AuthKey", "LocalAddr", "Hostname", "StateDir", "ControlURL", "BootstrapSSH",
            "BootstrapSOCKSAddr", "HealthAddr", "HealthAllowRemote"}
Numbers == {"ConnectTimeout", "DialTimeout", "DrainTimeout", "IdleTimeout", "DialRetries",
            "DialBackoffBase", "DialBackoffMax", "MaxConnections"}

\* A layer of one field, and a layer over another: those of the module TLC, whose
\* own definitions the proof system cannot open.
f :> v == [x \in {f} |-> v]

upper @@ lower ==
    [f \in DOMAIN upper \cup DOMAIN lower |-> IF f \in DOMAIN upper THEN upper[f] ELSE lower[f]]

Empty == [f \in {} |-> f]
Sets(layer, f) == f \in DOMAIN layer
Without(layer, fields) == [f \in DOMAIN layer \ fields |-> layer[f]]
Only(layer, fields) == [f \in DOMAIN layer \cap fields |-> layer[f]]
Get(layer, f, otherwise) == IF Sets(layer, f) THEN layer[f] ELSE otherwise

-----------------------------------------------------------------------------
(* Addresses, keys and control planes *)

ValidPort(p) == p \in 1 .. 65535
validTarget(a) == a[1] # "" /\ ValidPort(a[2])
loopbackListener(a) == a[1] \in {"localhost", "127.0.0.1"} /\ ValidPort(a[2])
\* Hosts are compared as names or as IPs: localhost and 127.0.0.1 are two.
sameListenerEndpoint(a, b) == a = b /\ ValidPort(a[2])
healthExposed(cfg) == Sets(cfg, "HealthAddr") /\ cfg["HealthAddr"][1] \notin {"localhost", "127.0.0.1"}

ValidateKey(key) == key[1] # "bad"

TrimSpace(layer) ==
    IF Sets(layer, "ControlURL") /\ layer["ControlURL"] = "blank"
    THEN Without(layer, {"ControlURL"}) ELSE layer

ValidateControlPlane(key, cfg) ==
    /\ key[1] = "hs" => Sets(cfg, "ControlURL")
    /\ Get(cfg, "ControlURL", "saas") # "bad"

-----------------------------------------------------------------------------
(* The layers of Merge *)

defaults ==
    [f \in Numbers |->
        CASE f = "ConnectTimeout"  -> 30 * Second
          [] f = "DialTimeout"     -> 5 * Second
          [] f = "DrainTimeout"    -> 15 * Second
          [] f = "IdleTimeout"     -> 0
          [] f = "DialRetries"     -> 3
          [] f = "DialBackoffBase" -> Second
          [] f = "DialBackoffMax"  -> 30 * Second
          [] f = "MaxConnections"  -> 1000]

\* Whether a layer's number is taken; one that is not leaves the field alone.
\* 0 is "not given" in YAML and for most flags.
admitsYAML(f, n) == n > 0 \/ (f = "IdleTimeout" /\ n = 0)
admitsEnv(f, n) ==
    \/ f \in {"ConnectTimeout", "DrainTimeout"}
    \/ n > 0
    \/ f \notin {"DialTimeout", "MaxConnections"} /\ n = 0
admitsFlag(f, n) == n > 0 \/ f \in {"IdleTimeout", "DialRetries"}

\* numbers: the ones of the layer that are taken.
apply(layer, numbers, cfg) ==
    Only(layer, Strings \cup Modes \cup {"Routes"} \cup numbers) @@ cfg

\* Faulty variant: a lower layer's mode survives.
applyProxyModeKeeps(layer, cfg) == cfg

\* A target of the environment or of the flags ends a lower layer's SOCKS mode,
\* and the reverse; the YAML layer has nothing below it.
applyProxyMode(layer, cfg) ==
    IF DOMAIN layer \cap Modes # {} THEN Without(cfg, Modes) ELSE cfg

applyYAML(cfg, yaml) ==
    apply(yaml, {f \in DOMAIN yaml \cap Numbers : admitsYAML(f, yaml[f])}, cfg)

\* Routes have no variable; a route names its own source, so layers add up.
applyEnv(cfg, env) ==
    LET numbers == {f \in DOMAIN env \cap Numbers : admitsEnv(f, env[f])}
    IN apply(Without(env, {"Routes"}), numbers, applyProxyMode(env, cfg))

applyFlags(cfg, flags) ==
    LET routes == Get(flags, "Routes", {}) \cup Get(cfg, "Routes", {})
        numbers == {f \in DOMAIN flags \cap Numbers : admitsFlag(f, flags[f])}
    IN ("Routes" :> routes) @@ apply(flags, numbers, applyProxyMode(flags, cfg))

\* The four layers; a managed key counts only where no variable holds one, and a
\* flag outranks it.
Layered(yaml, env, flags, profileKey) ==
    TrimSpace(applyFlags(applyEnv(applyYAML(defaults, yaml), env) @@ profileKey, flags))

\* --manual-mode, TS_MANUAL_MODE, TS_AUTO_INSTANCE, auto_instance, in this order.
resolveAutoInstance(yaml, env, flags) ==
    /\ ~Get(flags, "ManualMode", FALSE)
    /\ IF Sets(env, "ManualMode") THEN ~env["ManualMode"]
       ELSE Get(env, "AutoInstance", Get(yaml, "AutoInstance", TRUE))

-----------------------------------------------------------------------------
(* What auto mode derives *)

defaultLocalAddr == <<"127.0.0.1", 33389>>
defaultAutoPortRange == <<33389, 34388>>
defaultBootstrapSOCKS == <<"127.0.0.1", 1055>>

validPortRange(r) == r[1] >= 1 /\ r[2] <= 65535 /\ r[1] <= r[2]
PortRange(env, flags) == Get(flags, "PortRange", Get(env, "PortRange", defaultAutoPortRange))

\* The first port that can be bound, from an offset a hash of the host, the target
\* and the instance gives; 0 when none is.  busy is what other processes hold.
selectAvailablePort(range, offset, busy) ==
    LET span == range[2] - range[1] + 1
        port(i) == range[1] + ((offset + i) % span)
        free(i) == port(i) \notin busy
    IN IF \A i \in 0 .. span - 1 : ~free(i) THEN 0
       ELSE port(CHOOSE i \in 0 .. span - 1 : free(i) /\ \A j \in 0 .. i - 1 : ~free(j))

\* A derived name holds the process id, so it is no other process's.
deriveAutoHostname(instance) == "derived-" \o instance
EphemeralStateDir(hostname) == "tmp-" \o hostname
StateDirForPlatform == "platform"

LocalAddrDerived(auto, cfg) == auto /\ ~Sets(cfg, "LocalAddr") /\ ~Sets(cfg, "SOCKS5Addr")

applyAutoInstance(auto, cfg, env, flags, offset, busy) ==
    LET instance == Get(flags, "Instance", Get(env, "Instance", ""))
        listening ==
            IF LocalAddrDerived(auto, cfg)
            THEN "LocalAddr" :> <<"127.0.0.1", selectAvailablePort(PortRange(env, flags), offset, busy)>> @@ cfg
            ELSE cfg
        named ==
            IF auto /\ ~Sets(cfg, "Hostname") /\ instance # ""
            THEN "Hostname" :> deriveAutoHostname(instance) @@ listening ELSE listening
    IN IF auto /\ ~Sets(named, "StateDir") /\ Sets(named, "Hostname")
       THEN "StateDir" :> EphemeralStateDir(named["Hostname"]) @@ "EphemeralState" :> TRUE @@ named
       ELSE "EphemeralState" :> FALSE @@ named

normalizeBootstrapConfig(cfg) ==
    IF Sets(cfg, "BootstrapSSH") THEN cfg @@ "BootstrapSOCKSAddr" :> defaultBootstrapSOCKS ELSE cfg

Finished(cfg) ==
    LET tcp == IF Sets(cfg, "SOCKS5Addr") THEN cfg ELSE cfg @@ "LocalAddr" :> defaultLocalAddr
    IN tcp @@ "Hostname" :> "ts-bridge" @@ "StateDir" :> StateDirForPlatform

-----------------------------------------------------------------------------
(* Merge.  The checks of one layer, of the merged fields and of the derived    *)
(* ones; Merge returns at the first that fails.                                *)

ModeConflict(layer) == Modes \subseteq DOMAIN layer

validateMergedProxyConfig(cfg) ==
    {r \in {"target", "socks", "routes", "no mode", "no key", "key"} :
        CASE r = "target"  -> Sets(cfg, "Target") /\ ~validTarget(cfg["Target"])
          [] r = "socks"   -> Sets(cfg, "SOCKS5Addr") /\ ~loopbackListener(cfg["SOCKS5Addr"])
          [] r = "routes"  -> "bad" \in cfg["Routes"] \/ (Sets(cfg, "Target") /\ cfg["Routes"] # {})
          [] r = "no mode" -> DOMAIN cfg \cap Modes = {}
          [] r = "no key"  -> ~Sets(cfg, "AuthKey")
          [] r = "key"     -> Sets(cfg, "AuthKey") /\ ~ValidateKey(cfg["AuthKey"])}

validateBootstrap(cfg) ==
    IF ~Sets(cfg, "BootstrapSSH") THEN ~Sets(cfg, "BootstrapSOCKSAddr")
    ELSE Sets(cfg, "ControlURL") /\ loopbackListener(cfg["BootstrapSOCKSAddr"])

validateDialRetries(env, cfg) == Get(env, "DialRetries", 0) >= 0 /\ cfg["DialRetries"] >= 0
validateIdleTimeout(cfg) == cfg["IdleTimeout"] >= 0

validateBootstrapListenerCollision(cfg) ==
    Sets(cfg, "BootstrapSOCKSAddr") =>
        \A f \in {"LocalAddr", "SOCKS5Addr", "HealthAddr"} \cap DOMAIN cfg :
            ~sameListenerEndpoint(cfg["BootstrapSOCKSAddr"], cfg[f])

ValidateHealthListener(cfg) ==
    /\ Sets(cfg, "HealthAddr") => ValidPort(cfg["HealthAddr"][2])
    /\ healthExposed(cfg) => Get(cfg, "HealthAllowRemote", FALSE)

\* [refused: the checks that fail, cfg: the configuration if none does].
Merge(yaml, env, flags, profileKey, offset, busy) ==
    LET merged == normalizeBootstrapConfig(Layered(yaml, env, flags, profileKey))
        auto == resolveAutoInstance(yaml, env, flags)
        derives == LocalAddrDerived(auto, merged)
        badRange == derives /\ ~validPortRange(PortRange(env, flags))
        cfg == IF badRange THEN merged
               ELSE Finished(applyAutoInstance(auto, merged, env, flags, offset, busy))
        fails ==
            [ r \in {"YAML key", "mode", "plane", "bootstrap", "retries", "idle", "ports", "collision"} |->
                CASE r = "YAML key"  -> Sets(yaml, "AuthKey")
                  [] r = "mode"      -> ModeConflict(yaml) \/ ModeConflict(env) \/ ModeConflict(flags)
                  [] r = "plane"     -> Sets(merged, "AuthKey") /\ ~ValidateControlPlane(merged["AuthKey"], merged)
                  [] r = "bootstrap" -> ~validateBootstrap(merged)
                  [] r = "retries"   -> ~validateDialRetries(env, merged)
                  [] r = "idle"      -> ~validateIdleTimeout(merged)
                  [] r = "ports"     -> badRange \/ (derives /\ cfg["LocalAddr"][2] = 0)
                  [] r = "collision" -> ~validateBootstrapListenerCollision(cfg) ]
    IN [cfg |-> cfg, refused |-> validateMergedProxyConfig(merged) \cup {r \in DOMAIN fails : fails[r]}]
=============================================================================
