------------------------- MODULE ConfigFilesProofs --------------------------
(***************************************************************************)
(* Proofs about ConfigFiles, for every file, environment, set of flags and *)
(* profile, every init and every edit.                                     *)
(***************************************************************************)
EXTENDS ConfigFiles, WellFoundedInduction, TLAPS

----------------------------------------------------------------------------
(***************************************************************************)
(* The operators on layers.                                                *)
(***************************************************************************)
\* A layer of one field.
LEMMA FieldFacts == ASSUME NEW f, NEW v PROVE DOMAIN (f :> v) = {f} /\ (f :> v)[f] = v
  BY DEF :>

\* A layer over another: its fields win.
LEMMA OverFacts ==
    ASSUME NEW a, NEW b
    PROVE  /\ DOMAIN (a @@ b) = DOMAIN a \cup DOMAIN b
           /\ \A f \in DOMAIN a : (a @@ b)[f] = a[f]
           /\ \A f \in DOMAIN b \ DOMAIN a : (a @@ b)[f] = b[f]
  BY DEF @@

\* Some fields of a layer, and a layer without some.
LEMMA OnlyFacts ==
    ASSUME NEW l, NEW fields
    PROVE  /\ DOMAIN Only(l, fields) = DOMAIN l \cap fields
           /\ \A f \in DOMAIN l \cap fields : Only(l, fields)[f] = l[f]
           /\ DOMAIN Without(l, fields) = DOMAIN l \ fields
           /\ \A f \in DOMAIN l \ fields : Without(l, fields)[f] = l[f]
  BY DEF Only, Without

\* Two layers that agree on a set of fields are the same there.
LEMMA OnlyEqual ==
    ASSUME NEW l, NEW m, NEW fields,
           \A f \in fields : f \in DOMAIN l <=> f \in DOMAIN m,
           \A f \in fields : f \in DOMAIN m => l[f] = m[f]
    PROVE  Only(l, fields) = Only(m, fields)
<1>1. DOMAIN l \cap fields = DOMAIN m \cap fields
  OBVIOUS
<1> QED
  BY <1>1 DEF Only

\* strings.TrimSpace of the control URL leaves the other fields.
LEMMA TrimFacts ==
    ASSUME NEW l
    PROVE  /\ \A f : f # "ControlURL" => (f \in DOMAIN TrimSpace(l) <=> f \in DOMAIN l)
           /\ \A f \in DOMAIN l : f # "ControlURL" => TrimSpace(l)[f] = l[f]
           /\ "ControlURL" \in DOMAIN TrimSpace(l) <=>
                 "ControlURL" \in DOMAIN l /\ l["ControlURL"] # "blank"
           /\ "ControlURL" \in DOMAIN TrimSpace(l) => TrimSpace(l)["ControlURL"] = l["ControlURL"]
<1>1. CASE Sets(l, "ControlURL") /\ l["ControlURL"] = "blank"
  BY <1>1 DEF TrimSpace, Sets, Without
<1>2. CASE ~(Sets(l, "ControlURL") /\ l["ControlURL"] = "blank")
  <2>1. TrimSpace(l) = l
    BY <1>2 DEF TrimSpace
  <2> QED
    BY <1>2, <2>1 DEF Sets
<1> QED
  BY <1>1, <1>2

----------------------------------------------------------------------------
(***************************************************************************)
(* Merge, field by field.                                                  *)
(***************************************************************************)
\* What applying a layer to what is below it gives: its strings win, its positive
\* numbers win, the ceiling of the backoff is never a negative one, and a mode of its own ends every mode below.
Applied(result, layer, below) ==
    /\ \A f \in Strings :
          /\ f \in DOMAIN result <=> f \in DOMAIN layer \cup DOMAIN below
          /\ f \in DOMAIN layer => result[f] = layer[f]
          /\ f \in DOMAIN below \ DOMAIN layer => result[f] = below[f]
    /\ \A f \in Numbers :
          /\ f \in DOMAIN below => f \in DOMAIN result
          /\ f \in DOMAIN layer /\ layer[f] > 0 => f \in DOMAIN result /\ result[f] = layer[f]
          /\ f \in DOMAIN below \ DOMAIN layer => result[f] = below[f]
          /\ f \in DOMAIN result =>
                \/ f \in DOMAIN below /\ result[f] = below[f]
                \/ /\ f \in DOMAIN layer /\ result[f] = layer[f]
                   /\ f = "DialBackoffMax" => layer[f] > 0 \/ layer[f] = 0
    /\ \A f \in Modes :
          LET from == IF DOMAIN layer \cap Modes # {} THEN layer ELSE below IN
          /\ f \in DOMAIN result <=> f \in DOMAIN from
          /\ f \in DOMAIN from => result[f] = from[f]

\* c is layer's fields in taken, over cfg.
Takes(c, layer, taken, cfg) ==
    /\ DOMAIN c = taken \cup DOMAIN cfg
    /\ \A f \in taken : c[f] = layer[f]
    /\ \A f \in DOMAIN cfg \ taken : c[f] = cfg[f]

\* apply: the admitted fields of the layer, over the rest.
LEMMA ApplyFacts ==
    ASSUME NEW layer, NEW numbers, NEW cfg
    PROVE  Takes(apply(layer, numbers, cfg), layer,
                 DOMAIN layer \cap (Strings \cup Modes \cup {"Routes"} \cup numbers), cfg)
<1>0. PICK taken : taken = DOMAIN layer \cap (Strings \cup Modes \cup {"Routes"} \cup numbers)
  OBVIOUS
<1>1. PICK o : o = Only(layer, Strings \cup Modes \cup {"Routes"} \cup numbers)
  OBVIOUS
<1>2. DOMAIN o = taken /\ \A f \in taken : o[f] = layer[f]
  BY <1>0, <1>1 DEF Only
<1>3. PICK c : c = apply(layer, numbers, cfg)
  OBVIOUS
<1>4. c = o @@ cfg
  BY <1>1, <1>3 DEF apply
<1>5. Takes(c, layer, taken, cfg)
  BY <1>2, <1>4 DEF @@, Takes
<1> QED
  BY <1>0, <1>3, <1>5, Zenon

\* The three kinds of fields have different names.
LEMMA KindsApart ==
    /\ Strings \cap Numbers = {} /\ Strings \cap Modes = {} /\ Numbers \cap Modes = {}
    /\ "Routes" \notin Strings \cup Numbers \cup Modes
    /\ "EphemeralState" \notin Strings \cup Numbers \cup Modes
  BY DEF Strings, Numbers, Modes

\* applyProxyMode: below a layer that names a mode there is none.
LEMMA ProxyModeFacts ==
    ASSUME NEW layer, NEW cfg, NEW below, below = applyProxyMode(layer, cfg)
    PROVE  /\ \A f : f \notin Modes => (f \in DOMAIN below <=> f \in DOMAIN cfg)
           /\ \A f \in Modes : f \in DOMAIN below <=>
                 f \in DOMAIN cfg /\ DOMAIN layer \cap Modes = {}
           /\ \A f \in DOMAIN below : below[f] = cfg[f]
<1>1. CASE DOMAIN layer \cap Modes # {}
  BY <1>1 DEF applyProxyMode, Without
<1>2. CASE DOMAIN layer \cap Modes = {}
  BY <1>2 DEF applyProxyMode
<1> QED
  BY <1>1, <1>2

\* applyYAML, over the defaults.
LEMMA YAMLApplied ==
    ASSUME NEW yaml
    PROVE  Applied(applyYAML(defaults, yaml), yaml, defaults)
<1>n. PICK numbers : numbers = {f \in DOMAIN yaml \cap Numbers : admitsYAML(f, yaml[f])}
  OBVIOUS
<1>1. PICK taken : taken = DOMAIN yaml \cap (Strings \cup Modes \cup {"Routes"} \cup numbers)
  OBVIOUS
<1>2. PICK c : c = applyYAML(defaults, yaml)
  OBVIOUS
<1>3. /\ DOMAIN c = taken \cup DOMAIN defaults
      /\ \A f \in taken : c[f] = yaml[f]
      /\ \A f \in DOMAIN defaults \ taken : c[f] = defaults[f]
  <2>1. c = apply(yaml, numbers, defaults)
    BY <1>n, <1>2 DEF applyYAML
  <2> QED
    <3>1. Takes(c, yaml, taken, defaults)
      BY <1>1, <2>1, ApplyFacts, Zenon
    <3> QED
      BY <3>1 DEF Takes
<1>4. DOMAIN defaults = Numbers
  BY DEF defaults
<1>m. \A f \in Numbers \cap taken : f = "DialBackoffMax" => yaml[f] > 0 \/ yaml[f] = 0
  <2>1. \A f \in Numbers \cap taken : f \in numbers
    BY <1>1, KindsApart
  <2> QED
    BY <1>n, <2>1 DEF admitsYAML
<1>5. \A f \in Numbers : f \in DOMAIN yaml /\ yaml[f] > 0 => f \in taken
  BY <1>n, <1>1 DEF admitsYAML
<1>6. \A f \in Strings \cup Modes : f \in taken <=> f \in DOMAIN yaml
  BY <1>n, <1>1
<1>7. \A f \in taken : f \in DOMAIN yaml
  BY <1>1
<1> QED
  BY <1>2, <1>3, <1>4, <1>5, <1>6, <1>7, <1>m, KindsApart DEF Applied

\* applyEnv: the environment has no routes.
LEMMA EnvApplied ==
    ASSUME NEW env, NEW cfg
    PROVE  Applied(applyEnv(cfg, env), env, cfg)
<1>n. PICK numbers : numbers = {f \in DOMAIN env \cap Numbers : admitsEnv(f, env[f])}
  OBVIOUS
<1>0. PICK e, below : e = Without(env, {"Routes"}) /\ below = applyProxyMode(env, cfg)
  OBVIOUS
<1>1. PICK taken : taken = DOMAIN e \cap (Strings \cup Modes \cup {"Routes"} \cup numbers)
  OBVIOUS
<1>2. PICK c : c = applyEnv(cfg, env)
  OBVIOUS
<1>3. /\ DOMAIN c = taken \cup DOMAIN below
      /\ \A f \in taken : c[f] = e[f]
      /\ \A f \in DOMAIN below \ taken : c[f] = below[f]
  <2>1. c = apply(e, numbers, below)
    BY <1>n, <1>0, <1>2 DEF applyEnv
  <2> QED
    <3>1. Takes(c, e, taken, below)
      BY <1>1, <2>1, ApplyFacts, Zenon
    <3> QED
      BY <3>1 DEF Takes
<1>4. DOMAIN e = DOMAIN env \ {"Routes"} /\ \A f \in DOMAIN e : e[f] = env[f]
  BY <1>0 DEF Without
<1>m. \A f \in Numbers \cap taken : f = "DialBackoffMax" => env[f] > 0 \/ env[f] = 0
  <2>1. \A f \in Numbers \cap taken : f \in numbers
    BY <1>1, KindsApart
  <2> QED
    BY <1>n, <2>1 DEF admitsEnv
<1>5. \A f \in Numbers : f \in DOMAIN env /\ env[f] > 0 => f \in taken
  BY <1>n, <1>1, <1>4, KindsApart DEF admitsEnv
<1>6. \A f \in Strings \cup Modes : f \in taken <=> f \in DOMAIN env
  BY <1>n, <1>1, <1>4, KindsApart
<1>7. \A f \in taken : f \in DOMAIN env /\ c[f] = env[f]
  BY <1>1, <1>3, <1>4
<1>8. /\ \A f : f \notin Modes => (f \in DOMAIN below <=> f \in DOMAIN cfg)
      /\ \A f \in Modes : f \in DOMAIN below <=> f \in DOMAIN cfg /\ DOMAIN env \cap Modes = {}
      /\ \A f \in DOMAIN below : below[f] = cfg[f]
  BY <1>0, ProxyModeFacts
<1> QED
  BY <1>2, <1>3, <1>5, <1>6, <1>7, <1>8, <1>m, KindsApart DEF Applied

\* applyFlags: the flags' routes are added to those below.
LEMMA FlagsApplied ==
    ASSUME NEW flags, NEW cfg
    PROVE  Applied(applyFlags(cfg, flags), flags, cfg)
<1>n. PICK numbers : numbers = {f \in DOMAIN flags \cap Numbers : admitsFlag(f, flags[f])}
  OBVIOUS
<1>0. PICK below, routes : /\ below = applyProxyMode(flags, cfg)
                           /\ routes = Get(flags, "Routes", {}) \cup Get(cfg, "Routes", {})
  OBVIOUS
<1>1. PICK taken : taken = DOMAIN flags \cap (Strings \cup Modes \cup {"Routes"} \cup numbers)
  OBVIOUS
<1>2. PICK c, a, r : /\ c = applyFlags(cfg, flags) /\ a = apply(flags, numbers, below)
                     /\ r = "Routes" :> routes
  OBVIOUS
<1>3. /\ DOMAIN a = taken \cup DOMAIN below
      /\ \A f \in taken : a[f] = flags[f]
      /\ \A f \in DOMAIN below \ taken : a[f] = below[f]
  <2>1. Takes(a, flags, taken, below)
    BY <1>1, <1>2, ApplyFacts, Zenon
  <2> QED
    BY <2>1 DEF Takes
<1>4. c = r @@ a /\ DOMAIN r = {"Routes"}
  BY <1>n, <1>0, <1>2, FieldFacts DEF applyFlags
<1>5. /\ DOMAIN c = {"Routes"} \cup DOMAIN a
      /\ \A f \in DOMAIN a \ {"Routes"} : c[f] = a[f]
  BY <1>4 DEF @@
<1>m. \A f \in Numbers \cap taken : f = "DialBackoffMax" => flags[f] > 0 \/ flags[f] = 0
  <2>1. \A f \in Numbers \cap taken : f \in numbers
    BY <1>1, KindsApart
  <2> QED
    BY <1>n, <2>1 DEF admitsFlag
<1>6. \A f \in Numbers : f \in DOMAIN flags /\ flags[f] > 0 => f \in taken
  BY <1>n, <1>1 DEF admitsFlag
<1>7. \A f \in Strings \cup Modes : f \in taken <=> f \in DOMAIN flags
  BY <1>n, <1>1
<1>8. \A f \in taken : f \in DOMAIN flags
  BY <1>1
<1>9. /\ \A f : f \notin Modes => (f \in DOMAIN below <=> f \in DOMAIN cfg)
      /\ \A f \in Modes : f \in DOMAIN below <=> f \in DOMAIN cfg /\ DOMAIN flags \cap Modes = {}
      /\ \A f \in DOMAIN below : below[f] = cfg[f]
  BY <1>0, ProxyModeFacts
<1> QED
  BY <1>2, <1>3, <1>5, <1>6, <1>7, <1>8, <1>9, <1>m, KindsApart DEF Applied

----------------------------------------------------------------------------
(***************************************************************************)
(* What Merge derives, field by field.                                     *)
(***************************************************************************)
Fields == Strings \cup Modes \cup Numbers

\* What the fields decide that no default fills in.
NeverDerived == Modes \cup {"ControlURL", "AuthKey"}

\* result has the fields of cfg, and at most derives others.
Keeps(result, cfg) ==
    /\ \A f \in DOMAIN cfg \cap Fields : f \in DOMAIN result /\ result[f] = cfg[f]
    /\ \A f \in NeverDerived : f \in DOMAIN result => f \in DOMAIN cfg

\* Deriving twice is deriving.
LEMMA KeepsTransitive ==
    ASSUME NEW a, NEW b, NEW c, Keeps(a, b), Keeps(b, c)
    PROVE  Keeps(a, c)
  BY DEF Keeps

\* A default below a configuration, and a field put where there is none.
LEMMA KeepsOver ==
    ASSUME NEW c, NEW d, DOMAIN d \cap NeverDerived = {}
    PROVE  /\ Keeps(c @@ d, c)
           /\ (DOMAIN d \cap DOMAIN c \cap Fields = {} => Keeps(d @@ c, c))
<1>1. Keeps(c @@ d, c)
  BY DEF Keeps, @@
<1>2. ASSUME DOMAIN d \cap DOMAIN c \cap Fields = {}
      PROVE  Keeps(d @@ c, c)
  BY <1>2 DEF Keeps, @@
<1> QED
  BY <1>1, <1>2

\* normalizeBootstrapConfig only derives.
LEMMA BootstrapKeeps == ASSUME NEW cfg PROVE Keeps(normalizeBootstrapConfig(cfg), cfg)
<1>1. PICK d : d = "BootstrapSOCKSAddr" :> defaultBootstrapSOCKS
  OBVIOUS
<1>2. DOMAIN d \cap NeverDerived = {}
  BY <1>1 DEF :>, NeverDerived, Modes
<1>3. Keeps(cfg @@ d, cfg)
  BY <1>2, KeepsOver, Zenon
<1>4. Keeps(cfg, cfg)
  BY DEF Keeps
<1> QED
  BY <1>1, <1>3, <1>4 DEF normalizeBootstrapConfig

\* Finished only derives, and leaves the kind of the state directory.
LEMMA FinishedKeeps ==
    ASSUME NEW cfg
    PROVE  /\ Keeps(Finished(cfg), cfg)
           /\ "EphemeralState" \in DOMAIN cfg => Finished(cfg)["EphemeralState"] = cfg["EphemeralState"]
<1>1. PICK d, h, st : /\ d = "LocalAddr" :> defaultLocalAddr /\ h = "Hostname" :> "ts-bridge"
                      /\ st = "StateDir" :> StateDirForPlatform
  OBVIOUS
<1>2. /\ DOMAIN d \cap NeverDerived = {} /\ DOMAIN h \cap NeverDerived = {}
      /\ DOMAIN st \cap NeverDerived = {}
  BY <1>1 DEF :>, NeverDerived, Modes
<1>3. PICK tcp : tcp = IF Sets(cfg, "SOCKS5Addr") THEN cfg ELSE cfg @@ d
  OBVIOUS
<1>4. Keeps(tcp, cfg)
  <2>1. Keeps(cfg @@ d, cfg)
    BY <1>2, KeepsOver, Zenon
  <2>2. Keeps(cfg, cfg)
    BY DEF Keeps
  <2> QED
    BY <1>3, <2>1, <2>2
<1>5. Finished(cfg) = (tcp @@ h) @@ st
  BY <1>1, <1>3 DEF Finished
<1>6. Keeps(tcp @@ h, tcp) /\ Keeps((tcp @@ h) @@ st, tcp @@ h)
  BY <1>2, KeepsOver, Zenon
<1>7. Keeps(Finished(cfg), cfg)
  BY <1>4, <1>5, <1>6, KeepsTransitive, Zenon
<1>8. ASSUME "EphemeralState" \in DOMAIN cfg
      PROVE  Finished(cfg)["EphemeralState"] = cfg["EphemeralState"]
  <2>1. "EphemeralState" \in DOMAIN tcp /\ tcp["EphemeralState"] = cfg["EphemeralState"]
    BY <1>3, <1>8 DEF @@
  <2> QED
    BY <1>5, <2>1 DEF @@
<1> QED
  BY <1>7, <1>8

\* r has the listener and the name that auto mode derives where cfg has none.
Derives(r, auto, cfg, port, instance) ==
    /\ LocalAddrDerived(auto, cfg) => "LocalAddr" \in DOMAIN r /\ r["LocalAddr"] = <<"127.0.0.1", port>>
    /\ auto /\ ~Sets(cfg, "Hostname") /\ instance # "" =>
          "Hostname" \in DOMAIN r /\ r["Hostname"] = deriveAutoHostname(instance)

\* applyAutoInstance only derives, and calls the state directory ephemeral only
\* when no layer named one; its listener and its name are the derived ones.
LEMMA AutoKeeps ==
    ASSUME NEW auto, NEW cfg, NEW env, NEW flags, NEW offset, NEW busy, NEW r,
           r = applyAutoInstance(auto, cfg, env, flags, offset, busy)
    PROVE  /\ Keeps(r, cfg)
           /\ "EphemeralState" \in DOMAIN r
           /\ Sets(cfg, "StateDir") => r["EphemeralState"] = FALSE
           /\ Derives(r, auto, cfg, selectAvailablePort(PortRange(env, flags), offset, busy),
                     Get(flags, "Instance", Get(env, "Instance", "")))
<1>1. PICK instance : instance = Get(flags, "Instance", Get(env, "Instance", ""))
  OBVIOUS
<1>2. PICK l, listening :
        /\ l = "LocalAddr" :> <<"127.0.0.1", selectAvailablePort(PortRange(env, flags), offset, busy)>>
        /\ listening = IF LocalAddrDerived(auto, cfg) THEN l @@ cfg ELSE cfg
  OBVIOUS
<1>3. PICK h, named :
        /\ h = "Hostname" :> deriveAutoHostname(instance)
        /\ named = IF auto /\ ~Sets(cfg, "Hostname") /\ instance # "" THEN h @@ listening ELSE listening
  OBVIOUS
<1>4. PICK st, t, e :
        /\ st = "StateDir" :> EphemeralStateDir(named["Hostname"])
        /\ t = "EphemeralState" :> TRUE /\ e = "EphemeralState" :> FALSE
  OBVIOUS
<1>5. r = IF auto /\ ~Sets(named, "StateDir") /\ Sets(named, "Hostname")
          THEN (st @@ t) @@ named ELSE e @@ named
  BY <1>1, <1>2, <1>3, <1>4 DEF applyAutoInstance
<1>6. /\ DOMAIN l = {"LocalAddr"} /\ DOMAIN h = {"Hostname"} /\ DOMAIN st = {"StateDir"}
      /\ DOMAIN t = {"EphemeralState"} /\ DOMAIN e = {"EphemeralState"}
      /\ e["EphemeralState"] = FALSE
  BY <1>2, <1>3, <1>4 DEF :>
<1>7. Keeps(cfg, cfg) /\ Keeps(listening, listening)
  BY DEF Keeps
<1>8. Keeps(listening, cfg) /\ \A f : f # "LocalAddr" => (f \in DOMAIN listening <=> f \in DOMAIN cfg)
  <2>1. CASE LocalAddrDerived(auto, cfg)
    <3>1. listening = l @@ cfg /\ "LocalAddr" \notin DOMAIN cfg
      BY <1>2, <2>1 DEF LocalAddrDerived, Sets
    <3>2. DOMAIN l \cap NeverDerived = {} /\ DOMAIN l \cap DOMAIN cfg \cap Fields = {}
      BY <1>6, <3>1 DEF NeverDerived, Modes
    <3>3. Keeps(l @@ cfg, cfg)
      BY <3>2, KeepsOver, Zenon
    <3>4. \A f : f # "LocalAddr" => (f \in DOMAIN listening <=> f \in DOMAIN cfg)
      BY <1>6, <3>1 DEF @@
    <3> QED
      BY <3>1, <3>3, <3>4
  <2>2. CASE ~LocalAddrDerived(auto, cfg)
    BY <1>2, <1>7, <2>2
  <2> QED
    BY <2>1, <2>2
<1>9. Keeps(named, listening) /\ \A f : f # "Hostname" => (f \in DOMAIN named <=> f \in DOMAIN listening)
  <2>1. CASE auto /\ ~Sets(cfg, "Hostname") /\ instance # ""
    <3>1. named = h @@ listening /\ "Hostname" \notin DOMAIN listening
      BY <1>3, <1>8, <2>1 DEF Sets
    <3>2. DOMAIN h \cap NeverDerived = {} /\ DOMAIN h \cap DOMAIN listening \cap Fields = {}
      BY <1>6, <3>1 DEF NeverDerived, Modes
    <3>3. Keeps(h @@ listening, listening)
      BY <3>2, KeepsOver, Zenon
    <3>4. \A f : f # "Hostname" => (f \in DOMAIN named <=> f \in DOMAIN listening)
      BY <1>6, <3>1 DEF @@
    <3> QED
      BY <3>1, <3>3, <3>4
  <2>2. CASE ~(auto /\ ~Sets(cfg, "Hostname") /\ instance # "")
    BY <1>3, <1>7, <2>2
  <2> QED
    BY <2>1, <2>2
<1>10. /\ Keeps(r, named) /\ "EphemeralState" \in DOMAIN r
       /\ Sets(named, "StateDir") => r["EphemeralState"] = FALSE
  <2>1. CASE auto /\ ~Sets(named, "StateDir") /\ Sets(named, "Hostname")
    <3>1. PICK d : d = st @@ t
      OBVIOUS
    <3>2. DOMAIN d = {"StateDir", "EphemeralState"}
      BY <1>6, <3>1 DEF @@
    <3>3. DOMAIN d \cap NeverDerived = {} /\ DOMAIN d \cap DOMAIN named \cap Fields = {}
      BY <2>1, <3>2 DEF NeverDerived, Modes, Strings, Numbers, Fields, Sets
    <3>4. Keeps(d @@ named, named)
      BY <3>3, KeepsOver, Zenon
    <3>5. r = d @@ named
      BY <1>5, <2>1, <3>1
    <3>6. "EphemeralState" \in DOMAIN r
      BY <3>2, <3>5 DEF @@
    <3> QED
      BY <2>1, <3>4, <3>5, <3>6
  <2>2. CASE ~(auto /\ ~Sets(named, "StateDir") /\ Sets(named, "Hostname"))
    <3>1. r = e @@ named
      BY <1>5, <2>2
    <3>2. DOMAIN e \cap NeverDerived = {} /\ DOMAIN e \cap DOMAIN named \cap Fields = {}
      BY <1>6 DEF NeverDerived, Modes, Strings, Numbers, Fields
    <3>3. Keeps(e @@ named, named)
      BY <3>2, KeepsOver, Zenon
    <3>4. "EphemeralState" \in DOMAIN r /\ r["EphemeralState"] = FALSE
      BY <1>6, <3>1 DEF @@
    <3> QED
      BY <3>1, <3>3, <3>4
  <2> QED
    BY <2>1, <2>2
<1>11. Keeps(r, cfg)
  BY <1>8, <1>9, <1>10, KeepsTransitive, Zenon
<1>12. Sets(cfg, "StateDir") => Sets(named, "StateDir")
  BY <1>8, <1>9 DEF Sets
<1>13. "LocalAddr" \in Fields /\ "Hostname" \in Fields
  BY DEF Fields, Strings
<1>14. ASSUME LocalAddrDerived(auto, cfg)
       PROVE  "LocalAddr" \in DOMAIN r /\ r["LocalAddr"] = l["LocalAddr"]
  <2>1. "LocalAddr" \in DOMAIN listening /\ listening["LocalAddr"] = l["LocalAddr"]
    BY <1>2, <1>6, <1>14 DEF @@
  <2> QED
    BY <1>9, <1>10, <1>13, <2>1 DEF Keeps
<1>15. ASSUME auto /\ ~Sets(cfg, "Hostname") /\ instance # ""
       PROVE  "Hostname" \in DOMAIN r /\ r["Hostname"] = h["Hostname"]
  <2>1. "Hostname" \in DOMAIN named /\ named["Hostname"] = h["Hostname"]
    BY <1>3, <1>6, <1>15 DEF @@
  <2> QED
    BY <1>10, <1>13, <2>1 DEF Keeps
<1>16. /\ l["LocalAddr"] = <<"127.0.0.1", selectAvailablePort(PortRange(env, flags), offset, busy)>>
       /\ h["Hostname"] = deriveAutoHostname(instance)
  BY <1>2, <1>3, FieldFacts
<1> QED
  BY <1>1, <1>10, <1>11, <1>12, <1>14, <1>15, <1>16 DEF Derives

\* The same of the configuration Merge accepts, whose port was found in a valid range.
Derived(cfg, merged, auto, range, offset, busy, instance) ==
    /\ LocalAddrDerived(auto, merged) =>
          /\ validPortRange(range) /\ selectAvailablePort(range, offset, busy) # 0
          /\ cfg["LocalAddr"][2] = selectAvailablePort(range, offset, busy)
    /\ auto /\ ~Sets(merged, "Hostname") /\ instance # "" =>
          cfg["Hostname"] = deriveAutoHostname(instance)

\* What Merge accepts and returns: the merged layers, with what it derives.
LEMMA MergeFacts ==
    ASSUME NEW yaml, NEW env, NEW flags, NEW profileKey, NEW offset, NEW busy, NEW m, NEW layers,
           m = Merge(yaml, env, flags, profileKey, offset, busy), m.refused = {},
           layers = Layered(yaml, env, flags, profileKey)
    PROVE  /\ ~ModeConflict(yaml) /\ ~ModeConflict(env) /\ ~Sets(yaml, "AuthKey")
           /\ Keeps(m.cfg, layers)
           /\ Sets(layers, "StateDir") => m.cfg["EphemeralState"] = FALSE
           /\ Derived(m.cfg, normalizeBootstrapConfig(layers), resolveAutoInstance(yaml, env, flags),
                     PortRange(env, flags), offset, busy, Get(flags, "Instance", Get(env, "Instance", "")))
<1>1. PICK merged, auto :
        merged = normalizeBootstrapConfig(layers) /\ auto = resolveAutoInstance(yaml, env, flags)
  OBVIOUS
<1>2. PICK derives, badRange :
        /\ derives = LocalAddrDerived(auto, merged)
        /\ badRange = (derives /\ ~validPortRange(PortRange(env, flags)))
  OBVIOUS
<1>3. PICK cfg :
        cfg = IF badRange THEN merged
              ELSE Finished(applyAutoInstance(auto, merged, env, flags, offset, busy))
  OBVIOUS
<1>4. PICK fails : fails =
            [ r \in {"YAML key", "mode", "plane", "bootstrap", "retries", "idle", "ports", "collision"} |->
                CASE r = "YAML key"  -> Sets(yaml, "AuthKey")
                  [] r = "mode"      -> ModeConflict(yaml) \/ ModeConflict(env) \/ ModeConflict(flags)
                  [] r = "plane"     -> Sets(merged, "AuthKey") /\ ~ValidateControlPlane(merged["AuthKey"], merged)
                  [] r = "bootstrap" -> ~validateBootstrap(merged)
                  [] r = "retries"   -> ~validateDialRetries(env, merged)
                  [] r = "idle"      -> ~validateIdleTimeout(merged)
                  [] r = "ports"     -> badRange \/ (derives /\ cfg["LocalAddr"][2] = 0)
                  [] r = "collision" -> ~validateBootstrapListenerCollision(cfg) ]
  OBVIOUS
<1>5. m = [cfg |-> cfg, refused |-> validateMergedProxyConfig(merged) \cup {r \in DOMAIN fails : fails[r]}]
  BY <1>1, <1>2, <1>3, <1>4 DEF Merge
<1>6. \A r \in DOMAIN fails : ~fails[r]
  BY <1>5
<1>7. ~Sets(yaml, "AuthKey") /\ ~ModeConflict(yaml) /\ ~ModeConflict(env) /\ ~badRange
  BY <1>4, <1>6
<1>8. PICK derived : derived = applyAutoInstance(auto, merged, env, flags, offset, busy)
  OBVIOUS
<1>9. /\ Keeps(derived, merged) /\ "EphemeralState" \in DOMAIN derived
      /\ Sets(merged, "StateDir") => derived["EphemeralState"] = FALSE
  BY <1>8, AutoKeeps, Zenon
<1>10. m.cfg = Finished(derived)
  BY <1>3, <1>5, <1>7, <1>8
<1>11. Keeps(merged, layers)
  BY <1>1, BootstrapKeeps, Zenon
<1>12. Keeps(Finished(derived), layers)
  BY <1>9, <1>11, FinishedKeeps, KeepsTransitive, Zenon
<1>13. Sets(layers, "StateDir") => Sets(merged, "StateDir")
  BY <1>11 DEF Keeps, Sets, Fields, Strings
<1>14. Sets(layers, "StateDir") => Finished(derived)["EphemeralState"] = FALSE
  BY <1>9, <1>13, FinishedKeeps
<1>15. Derives(derived, auto, merged, selectAvailablePort(PortRange(env, flags), offset, busy),
               Get(flags, "Instance", Get(env, "Instance", "")))
  BY <1>8, AutoKeeps, Zenon
<1>16. /\ "LocalAddr" \in DOMAIN derived => m.cfg["LocalAddr"] = derived["LocalAddr"]
       /\ "Hostname" \in DOMAIN derived => m.cfg["Hostname"] = derived["Hostname"]
  BY <1>10, FinishedKeeps DEF Keeps, Fields, Strings
<1>17. LocalAddrDerived(auto, merged) => validPortRange(PortRange(env, flags)) /\ cfg["LocalAddr"][2] # 0
  BY <1>2, <1>4, <1>6, <1>7
<1>18. LocalAddrDerived(auto, merged) =>
          m.cfg["LocalAddr"] = <<"127.0.0.1", selectAvailablePort(PortRange(env, flags), offset, busy)>>
  BY <1>15, <1>16 DEF Derives
<1>19. LocalAddrDerived(auto, merged) =>
          /\ m.cfg["LocalAddr"][2] = selectAvailablePort(PortRange(env, flags), offset, busy)
          /\ m.cfg["LocalAddr"][2] # 0
  BY <1>5, <1>17, <1>18
<1>20. auto /\ ~Sets(merged, "Hostname") /\ Get(flags, "Instance", Get(env, "Instance", "")) # "" =>
          m.cfg["Hostname"] = deriveAutoHostname(Get(flags, "Instance", Get(env, "Instance", "")))
  BY <1>15, <1>16 DEF Derives
<1>21. Derived(m.cfg, merged, auto, PortRange(env, flags), offset, busy,
               Get(flags, "Instance", Get(env, "Instance", "")))
  BY <1>17, <1>19, <1>20 DEF Derived
<1> QED
  BY <1>1, <1>7, <1>10, <1>12, <1>14, <1>21

----------------------------------------------------------------------------
(***************************************************************************)
(* Which layer decides.                                                    *)
(***************************************************************************)
\* result has layer's mode, and layer's control URL without the blanks.
SameModes(result, layer) ==
    \A f \in Modes : /\ f \in DOMAIN result <=> f \in DOMAIN layer
                     /\ f \in DOMAIN layer => result[f] = layer[f]
SameURL(result, layer) ==
    /\ "ControlURL" \in DOMAIN result <=> "ControlURL" \in DOMAIN layer /\ layer["ControlURL"] # "blank"
    /\ "ControlURL" \in DOMAIN result => result["ControlURL"] = layer["ControlURL"]

\* One field of the result is layer's.
Has(result, layer, f) == f \in DOMAIN result /\ result[f] = layer[f]

\* top decides field f of result, as far as Merge lets a layer decide it.
Decides(result, top, f) ==
    /\ f \in Strings \ {"ControlURL"} => Has(result, top, f)
    /\ f \in Numbers /\ top[f] > 0 => Has(result, top, f)
    /\ f = "ControlURL" => SameURL(result, top)

\* Flags over environment over YAML, in what Merge makes of the four layers.
LEMMA LayeredFacts ==
    ASSUME NEW yaml, NEW env, NEW flags, NEW profileKey, NEW layers,
           layers = Layered(yaml, env, flags, profileKey), DOMAIN profileKey \subseteq {"AuthKey"}
    PROVE  /\ \A f \in Strings \cup Numbers :
                /\ f \in DOMAIN flags => Decides(layers, flags, f)
                /\ f \in DOMAIN env \ DOMAIN flags => Decides(layers, env, f)
                /\ f \in DOMAIN yaml \ (DOMAIN flags \cup DOMAIN env) => Decides(layers, yaml, f)
           /\ "ControlURL" \notin DOMAIN flags \cup DOMAIN env \cup DOMAIN yaml
                => "ControlURL" \notin DOMAIN layers
           /\ DOMAIN flags \cap Modes # {} => SameModes(layers, flags)
           /\ DOMAIN flags \cap Modes = {} /\ DOMAIN env \cap Modes # {} => SameModes(layers, env)
           /\ (DOMAIN flags \cup DOMAIN env) \cap Modes = {} => SameModes(layers, yaml)
<1>1. PICK c1 : c1 = applyYAML(defaults, yaml)
  OBVIOUS
<1>2. PICK c2 : c2 = applyEnv(c1, env)
  OBVIOUS
<1>3. PICK c3 : c3 = c2 @@ profileKey
  OBVIOUS
<1>4. PICK c4 : c4 = applyFlags(c3, flags)
  OBVIOUS
<1>5. Applied(c1, yaml, defaults) /\ Applied(c2, env, c1) /\ Applied(c4, flags, c3)
  BY <1>1, <1>2, <1>4, YAMLApplied, EnvApplied, FlagsApplied, Zenon
<1>6. layers = TrimSpace(c4)
  BY <1>1, <1>2, <1>3, <1>4 DEF Layered
<1>7. /\ \A f \in DOMAIN c2 : f \in DOMAIN c3 /\ c3[f] = c2[f]
      /\ \A f : f # "AuthKey" => (f \in DOMAIN c3 <=> f \in DOMAIN c2)
  BY <1>3 DEF @@
<1>8. /\ \A f : f # "ControlURL" => (f \in DOMAIN layers <=> f \in DOMAIN c4)
      /\ \A f \in DOMAIN c4 : f # "ControlURL" => layers[f] = c4[f]
      /\ SameURL(layers, c4)
  BY <1>6, TrimFacts DEF SameURL
<1>9. "ControlURL" \notin Numbers \cup Modes /\ "AuthKey" \notin Numbers \cup Modes
  BY DEF Numbers, Modes
<1>10. DOMAIN defaults = Numbers
  BY DEF defaults
<1>11. \A f \in Strings \ {"ControlURL"} :
          /\ f \in DOMAIN flags => Has(layers, flags, f)
          /\ f \in DOMAIN env \ DOMAIN flags => Has(layers, env, f)
          /\ f \in DOMAIN yaml \ (DOMAIN flags \cup DOMAIN env) => Has(layers, yaml, f)
  <2> SUFFICES ASSUME NEW f \in Strings, f # "ControlURL"
               PROVE  /\ f \in DOMAIN flags => Has(layers, flags, f)
                      /\ f \in DOMAIN env \ DOMAIN flags => Has(layers, env, f)
                      /\ f \in DOMAIN yaml \ (DOMAIN flags \cup DOMAIN env) => Has(layers, yaml, f)
    OBVIOUS
  <2>1. f \in DOMAIN c4 => f \in DOMAIN layers /\ layers[f] = c4[f]
    BY <1>8
  <2> QED
    BY <1>5, <1>7, <2>1 DEF Applied, Has
<1>12. \A f \in Numbers :
          /\ f \in DOMAIN flags /\ flags[f] > 0 => Has(layers, flags, f)
          /\ f \in DOMAIN env \ DOMAIN flags /\ env[f] > 0 => Has(layers, env, f)
          /\ f \in DOMAIN yaml \ (DOMAIN flags \cup DOMAIN env) /\ yaml[f] > 0 => Has(layers, yaml, f)
  <2> SUFFICES ASSUME NEW f \in Numbers
               PROVE  /\ f \in DOMAIN flags /\ flags[f] > 0 => Has(layers, flags, f)
                      /\ f \in DOMAIN env \ DOMAIN flags /\ env[f] > 0 => Has(layers, env, f)
                      /\ f \in DOMAIN yaml \ (DOMAIN flags \cup DOMAIN env) /\ yaml[f] > 0
                            => Has(layers, yaml, f)
    OBVIOUS
  <2>1. f \in DOMAIN c4 => f \in DOMAIN layers /\ layers[f] = c4[f]
    BY <1>8, <1>9
  <2> QED
    BY <1>5, <1>7, <1>10, <2>1 DEF Applied, Has
<1>13. /\ "ControlURL" \in DOMAIN flags => SameURL(layers, flags)
       /\ "ControlURL" \in DOMAIN env \ DOMAIN flags => SameURL(layers, env)
       /\ "ControlURL" \in DOMAIN yaml \ (DOMAIN flags \cup DOMAIN env) => SameURL(layers, yaml)
       /\ "ControlURL" \notin DOMAIN flags \cup DOMAIN env \cup DOMAIN yaml
                => "ControlURL" \notin DOMAIN layers
  <2>1. "ControlURL" \in Strings
    BY DEF Strings
  <2> QED
    BY <1>5, <1>7, <1>8, <1>9, <1>10, <2>1 DEF Applied, SameURL
<1>14. DOMAIN flags \cap Modes # {} => SameModes(layers, flags)
  BY <1>5, <1>8, <1>9 DEF Applied, SameModes
<1>15. DOMAIN flags \cap Modes = {} => SameModes(layers, c2)
  BY <1>5, <1>7, <1>8, <1>9 DEF Applied, SameModes
<1>16. DOMAIN env \cap Modes # {} => SameModes(c2, env)
  BY <1>5 DEF Applied, SameModes
<1>17. DOMAIN env \cap Modes = {} => SameModes(c2, yaml)
  <2>1. DOMAIN defaults \cap Modes = {}
    BY <1>10, KindsApart
  <2>2. SameModes(c1, yaml)
    BY <1>5, <2>1 DEF Applied, SameModes
  <2> QED
    BY <1>5, <2>2 DEF Applied, SameModes
<1>18. \A f \in Strings \cup Numbers :
          /\ f \in DOMAIN flags => Decides(layers, flags, f)
          /\ f \in DOMAIN env \ DOMAIN flags => Decides(layers, env, f)
          /\ f \in DOMAIN yaml \ (DOMAIN flags \cup DOMAIN env) => Decides(layers, yaml, f)
  BY <1>11, <1>12, <1>13 DEF Decides
<1>19. /\ DOMAIN flags \cap Modes = {} /\ DOMAIN env \cap Modes # {} => SameModes(layers, env)
       /\ (DOMAIN flags \cup DOMAIN env) \cap Modes = {} => SameModes(layers, yaml)
  BY <1>15, <1>16, <1>17 DEF SameModes
<1> QED
  BY <1>13, <1>14, <1>18, <1>19

\* Merge adds no string of its own to the layers.
LEMMA LayeredDomain ==
    ASSUME NEW yaml, NEW env, NEW flags, NEW profileKey, NEW layers,
           layers = Layered(yaml, env, flags, profileKey), DOMAIN profileKey \subseteq {"AuthKey"},
           NEW f \in Strings, f # "AuthKey", f \in DOMAIN layers
    PROVE  f \in DOMAIN flags \cup DOMAIN env \cup DOMAIN yaml
<1>1. PICK c1 : c1 = applyYAML(defaults, yaml)
  OBVIOUS
<1>2. PICK c2 : c2 = applyEnv(c1, env)
  OBVIOUS
<1>3. PICK c3 : c3 = c2 @@ profileKey
  OBVIOUS
<1>4. PICK c4 : c4 = applyFlags(c3, flags)
  OBVIOUS
<1>5. Applied(c1, yaml, defaults) /\ Applied(c2, env, c1) /\ Applied(c4, flags, c3)
  BY <1>1, <1>2, <1>4, YAMLApplied, EnvApplied, FlagsApplied, Zenon
<1>6. layers = TrimSpace(c4)
  BY <1>1, <1>2, <1>3, <1>4 DEF Layered
<1>7. f \in DOMAIN c4
  BY <1>6, TrimFacts
<1>8. f \in DOMAIN c3 => f \in DOMAIN c2
  BY <1>3 DEF @@
<1>9. f \notin DOMAIN defaults
  BY KindsApart DEF defaults
<1> QED
  BY <1>5, <1>7, <1>8, <1>9 DEF Applied

\* "flags > env > yaml > profile", field by field, in the configuration cfg; a state
\* directory that one of them names is not ephemeral.
Ranked(cfg, flags, env, file, profile) ==
    /\ \A f \in Strings \cup Numbers :
          /\ f \in DOMAIN flags => Decides(cfg, flags, f)
          /\ f \in DOMAIN env \ DOMAIN flags => Decides(cfg, env, f)
          /\ f \in DOMAIN file \ (DOMAIN flags \cup DOMAIN env) => Decides(cfg, file, f)
          /\ f \in DOMAIN profile \ (DOMAIN flags \cup DOMAIN env \cup DOMAIN file)
                => Decides(cfg, profile, f)
    /\ "ControlURL" \notin DOMAIN flags \cup DOMAIN env \cup DOMAIN file \cup DOMAIN profile
          => "ControlURL" \notin DOMAIN cfg
    /\ DOMAIN flags \cap Modes # {} => SameModes(cfg, flags)
    /\ DOMAIN flags \cap Modes = {} /\ DOMAIN env \cap Modes # {} => SameModes(cfg, env)
    /\ (DOMAIN flags \cup DOMAIN env) \cap Modes = {} /\ DOMAIN file \cap Modes # {}
          => SameModes(cfg, file)
    /\ (DOMAIN flags \cup DOMAIN env \cup DOMAIN file) \cap Modes = {} => SameModes(cfg, profile)
    /\ "StateDir" \in DOMAIN flags \cup DOMAIN env \cup DOMAIN file \cup DOMAIN profile
          => cfg["EphemeralState"] = FALSE

\* What Merge derives leaves to a layer what it decides.
LEMMA KeepsDecided ==
    ASSUME NEW cfg, NEW layers, Keeps(cfg, layers), NEW top
    PROVE  /\ \A f \in Strings \cup Numbers : Decides(layers, top, f) => Decides(cfg, top, f)
           /\ SameModes(layers, top) => SameModes(cfg, top)
<1>1. ASSUME NEW f \in Strings \cup Numbers, Has(layers, top, f) PROVE Has(cfg, top, f)
  BY <1>1 DEF Has, Keeps, Fields
<1>2. SameURL(layers, top) => SameURL(cfg, top)
  <2>1. "ControlURL" \in Fields /\ "ControlURL" \in NeverDerived
    BY DEF Fields, Strings, NeverDerived
  <2> QED
    BY <2>1 DEF SameURL, Keeps
<1>3. SameModes(layers, top) => SameModes(cfg, top)
  <2>1. \A f \in Modes : f \in Fields /\ f \in NeverDerived
    BY DEF Fields, NeverDerived
  <2> QED
    BY <2>1 DEF SameModes, Keeps
<1>4. \A f \in Strings \cup Numbers : Decides(layers, top, f) => Decides(cfg, top, f)
  BY <1>1, <1>2 DEF Decides
<1> QED
  BY <1>3, <1>4

\* The profile below the YAML file: whichever sets the field decides it.
LEMMA ProfileBelow ==
    ASSUME NEW cfg, NEW file, NEW profile, NEW yaml, yaml = file @@ profile
    PROVE  /\ \A f \in DOMAIN file : Decides(cfg, yaml, f) => Decides(cfg, file, f)
           /\ \A f \in DOMAIN profile \ DOMAIN file : Decides(cfg, yaml, f) => Decides(cfg, profile, f)
           /\ ~ModeConflict(yaml) /\ DOMAIN file \cap Modes # {} /\ SameModes(cfg, yaml)
                => SameModes(cfg, file)
           /\ DOMAIN file \cap Modes = {} /\ SameModes(cfg, yaml) => SameModes(cfg, profile)
<1>1. /\ DOMAIN yaml = DOMAIN file \cup DOMAIN profile
      /\ \A f \in DOMAIN file : yaml[f] = file[f]
      /\ \A f \in DOMAIN profile \ DOMAIN file : yaml[f] = profile[f]
  BY DEF @@
<1>2. ASSUME NEW f \in DOMAIN file, Decides(cfg, yaml, f) PROVE Decides(cfg, file, f)
  BY <1>1, <1>2 DEF Decides, Has, SameURL
<1>3. ASSUME NEW f \in DOMAIN profile \ DOMAIN file, Decides(cfg, yaml, f)
      PROVE  Decides(cfg, profile, f)
  BY <1>1, <1>3 DEF Decides, Has, SameURL
<1>4. ASSUME ~ModeConflict(yaml), DOMAIN file \cap Modes # {}, SameModes(cfg, yaml)
      PROVE  SameModes(cfg, file)
  <2>1. \A f \in Modes : f \in DOMAIN yaml <=> f \in DOMAIN file
    BY <1>1, <1>4 DEF ModeConflict, Modes
  <2> QED
    BY <1>1, <1>4, <2>1 DEF SameModes
<1>5. ASSUME DOMAIN file \cap Modes = {}, SameModes(cfg, yaml)
      PROVE  SameModes(cfg, profile)
  BY <1>1, <1>5 DEF SameModes
<1> QED
  BY <1>2, <1>3, <1>4, <1>5

\* connect: what the merge of the five layers gives, when nothing is refused.
LEMMA MergeRanks ==
    ASSUME NEW flags, NEW env, NEW file, NEW profile, NEW yaml, yaml = file @@ profile,
           NEW profileKey, DOMAIN profileKey \subseteq {"AuthKey"}, NEW offset, NEW busy,
           NEW m, m = Merge(yaml, env, flags, profileKey, offset, busy), m.refused = {}
    PROVE  Ranked(m.cfg, flags, env, file, profile)
<1>1. PICK layers : layers = Layered(yaml, env, flags, profileKey)
  OBVIOUS
<1>2. PICK cfg : cfg = m.cfg
  OBVIOUS
<1>3. /\ ~ModeConflict(yaml) /\ Keeps(cfg, layers)
      /\ Sets(layers, "StateDir") => cfg["EphemeralState"] = FALSE
  BY <1>1, <1>2, MergeFacts
<1>4. DOMAIN yaml = DOMAIN file \cup DOMAIN profile
  BY DEF @@
<1>5. \A f \in Strings \cup Numbers :
          /\ f \in DOMAIN flags => Decides(layers, flags, f)
          /\ f \in DOMAIN env \ DOMAIN flags => Decides(layers, env, f)
          /\ f \in DOMAIN yaml \ (DOMAIN flags \cup DOMAIN env) => Decides(layers, yaml, f)
  BY <1>1, LayeredFacts, Zenon
<1>6. \A f \in Strings \cup Numbers :
          /\ f \in DOMAIN flags => Decides(cfg, flags, f)
          /\ f \in DOMAIN env \ DOMAIN flags => Decides(cfg, env, f)
          /\ f \in DOMAIN file \ (DOMAIN flags \cup DOMAIN env) => Decides(cfg, file, f)
          /\ f \in DOMAIN profile \ (DOMAIN flags \cup DOMAIN env \cup DOMAIN file)
                => Decides(cfg, profile, f)
  <2> SUFFICES ASSUME NEW f \in Strings \cup Numbers
               PROVE  /\ f \in DOMAIN flags => Decides(cfg, flags, f)
                      /\ f \in DOMAIN env \ DOMAIN flags => Decides(cfg, env, f)
                      /\ f \in DOMAIN file \ (DOMAIN flags \cup DOMAIN env) => Decides(cfg, file, f)
                      /\ f \in DOMAIN profile \ (DOMAIN flags \cup DOMAIN env \cup DOMAIN file)
                            => Decides(cfg, profile, f)
    OBVIOUS
  <2>1. /\ Decides(layers, flags, f) => Decides(cfg, flags, f)
        /\ Decides(layers, env, f) => Decides(cfg, env, f)
        /\ Decides(layers, yaml, f) => Decides(cfg, yaml, f)
    BY <1>3, KeepsDecided, Zenon
  <2>2. /\ f \in DOMAIN file /\ Decides(cfg, yaml, f) => Decides(cfg, file, f)
        /\ f \in DOMAIN profile \ DOMAIN file /\ Decides(cfg, yaml, f) => Decides(cfg, profile, f)
    BY ProfileBelow, Zenon
  <2> QED
    BY <1>4, <1>5, <2>1, <2>2
<1>7. "ControlURL" \notin DOMAIN flags \cup DOMAIN env \cup DOMAIN file \cup DOMAIN profile
          => "ControlURL" \notin DOMAIN cfg
  <2>1. "ControlURL" \notin DOMAIN flags \cup DOMAIN env \cup DOMAIN yaml
          => "ControlURL" \notin DOMAIN layers
    BY <1>1, LayeredFacts
  <2>2. "ControlURL" \in DOMAIN cfg => "ControlURL" \in DOMAIN layers
    BY <1>3 DEF Keeps, NeverDerived
  <2> QED
    BY <1>4, <2>1, <2>2
<1>8. /\ DOMAIN flags \cap Modes # {} => SameModes(cfg, flags)
      /\ DOMAIN flags \cap Modes = {} /\ DOMAIN env \cap Modes # {} => SameModes(cfg, env)
      /\ (DOMAIN flags \cup DOMAIN env) \cap Modes = {} => SameModes(cfg, yaml)
  <2>1. /\ DOMAIN flags \cap Modes # {} => SameModes(layers, flags)
        /\ DOMAIN flags \cap Modes = {} /\ DOMAIN env \cap Modes # {} => SameModes(layers, env)
        /\ (DOMAIN flags \cup DOMAIN env) \cap Modes = {} => SameModes(layers, yaml)
    BY <1>1, LayeredFacts, Zenon
  <2>2. /\ SameModes(layers, flags) => SameModes(cfg, flags)
        /\ SameModes(layers, env) => SameModes(cfg, env)
        /\ SameModes(layers, yaml) => SameModes(cfg, yaml)
    BY <1>3, KeepsDecided, Zenon
  <2> QED
    BY <2>1, <2>2, Zenon
<1>9. /\ DOMAIN file \cap Modes # {} /\ SameModes(cfg, yaml) => SameModes(cfg, file)
      /\ DOMAIN file \cap Modes = {} /\ SameModes(cfg, yaml) => SameModes(cfg, profile)
  BY <1>3, ProfileBelow, Zenon
<1>10. "StateDir" \in DOMAIN flags \cup DOMAIN env \cup DOMAIN file \cup DOMAIN profile
          => cfg["EphemeralState"] = FALSE
  <2>1. "StateDir" \in Strings /\ "StateDir" # "ControlURL"
    BY DEF Strings
  <2>2. "StateDir" \in DOMAIN flags \cup DOMAIN env \cup DOMAIN yaml => "StateDir" \in DOMAIN layers
    BY <1>5, <2>1 DEF Decides, Has
  <2> QED
    BY <1>3, <1>4, <2>2 DEF Sets
<1> QED
  <2>1. /\ (DOMAIN flags \cup DOMAIN env) \cap Modes = {} /\ DOMAIN file \cap Modes # {}
              => SameModes(cfg, file)
        /\ (DOMAIN flags \cup DOMAIN env \cup DOMAIN file) \cap Modes = {} => SameModes(cfg, profile)
    BY <1>8, <1>9
  <2> QED
    <3>1. Ranked(cfg, flags, env, file, profile)
      BY <1>6, <1>7, <1>8, <1>10, <2>1, Zenon DEF Ranked
    <3> QED
      BY <1>2, <3>1

----------------------------------------------------------------------------
(***************************************************************************)
(* Every connect that comes up.                                            *)
(***************************************************************************)
\* os.Setenv for every pair of .env, and os.Getenv: what Load returns.
Loaded(dotenv, explicit) ==
    LET l == dotenv @@ explicit
    IN IF Get(l, "ControlURL", "saas") = "empty" THEN Without(l, {"ControlURL"}) ELSE l

\* The environment of a connect is what Load made of .env and the explicit variables.
\* The layers of one that is up are ranked, and it carries a managed key only if
\* loadBoundProfileCredential let it.
RankInv ==
    /\ conn.pc # "idle" => conn.env = Loaded(conn.dotenv, conn.s.env)
    /\ Up => /\ Ranked(conn.cfg, conn.s.flags, conn.env, conn.file, Only(conn.s.profile, profileFields))
             /\ ~ModeConflict(conn.env)
             /\ conn.managed => credentialIsBound(conn.s, conn.env, conn.file)

\* What a resolution that refuses nothing has established.
LEMMA ResolvedRanks ==
    ASSUME NEW offset, NEW r, r = Resolved(offset), r.refused = {}
    PROVE  /\ Ranked(r.cfg, conn.s.flags, conn.env, r.file, Only(conn.s.profile, profileFields))
           /\ ~ModeConflict(conn.env)
           /\ r.managed => credentialIsBound(conn.s, conn.env, r.file)
<1>1. PICK s, file : s = conn.s /\ file = IF s.config THEN LoadYAMLConfig ELSE Empty
  OBVIOUS
<1>2. PICK profile, yaml : profile = Only(s.profile, profileFields) /\ yaml = file @@ profile
  OBVIOUS
<1>3. PICK profileKey :
        profileKey = IF usesManagedKey(s, conn.env) THEN "AuthKey" :> s.profile["Credential"] ELSE Empty
  OBVIOUS
<1>4. PICK m : m = Merge(yaml, conn.env, s.flags, profileKey, offset, Busy)
  OBVIOUS
<1>5. PICK refused : refused =
            {x \in {"no file", "bound", "health"} :
                CASE x = "no file" -> s.config /\ "yaml" \notin DOMAIN disk
                  [] x = "bound"   -> usesManagedKey(s, conn.env) /\ ~credentialIsBound(s, conn.env, file)
                  [] x = "health"  -> m.refused = {} /\ ~ValidateHealthListener(m.cfg)}
  OBVIOUS
<1>6. r = [cfg |-> m.cfg, refused |-> m.refused \cup refused,
           managed |-> usesManagedKey(s, conn.env), file |-> file]
  BY <1>1, <1>2, <1>3, <1>4, <1>5 DEF Resolved, applyConnectProfile
<1>7. m.refused = {} /\ refused = {} /\ r.cfg = m.cfg /\ r.file = file
  BY <1>6
<1>8. usesManagedKey(s, conn.env) => credentialIsBound(s, conn.env, file)
  BY <1>5, <1>7
<1>9. DOMAIN profileKey \subseteq {"AuthKey"}
  BY <1>3 DEF :>, Empty
<1>10. Ranked(m.cfg, s.flags, conn.env, file, profile)
  BY <1>2, <1>4, <1>7, <1>9, MergeRanks
<1>11. r.managed => usesManagedKey(s, conn.env)
  BY <1>6
<1>12. Ranked(r.cfg, conn.s.flags, conn.env, r.file, Only(conn.s.profile, profileFields))
  BY <1>1, <1>2, <1>7, <1>10
<1>13. r.managed => credentialIsBound(conn.s, conn.env, r.file)
  BY <1>1, <1>7, <1>8, <1>11
<1>14. ~ModeConflict(conn.env)
  BY <1>4, <1>7, MergeFacts
<1> QED
  BY <1>12, <1>13, <1>14

\* No step disturbs it.
LEMMA RankStep == RankInv /\ [Next]_vars => RankInv'
<1> SUFFICES ASSUME RankInv, [Next]_vars PROVE RankInv'
  OBVIOUS
<1>1. ASSUME NEW s \in Settings, ConnectLoad(s) PROVE RankInv'
  BY <1>1 DEF ConnectLoad, RankInv, Up, Load, Loaded
<1>2. ASSUME NEW o \in Offsets, ConnectResolve(o) PROVE RankInv'
  <2>1. PICK r : r = Resolved(o)
    OBVIOUS
  <2>2. /\ conn'.pc = IF r.refused = {} THEN "up" ELSE "refused"
        /\ conn'.s = conn.s /\ conn'.env = conn.env /\ conn'.file = r.file
        /\ conn'.cfg = IF r.refused = {} THEN r.cfg ELSE Empty
        /\ conn'.managed = r.managed
        /\ conn'.dotenv = conn.dotenv /\ conn.pc = "loaded"
    BY <1>2, <2>1 DEF ConnectResolve
  <2>3. CASE r.refused = {}
    <3>1. /\ Ranked(r.cfg, conn.s.flags, conn.env, r.file, Only(conn.s.profile, profileFields))
          /\ ~ModeConflict(conn.env)
          /\ r.managed => credentialIsBound(conn.s, conn.env, r.file)
      BY <2>1, <2>3, ResolvedRanks, Zenon
    <3> QED
      BY <2>2, <2>3, <3>1 DEF RankInv, Up
  <2>4. CASE r.refused # {}
    BY <2>2, <2>4 DEF RankInv, Up
  <2> QED
    BY <2>3, <2>4
<1>3. CASE ConnectEnds
  BY <1>3 DEF ConnectEnds, RankInv, Up, Idle
<1>4. CASE UNCHANGED conn
  BY <1>4 DEF RankInv, Up
<1>5. ASSUME NEW in \in InitInputs, InitBegin(in) PROVE UNCHANGED conn
  BY <1>5 DEF InitBegin
<1>6. ASSUME InitConfirm \/ InitWritesYAML \/ InitWritesEnv \/ InitStops PROVE UNCHANGED conn
  BY <1>6 DEF InitConfirm, InitWritesYAML, InitWritesEnv, InitStops
<1>7. ASSUME NEW d \in Edits, Edit(d) PROVE UNCHANGED conn
  BY <1>7 DEF Edit
<1> QED
  BY <1>1, <1>2, <1>3, <1>4, <1>5, <1>6, <1>7 DEF Next, vars

\* RankInv holds of every state of every behaviour.
THEOREM RankSafety == Spec => []RankInv
<1>1. Init => RankInv
  BY DEF Init, RankInv, Up, Idle
<1> QED
  BY <1>1, RankStep, PTL DEF Spec

\* The mode and the control URL of a layer, as LayersDecide reads them.
LEMMA SameIsOnly ==
    ASSUME NEW c, NEW l
    PROVE  /\ SameModes(c, l) => Only(c, Modes) = Only(l, Modes)
           /\ SameURL(c, l) => Only(c, {"ControlURL"}) = TrimSpace(Only(l, {"ControlURL"}))
<1>1. ASSUME SameModes(c, l) PROVE Only(c, Modes) = Only(l, Modes)
  BY <1>1, OnlyEqual DEF SameModes
<1>2. ASSUME SameURL(c, l)
      PROVE  Only(c, {"ControlURL"}) = TrimSpace(Only(l, {"ControlURL"}))
  <2>1. PICK o : o = Only(l, {"ControlURL"})
    OBVIOUS
  <2>2. /\ DOMAIN o = DOMAIN l \cap {"ControlURL"}
        /\ "ControlURL" \in DOMAIN l => o["ControlURL"] = l["ControlURL"]
    BY <2>1 DEF Only
  <2>3. CASE "ControlURL" \in DOMAIN l /\ l["ControlURL"] = "blank"
    <3>1. TrimSpace(o) = Without(o, {"ControlURL"})
      BY <2>2, <2>3 DEF TrimSpace, Sets
    <3>2. DOMAIN c \cap {"ControlURL"} = {} /\ DOMAIN o \ {"ControlURL"} = {}
      BY <1>2, <2>2, <2>3 DEF SameURL
    <3> QED
      BY <2>1, <3>1, <3>2 DEF Only, Without
  <2>4. CASE ~("ControlURL" \in DOMAIN l /\ l["ControlURL"] = "blank")
    <3>1. TrimSpace(o) = o
      BY <2>2, <2>4 DEF TrimSpace, Sets
    <3>2. DOMAIN c \cap {"ControlURL"} = DOMAIN l \cap {"ControlURL"}
      BY <1>2, <2>4 DEF SameURL
    <3>3. \A f \in DOMAIN l \cap {"ControlURL"} : c[f] = l[f]
      BY <1>2, <2>4 DEF SameURL
    <3> QED
      BY <2>1, <3>1, <3>2, <3>3 DEF Only
  <2> QED
    BY <2>3, <2>4
<1> QED
  BY <1>1, <1>2

\* The environment is .env over the explicit variables, field by field.
LEMMA EnvSplit ==
    ASSUME RankInv, conn.pc # "idle"
    PROVE  conn.env = NonEmpty(conn.dotenv) @@ Explicit
<1>1. PICK d, e, l, u, x : /\ d = conn.dotenv /\ e = conn.s.env /\ l = d @@ e
                           /\ u = NonEmpty(d) /\ x = Explicit
  OBVIOUS
<1>2. conn.env = IF Get(l, "ControlURL", "saas") = "empty" THEN Without(l, {"ControlURL"}) ELSE l
  BY <1>1 DEF RankInv, Loaded
<1>3. /\ DOMAIN l = DOMAIN d \cup DOMAIN e
      /\ \A f \in DOMAIN d : l[f] = d[f]
      /\ \A f \in DOMAIN e \ DOMAIN d : l[f] = e[f]
  BY <1>1 DEF @@
<1>4. x = IF Get(d, "ControlURL", "saas") = "empty" THEN Without(e, {"ControlURL"}) ELSE NonEmpty(e)
  BY <1>1 DEF Explicit
<1>5. CASE Get(l, "ControlURL", "saas") = "empty"
  <2>1. "ControlURL" \in DOMAIN l /\ l["ControlURL"] = "empty"
    BY <1>5 DEF Get, Sets
  <2>2. /\ DOMAIN u = DOMAIN d \ {"ControlURL"} /\ \A f \in DOMAIN u : u[f] = d[f]
    BY <1>1, <1>3, <2>1 DEF NonEmpty, Get, Sets, Without
  <2>3. /\ DOMAIN x = DOMAIN e \ {"ControlURL"} /\ \A f \in DOMAIN x : x[f] = e[f]
    BY <1>3, <1>4, <2>1 DEF NonEmpty, Get, Sets, Without
  <2>4. conn.env = Without(l, {"ControlURL"})
    BY <1>2, <1>5
  <2>5. Without(l, {"ControlURL"}) = u @@ x
    BY <1>3, <2>2, <2>3 DEF Without, @@
  <2> QED
    BY <1>1, <2>4, <2>5
<1>6. CASE Get(l, "ControlURL", "saas") # "empty"
  <2>1. u = d
    BY <1>1, <1>3, <1>6 DEF NonEmpty, Get, Sets
  <2>2. Get(d, "ControlURL", "saas") # "empty"
    BY <1>3, <1>6 DEF Get, Sets
  <2>3. /\ DOMAIN x \ DOMAIN d = DOMAIN e \ DOMAIN d /\ \A f \in DOMAIN x : x[f] = e[f]
    BY <1>3, <1>4, <1>6, <2>2 DEF NonEmpty, Get, Sets, Without
  <2>4. conn.env = l
    BY <1>2, <1>6
  <2>5. DOMAIN d \cup DOMAIN x = DOMAIN d \cup DOMAIN e
    BY <2>3
  <2>6. l = d @@ x
    BY <1>1, <2>3, <2>5 DEF @@
  <2> QED
    BY <1>1, <2>1, <2>4, <2>6
<1> QED
  BY <1>5, <1>6

\* Which layer is the topmost.
LEMMA TopLayer ==
    ASSUME NEW flags, NEW dotenv, NEW explicit, NEW file, NEW profile,
           Layers = <<flags, dotenv, explicit, file, profile>>,
           NEW fields, NEW i \in Tops(fields)
    PROVE  \/ Layers[i] = flags /\ DOMAIN flags \cap fields # {}
           \/ /\ Layers[i] = dotenv /\ DOMAIN dotenv \cap fields # {}
              /\ DOMAIN flags \cap fields = {}
           \/ /\ Layers[i] = explicit /\ DOMAIN explicit \cap fields # {}
              /\ DOMAIN flags \cap fields = {} /\ DOMAIN dotenv \cap fields = {}
           \/ /\ Layers[i] = file /\ DOMAIN file \cap fields # {}
              /\ DOMAIN flags \cap fields = {} /\ DOMAIN dotenv \cap fields = {}
              /\ DOMAIN explicit \cap fields = {}
           \/ /\ Layers[i] = profile /\ DOMAIN profile \cap fields # {}
              /\ DOMAIN flags \cap fields = {} /\ DOMAIN dotenv \cap fields = {}
              /\ DOMAIN explicit \cap fields = {} /\ DOMAIN file \cap fields = {}
<1>3. i \in 1 .. 5 /\ DOMAIN Layers[i] \cap fields # {}
  BY DEF Tops
<1>4. \A j \in 1 .. i - 1 : DOMAIN Layers[j] \cap fields = {}
  BY DEF Tops
<1>5. CASE i = 1
  BY <1>3, <1>5
<1>6. CASE i = 2
  <2>1. DOMAIN Layers[1] \cap fields = {}
    BY <1>4, <1>6
  <2> QED
    BY <1>3, <1>6, <2>1
<1>7. CASE i = 3
  <2>1. DOMAIN Layers[1] \cap fields = {} /\ DOMAIN Layers[2] \cap fields = {}
    BY <1>4, <1>7
  <2> QED
    BY <1>3, <1>7, <2>1
<1>8. CASE i = 4
  <2>1. /\ DOMAIN Layers[1] \cap fields = {} /\ DOMAIN Layers[2] \cap fields = {}
        /\ DOMAIN Layers[3] \cap fields = {}
    BY <1>4, <1>8
  <2> QED
    BY <1>3, <1>8, <2>1
<1>9. CASE i = 5
  <2>1. /\ DOMAIN Layers[1] \cap fields = {} /\ DOMAIN Layers[2] \cap fields = {}
        /\ DOMAIN Layers[3] \cap fields = {} /\ DOMAIN Layers[4] \cap fields = {}
    BY <1>4, <1>9
  <2> QED
    BY <1>3, <1>9, <2>1
<1> QED
  BY <1>3, <1>5, <1>6, <1>7, <1>8, <1>9

\* In a connect that is up, the topmost layer decides.
LEMMA TopDecides ==
    ASSUME RankInv, Up
    PROVE  /\ \A i \in Tops(Modes) : SameModes(conn.cfg, Layers[i])
           /\ \A f \in Strings \cup Numbers : \A i \in Tops({f}) : Decides(conn.cfg, Layers[i], f)
           /\ Tops({"StateDir"}) # {} => conn.cfg["EphemeralState"] = FALSE
<1>1. PICK cfg, flags, dotenv, explicit, env, file, profile :
        /\ cfg = conn.cfg /\ flags = conn.s.flags /\ env = conn.env /\ file = conn.file
        /\ dotenv = NonEmpty(conn.dotenv) /\ explicit = Explicit
        /\ profile = Only(conn.s.profile, profileFields)
  OBVIOUS
<1>2. Ranked(cfg, flags, env, file, profile) /\ ~ModeConflict(env)
  BY <1>1 DEF RankInv
<1>3. Layers = <<flags, dotenv, explicit, file, profile>>
  BY <1>1 DEF Layers
<1>4. env = dotenv @@ explicit
  BY <1>1, EnvSplit DEF Up
<1>5. DOMAIN env = DOMAIN dotenv \cup DOMAIN explicit
  BY <1>4 DEF @@
<1>6. /\ \A f \in DOMAIN dotenv : Decides(cfg, env, f) => Decides(cfg, dotenv, f)
      /\ \A f \in DOMAIN explicit \ DOMAIN dotenv : Decides(cfg, env, f) => Decides(cfg, explicit, f)
      /\ DOMAIN dotenv \cap Modes # {} /\ SameModes(cfg, env) => SameModes(cfg, dotenv)
      /\ DOMAIN dotenv \cap Modes = {} /\ SameModes(cfg, env) => SameModes(cfg, explicit)
  BY <1>2, <1>4, ProfileBelow, Zenon
<1>7. ASSUME NEW i \in Tops(Modes) PROVE SameModes(cfg, Layers[i])
  <2>1. \/ Layers[i] = flags /\ DOMAIN flags \cap Modes # {}
        \/ /\ Layers[i] = dotenv /\ DOMAIN dotenv \cap Modes # {}
           /\ DOMAIN flags \cap Modes = {}
        \/ /\ Layers[i] = explicit /\ DOMAIN explicit \cap Modes # {}
           /\ DOMAIN flags \cap Modes = {} /\ DOMAIN dotenv \cap Modes = {}
        \/ /\ Layers[i] = file /\ DOMAIN file \cap Modes # {}
           /\ DOMAIN flags \cap Modes = {} /\ DOMAIN env \cap Modes = {}
        \/ /\ Layers[i] = profile
           /\ DOMAIN flags \cap Modes = {} /\ DOMAIN env \cap Modes = {}
           /\ DOMAIN file \cap Modes = {}
    BY <1>3, <1>5, <1>7, TopLayer
  <2> QED
    BY <1>2, <1>5, <1>6, <2>1 DEF Ranked
<1>8. ASSUME NEW f \in Strings \cup Numbers, NEW i \in Tops({f})
      PROVE  Decides(cfg, Layers[i], f)
  <2>1. \/ Layers[i] = flags /\ f \in DOMAIN flags
        \/ Layers[i] = dotenv /\ f \in DOMAIN dotenv \ DOMAIN flags
        \/ Layers[i] = explicit /\ f \in DOMAIN explicit \ (DOMAIN flags \cup DOMAIN dotenv)
        \/ Layers[i] = file /\ f \in DOMAIN file \ (DOMAIN flags \cup DOMAIN env)
        \/ Layers[i] = profile /\ f \in DOMAIN profile \ (DOMAIN flags \cup DOMAIN env \cup DOMAIN file)
    BY <1>3, <1>5, <1>8, TopLayer
  <2> QED
    BY <1>2, <1>5, <1>6, <2>1 DEF Ranked
<1>9. ASSUME NEW i \in Tops({"StateDir"}) PROVE cfg["EphemeralState"] = FALSE
  <2>1. "StateDir" \in DOMAIN flags \cup DOMAIN env \cup DOMAIN file \cup DOMAIN profile
    BY <1>3, <1>5, <1>9, TopLayer
  <2> QED
    BY <1>2, <2>1 DEF Ranked
<1> QED
  BY <1>1, <1>7, <1>8, <1>9

\* Flags, .env, explicit variables, YAML, profile, defaults, as envfile.Load,
\* config.Merge and applyConnectProfile lay them: whatever the layers hold, the topmost that names a mode or a field
\* decides it, and a state directory some layer names is never ephemeral.
THEOREM LayersAreRanked == Spec => []LayersDecide
<1>1. RankInv => LayersDecide
  <2> SUFFICES ASSUME RankInv, Up
               PROVE  /\ \A i \in Tops(Modes) : Only(conn.cfg, Modes) = Only(Layers[i], Modes)
                      /\ \A f \in Strings \ {"ControlURL"} : \A i \in Tops({f}) :
                            conn.cfg[f] = Layers[i][f]
                      /\ \A i \in Tops({"ControlURL"}) :
                            Only(conn.cfg, {"ControlURL"}) = TrimSpace(Only(Layers[i], {"ControlURL"}))
                      /\ \A f \in Numbers : \A i \in Tops({f}) :
                            Layers[i][f] > 0 => conn.cfg[f] = Layers[i][f]
                      /\ Tops({"StateDir"}) # {} => ~conn.cfg["EphemeralState"]
    BY DEF LayersDecide
  <2>1. /\ \A i \in Tops(Modes) : SameModes(conn.cfg, Layers[i])
        /\ \A f \in Strings \cup Numbers : \A i \in Tops({f}) : Decides(conn.cfg, Layers[i], f)
        /\ Tops({"StateDir"}) # {} => conn.cfg["EphemeralState"] = FALSE
    BY TopDecides
  <2>2. ASSUME NEW i \in Tops(Modes) PROVE Only(conn.cfg, Modes) = Only(Layers[i], Modes)
    BY <2>1, <2>2, SameIsOnly, Zenon
  <2>3. ASSUME NEW f \in Strings \ {"ControlURL"}, NEW i \in Tops({f})
        PROVE  conn.cfg[f] = Layers[i][f]
    BY <2>1, <2>3 DEF Decides, Has
  <2>4. ASSUME NEW i \in Tops({"ControlURL"})
        PROVE  Only(conn.cfg, {"ControlURL"}) = TrimSpace(Only(Layers[i], {"ControlURL"}))
    <3>1. "ControlURL" \in Strings
      BY DEF Strings
    <3>2. SameURL(conn.cfg, Layers[i])
      BY <2>1, <2>4, <3>1 DEF Decides
    <3> QED
      BY <3>2, SameIsOnly, Zenon
  <2>5. ASSUME NEW f \in Numbers, NEW i \in Tops({f}), Layers[i][f] > 0
        PROVE  conn.cfg[f] = Layers[i][f]
    BY <2>1, <2>5 DEF Decides, Has
  <2>6. Tops({"StateDir"}) # {} => ~conn.cfg["EphemeralState"]
    BY <2>1
  <2> QED
    BY <2>2, <2>3, <2>4, <2>5, <2>6
<1> QED
  BY <1>1, RankSafety, PTL

\* The control URL that overridingControlURL foresees is the one the layers above
\* the profile give.
LEMMA ForeseenURL ==
    ASSUME NEW flags, NEW env, NEW file, NEW imposed,
           imposed = overridingControlURL(flags, env, file)
    PROVE  /\ Sets(imposed, "ControlURL") <=>
                 "ControlURL" \in DOMAIN flags \cup DOMAIN env \cup DOMAIN file
           /\ "ControlURL" \in DOMAIN flags => imposed["ControlURL"] = flags["ControlURL"]
           /\ "ControlURL" \in DOMAIN env \ DOMAIN flags => imposed["ControlURL"] = env["ControlURL"]
           /\ "ControlURL" \in DOMAIN file \ (DOMAIN flags \cup DOMAIN env)
                 => imposed["ControlURL"] = file["ControlURL"]
<1>1. PICK a, b, c : /\ a = Only(flags, {"ControlURL"}) /\ b = Only(env, {"ControlURL"})
                     /\ c = Only(file, {"ControlURL"})
  OBVIOUS
<1>2. /\ DOMAIN a = DOMAIN flags \cap {"ControlURL"} /\ DOMAIN b = DOMAIN env \cap {"ControlURL"}
      /\ DOMAIN c = DOMAIN file \cap {"ControlURL"}
  BY <1>1 DEF Only
<1>3. /\ "ControlURL" \in DOMAIN a => a["ControlURL"] = flags["ControlURL"]
      /\ "ControlURL" \in DOMAIN b => b["ControlURL"] = env["ControlURL"]
      /\ "ControlURL" \in DOMAIN c => c["ControlURL"] = file["ControlURL"]
  BY <1>1 DEF Only
<1>4. PICK ab : ab = a @@ b
  OBVIOUS
<1>5. /\ DOMAIN ab = DOMAIN a \cup DOMAIN b
      /\ "ControlURL" \in DOMAIN a => ab["ControlURL"] = a["ControlURL"]
      /\ "ControlURL" \in DOMAIN b \ DOMAIN a => ab["ControlURL"] = b["ControlURL"]
  BY <1>4 DEF @@
<1>6. imposed = ab @@ c
  BY <1>1, <1>4 DEF overridingControlURL
<1>7. /\ DOMAIN imposed = DOMAIN ab \cup DOMAIN c
      /\ "ControlURL" \in DOMAIN ab => imposed["ControlURL"] = ab["ControlURL"]
      /\ "ControlURL" \in DOMAIN c \ DOMAIN ab => imposed["ControlURL"] = c["ControlURL"]
  BY <1>6 DEF @@
<1> QED
  BY <1>2, <1>3, <1>5, <1>7 DEF Sets

\* A control URL that is another's without the blanks resolves to the same plane.
LEMMA SamePlane ==
    ASSUME NEW c, NEW l, SameURL(c, l)
    PROVE  Get(c, "ControlURL", "saas") = Get(TrimSpace(l), "ControlURL", "saas")
<1>1. PICK t : t = TrimSpace(l)
  OBVIOUS
<1>2. /\ "ControlURL" \in DOMAIN t <=> "ControlURL" \in DOMAIN l /\ l["ControlURL"] # "blank"
      /\ "ControlURL" \in DOMAIN t => t["ControlURL"] = l["ControlURL"]
  BY <1>1, TrimFacts
<1>3. Get(c, "ControlURL", "saas") = Get(t, "ControlURL", "saas")
  BY <1>2 DEF SameURL, Get, Sets
<1> QED
  BY <1>1, <1>3

\* loadBoundProfileCredential foresees Merge: whatever the flags, the environment and
\* the file hold, a managed key goes to the control plane of its own profile.
THEOREM ManagedKeyGoesHome == Spec => []ManagedKeyStaysHome
<1>1. RankInv => ManagedKeyStaysHome
  <2> SUFFICES ASSUME RankInv, Up, conn.managed
               PROVE  Get(conn.cfg, "ControlURL", "saas") =
                        Get(TrimSpace(conn.s.profile), "ControlURL", "saas")
    BY DEF ManagedKeyStaysHome
  <2>1. PICK cfg, s, flags, env, file, profile :
          /\ cfg = conn.cfg /\ s = conn.s /\ flags = conn.s.flags /\ env = conn.env /\ file = conn.file
          /\ profile = Only(conn.s.profile, profileFields)
    OBVIOUS
  <2>2. Ranked(cfg, flags, env, file, profile) /\ credentialIsBound(s, env, file)
    BY <2>1 DEF RankInv
  <2>3. PICK imposed : imposed = overridingControlURL(flags, env, file)
    OBVIOUS
  <2>4. /\ Sets(imposed, "ControlURL") <=>
                 "ControlURL" \in DOMAIN flags \cup DOMAIN env \cup DOMAIN file
        /\ "ControlURL" \in DOMAIN flags => imposed["ControlURL"] = flags["ControlURL"]
        /\ "ControlURL" \in DOMAIN env \ DOMAIN flags => imposed["ControlURL"] = env["ControlURL"]
        /\ "ControlURL" \in DOMAIN file \ (DOMAIN flags \cup DOMAIN env)
                 => imposed["ControlURL"] = file["ControlURL"]
    BY <2>3, ForeseenURL
  <2>5. "ControlURL" \in Strings
    BY DEF Strings
  <2>6. CASE Sets(imposed, "ControlURL")
    <3>1. SameURL(cfg, imposed)
      BY <2>2, <2>4, <2>5, <2>6 DEF Ranked, Decides, SameURL, Sets
    <3>2. Get(TrimSpace(imposed), "ControlURL", "saas") = Get(TrimSpace(s.profile), "ControlURL", "saas")
      BY <2>1, <2>2, <2>3, <2>6 DEF credentialIsBound
    <3>3. Get(cfg, "ControlURL", "saas") = Get(TrimSpace(imposed), "ControlURL", "saas")
      BY <3>1, SamePlane, Zenon
    <3> QED
      BY <2>1, <3>2, <3>3
  <2>7. CASE ~Sets(imposed, "ControlURL")
    <3>1. "ControlURL" \in DOMAIN profile => SameURL(cfg, profile)
      BY <2>2, <2>4, <2>5, <2>7 DEF Ranked, Decides
    <3>2. "ControlURL" \notin DOMAIN profile => "ControlURL" \notin DOMAIN cfg
      BY <2>2, <2>4, <2>7 DEF Ranked
    <3>3. /\ "ControlURL" \in DOMAIN profile <=> "ControlURL" \in DOMAIN s.profile
          /\ "ControlURL" \in DOMAIN profile => profile["ControlURL"] = s.profile["ControlURL"]
      BY <2>1 DEF Only, profileFields
    <3>4. SameURL(cfg, s.profile)
      BY <3>1, <3>2, <3>3 DEF SameURL
    <3>5. Get(cfg, "ControlURL", "saas") = Get(TrimSpace(s.profile), "ControlURL", "saas")
      BY <3>4, SamePlane, Zenon
    <3> QED
      BY <2>1, <3>5
  <2> QED
    BY <2>6, <2>7
<1> QED
  BY <1>1, RankSafety, PTL

----------------------------------------------------------------------------
(***************************************************************************)
(* The key and the control URL that init stores.                           *)
(***************************************************************************)
\* The layer holds the control URL of plane, and nothing has to be trimmed from it.
Agrees(layer, plane) ==
    /\ "ControlURL" \in DOMAIN layer /\ layer["ControlURL"] \notin {"blank", "empty"}
    /\ plane = "ControlURL" :> layer["ControlURL"]

\* An init no edit has disturbed still sees the .env it resolved its control URL
\* from; existing is what its second read saw.
InitPart ==
    init.pc # "idle" =>
        /\ init.pc \in {"confirm", "writeYAML", "writeEnv"}
        /\ DOMAIN init = {"pc", "in", "f", "plane", "touched"}
                            \cup (IF init.pc = "confirm" THEN {} ELSE {"existing"})
        /\ ~init.touched =>
                /\ init.plane = Trimmed(effectiveControlURL(init.f, init.in.format))
                /\ init.pc # "confirm" => init.existing = Values

\* The .env on the disk holds the control URL of the init it is held to, and so does
\* the environment of a connect that has loaded it.
GivenPart ==
    given # None => /\ DOMAIN given = {"f", "plane", "format", "whole"}
                    /\ Sets(given.plane, "ControlURL") => Agrees(File("env"), given.plane)
LoadedPart ==
    conn.pc # "idle" /\ conn.given # None /\ Sets(conn.given.plane, "ControlURL") =>
        Agrees(conn.env, conn.given.plane)

PlaneInv == InitPart /\ GivenPart /\ LoadedPart

\* The .env that init writes holds the control URL init made effective.
LEMMA WrittenAgrees ==
    ASSUME NEW f, NEW format, NEW existing, existing = Values, NEW plane,
           plane = Trimmed(effectiveControlURL(f, format)), Sets(plane, "ControlURL"),
           NEW e, e = IF format = "yaml" THEN buildEnvContent(f, existing) ELSE buildEnvConfigContent(f)
    PROVE  Agrees(e, plane)
<1>1. PICK url : url = effectiveControlURL(f, format)
  OBVIOUS
<1>2. plane = url /\ "ControlURL" \in DOMAIN url /\ url["ControlURL"] \notin {"blank", "empty"}
  BY <1>1 DEF Trimmed, Sets, Get, Empty
<1>3. CASE Sets(f, "ControlURL")
  <2>1. url = Only(f, {"ControlURL"})
    BY <1>1, <1>3 DEF effectiveControlURL
  <2>2. url = "ControlURL" :> f["ControlURL"]
    BY <1>3, <2>1 DEF Only, Sets, :>
  <2>3. "ControlURL" \in DOMAIN e /\ e["ControlURL"] = f["ControlURL"]
    <3>1. CASE format = "yaml"
      <4>1. PICK o : o = Only(f, {"AuthKey", "Target", "ControlURL"})
        OBVIOUS
      <4>2. "ControlURL" \in DOMAIN o /\ o["ControlURL"] = f["ControlURL"]
        BY <1>3, <4>1 DEF Only, Sets
      <4>3. e = o @@ existing
        BY <3>1, <4>1 DEF buildEnvContent
      <4> QED
        BY <4>2, <4>3 DEF @@
    <3>2. CASE format # "yaml"
      BY <1>3, <3>2 DEF buildEnvConfigContent, Only, Sets
    <3> QED
      BY <3>1, <3>2
  <2>4. url["ControlURL"] = f["ControlURL"]
    BY <2>2, FieldFacts
  <2> QED
    BY <1>2, <2>2, <2>3, <2>4 DEF Agrees
<1>4. CASE ~Sets(f, "ControlURL")
  <2>1. format = "yaml" /\ url = Only(existing, {"ControlURL"})
    BY <1>1, <1>2, <1>4 DEF effectiveControlURL, Empty
  <2>2. "ControlURL" \in DOMAIN existing /\ url["ControlURL"] = existing["ControlURL"]
    BY <1>2, <2>1 DEF Only
  <2>3. url = "ControlURL" :> existing["ControlURL"]
    BY <2>1, <2>2 DEF Only, :>
  <2>4. PICK o : o = Only(f, {"AuthKey", "Target", "ControlURL"})
    OBVIOUS
  <2>5. "ControlURL" \notin DOMAIN o
    BY <1>4, <2>4 DEF Only, Sets
  <2>6. e = o @@ existing
    BY <2>1, <2>4 DEF buildEnvContent
  <2>7. "ControlURL" \in DOMAIN e /\ e["ControlURL"] = existing["ControlURL"]
    BY <2>2, <2>5, <2>6 DEF @@
  <2> QED
    BY <1>2, <2>2, <2>3, <2>7 DEF Agrees
<1> QED
  BY <1>3, <1>4

\* Loading a .env that holds the control URL puts it into the environment, over an
\* explicit variable.
LEMMA LoadAgrees ==
    ASSUME NEW explicit, NEW plane, Agrees(File("env"), plane)
    PROVE  Agrees(Load(explicit), plane)
<1>1. PICK l : l = File("env")
  OBVIOUS
<1>2. "ControlURL" \in DOMAIN l /\ l["ControlURL"] \notin {"blank", "empty"}
  BY <1>1 DEF Agrees
<1>3. Values = l
  BY <1>1, <1>2 DEF Values, Get, Sets
<1>4. PICK m : m = l @@ explicit
  OBVIOUS
<1>5. "ControlURL" \in DOMAIN m /\ m["ControlURL"] = l["ControlURL"]
  BY <1>2, <1>4 DEF @@
<1>6. Load(explicit) = m
  BY <1>2, <1>3, <1>4, <1>5 DEF Load, Get, Sets
<1> QED
  BY <1>1, <1>2, <1>5, <1>6 DEF Agrees

\* What a step that leaves .env alone leaves alone.
LEMMA EnvUntouched ==
    ASSUME File("env")' = File("env")
    PROVE  /\ Values' = Values
           /\ \A f, format : effectiveControlURL(f, format)' = effectiveControlURL(f, format)
<1>1. Values' = Values
  BY DEF Values
<1> QED
  BY <1>1 DEF effectiveControlURL

\* What the parts read is what they say.
LEMMA PartsUntouched ==
    /\ InitPart /\ File("env")' = File("env") /\ UNCHANGED init => InitPart'
    /\ GivenPart /\ File("env")' = File("env") /\ UNCHANGED given => GivenPart'
    /\ LoadedPart /\ UNCHANGED conn => LoadedPart'
    /\ UNCHANGED disk => File("env")' = File("env")
<1>1. ASSUME InitPart, File("env")' = File("env"), UNCHANGED init PROVE InitPart'
  <2>1. /\ Values' = Values
        /\ \A f, format : effectiveControlURL(f, format)' = effectiveControlURL(f, format)
    BY <1>1, EnvUntouched
  <2>2. effectiveControlURL(init.f, init.in.format)' = effectiveControlURL(init.f, init.in.format)
    BY <1>1, <2>1 DEF effectiveControlURL
  <2> QED
    BY <1>1, <2>1, <2>2 DEF InitPart
<1>2. ASSUME GivenPart, File("env")' = File("env"), UNCHANGED given PROVE GivenPart'
  BY <1>2 DEF GivenPart
<1>3. ASSUME LoadedPart, UNCHANGED conn PROVE LoadedPart'
  BY <1>3 DEF LoadedPart
<1>4. ASSUME UNCHANGED disk PROVE File("env")' = File("env")
  BY <1>4 DEF File
<1> QED
  BY <1>1, <1>2, <1>3, <1>4

\* No step of connect, of init or of a person disturbs it.
LEMMA PlaneStep == PlaneInv /\ [Next]_vars => PlaneInv'
<1> SUFFICES ASSUME PlaneInv, [Next]_vars PROVE PlaneInv'
  OBVIOUS
<1>0. InitPart /\ GivenPart /\ LoadedPart
  BY DEF PlaneInv
<1>1. ASSUME NEW s \in Settings, ConnectLoad(s) PROVE PlaneInv'
  <2>1. InitPart' /\ GivenPart'
    BY <1>0, <1>1, PartsUntouched DEF ConnectLoad
  <2>2. conn'.env = Load(s.env) /\ conn'.given = given
    BY <1>1 DEF ConnectLoad
  <2>3. LoadedPart'
    BY <1>0, <2>2, LoadAgrees DEF LoadedPart, GivenPart
  <2> QED
    BY <2>1, <2>3 DEF PlaneInv
<1>2. ASSUME NEW o \in Offsets, ConnectResolve(o) PROVE PlaneInv'
  <2>1. InitPart' /\ GivenPart'
    BY <1>0, <1>2, PartsUntouched DEF ConnectResolve
  <2>2. conn.pc # "idle" /\ conn'.env = conn.env /\ conn'.given = conn.given
    BY <1>2 DEF ConnectResolve
  <2>3. LoadedPart'
    BY <1>0, <2>2 DEF LoadedPart
  <2> QED
    BY <2>1, <2>3 DEF PlaneInv
<1>3. CASE ConnectEnds
  <2>1. InitPart' /\ GivenPart'
    BY <1>0, <1>3, PartsUntouched DEF ConnectEnds
  <2>2. LoadedPart'
    BY <1>3 DEF ConnectEnds, LoadedPart, Idle
  <2> QED
    BY <2>1, <2>2 DEF PlaneInv
<1>4. ASSUME NEW in \in InitInputs, InitBegin(in) PROVE PlaneInv'
  <2>1. GivenPart' /\ LoadedPart' /\ File("env")' = File("env")
    BY <1>0, <1>4, PartsUntouched DEF InitBegin
  <2>2. PICK f, plane : /\ f = InitFlags(in) /\ plane = Trimmed(effectiveControlURL(f, in.format))
                        /\ init' = [pc |-> "confirm", in |-> in, f |-> f, plane |-> plane, touched |-> FALSE]
    BY <1>4 DEF InitBegin
  <2>3. effectiveControlURL(f, in.format)' = effectiveControlURL(f, in.format)
    BY <2>1, EnvUntouched
  <2>4. InitPart'
    BY <2>2, <2>3 DEF InitPart
  <2> QED
    BY <2>1, <2>4 DEF PlaneInv
<1>5. CASE InitConfirm
  <2>1. GivenPart' /\ LoadedPart' /\ File("env")' = File("env")
    BY <1>0, <1>5, PartsUntouched DEF InitConfirm
  <2>2. PICK r, x, pc : /\ pc \in {"writeYAML", "writeEnv"} /\ r = [init EXCEPT !.pc = pc]
                        /\ x = "existing" :> Values /\ init' = r @@ x /\ init.pc = "confirm"
    BY <1>5 DEF InitConfirm
  <2>3. DOMAIN init = {"pc", "in", "f", "plane", "touched"}
    BY <1>0, <2>2 DEF InitPart
  <2>4. DOMAIN x = {"existing"} /\ x["existing"] = Values
    BY <2>2, FieldFacts
  <2>5. /\ DOMAIN r = DOMAIN init /\ r.pc = pc /\ r.in = init.in /\ r.f = init.f
        /\ r.plane = init.plane /\ r.touched = init.touched
    BY <2>2, <2>3
  <2>6. /\ DOMAIN init' = DOMAIN init \cup {"existing"} /\ init'.pc = pc /\ init'.in = init.in
        /\ init'.f = init.f /\ init'.plane = init.plane /\ init'.touched = init.touched
        /\ init'.existing = Values
    BY <2>2, <2>3, <2>4, <2>5 DEF @@
  <2>7. /\ Values' = Values
        /\ effectiveControlURL(init.f, init.in.format)' = effectiveControlURL(init.f, init.in.format)
    BY <2>1, <2>6, EnvUntouched DEF effectiveControlURL
  <2>8. InitPart'
    BY <1>0, <2>2, <2>3, <2>6, <2>7 DEF InitPart
  <2> QED
    BY <2>1, <2>8 DEF PlaneInv
<1>6. CASE InitWritesYAML
  <2>1. LoadedPart'
    BY <1>0, <1>6, PartsUntouched DEF InitWritesYAML
  <2>2. File("env")' = File("env")
    <3>1. PICK y : y = "yaml" :> buildYAMLContent(init.f) /\ disk' = y @@ disk
      BY <1>6 DEF InitWritesYAML
    <3>2. DOMAIN y = {"yaml"}
      BY <3>1, FieldFacts
    <3>3. /\ "env" \in DOMAIN disk' <=> "env" \in DOMAIN disk
          /\ "env" \in DOMAIN disk => disk'["env"] = disk["env"]
      BY <3>1, <3>2 DEF @@
    <3> QED
      BY <3>3 DEF File
  <2>3. init.pc = "writeYAML" /\ init' = [init EXCEPT !.pc = "writeEnv"]
    BY <1>6 DEF InitWritesYAML
  <2>4. DOMAIN init = {"pc", "in", "f", "plane", "touched", "existing"}
    BY <1>0, <2>3 DEF InitPart
  <2>5. /\ DOMAIN init' = DOMAIN init /\ init'.pc = "writeEnv" /\ init'.in = init.in
        /\ init'.f = init.f /\ init'.plane = init.plane /\ init'.touched = init.touched
        /\ init'.existing = init.existing
    BY <2>3, <2>4
  <2>6. /\ Values' = Values
        /\ effectiveControlURL(init.f, init.in.format)' = effectiveControlURL(init.f, init.in.format)
    BY <2>2, <2>5, EnvUntouched DEF effectiveControlURL
  <2>7. InitPart'
    BY <1>0, <2>3, <2>4, <2>5, <2>6 DEF InitPart
  <2>8. GivenPart'
    <3>1. CASE given = None
      BY <1>6, <3>1 DEF InitWritesYAML, GivenPart
    <3>2. CASE given # None
      <4>1. DOMAIN given' = DOMAIN given /\ given'.plane = given.plane
        BY <1>0, <1>6, <3>2 DEF InitWritesYAML, GivenPart
      <4> QED
        BY <1>0, <2>2, <3>2, <4>1 DEF GivenPart
    <3> QED
      BY <3>1, <3>2
  <2> QED
    BY <2>1, <2>7, <2>8 DEF PlaneInv
<1>7. CASE InitWritesEnv
  <2>1. LoadedPart' /\ InitPart'
    BY <1>0, <1>7, PartsUntouched DEF InitWritesEnv, InitPart, Idle
  <2>2. PICK e, y :
          /\ e = IF init.in.format = "yaml" THEN buildEnvContent(init.f, init.existing)
                 ELSE buildEnvConfigContent(init.f)
          /\ y = "env" :> e /\ disk' = y @@ disk
    BY <1>7 DEF InitWritesEnv
  <2>3. File("env")' = e
    <3>1. DOMAIN y = {"env"} /\ y["env"] = e
      BY <2>2, FieldFacts
    <3>2. "env" \in DOMAIN disk' /\ disk'["env"] = e
      BY <2>2, <3>1 DEF @@
    <3> QED
      BY <3>2 DEF File
  <2>4. GivenPart'
    <3>1. CASE init.touched
      BY <1>7, <3>1 DEF InitWritesEnv, GivenPart
    <3>2. CASE ~init.touched
      <4>1. given' = [f |-> init.f, plane |-> init.plane, format |-> init.in.format, whole |-> TRUE]
        BY <1>7, <3>2 DEF InitWritesEnv
      <4>2. /\ init.plane = Trimmed(effectiveControlURL(init.f, init.in.format))
            /\ init.existing = Values
        BY <1>0, <1>7, <3>2 DEF InitWritesEnv, InitPart
      <4>3. Sets(init.plane, "ControlURL") => Agrees(e, init.plane)
        BY <2>2, <4>2, WrittenAgrees
      <4> QED
        BY <2>3, <4>1, <4>3 DEF GivenPart
    <3> QED
      BY <3>1, <3>2
  <2> QED
    BY <2>1, <2>4 DEF PlaneInv
<1>8. CASE InitStops
  <2>1. GivenPart' /\ LoadedPart'
    BY <1>0, <1>8, PartsUntouched DEF InitStops
  <2>2. InitPart'
    BY <1>8 DEF InitStops, InitPart, Idle
  <2> QED
    BY <2>1, <2>2 DEF PlaneInv
<1>9. ASSUME NEW d \in Edits, Edit(d) PROVE PlaneInv'
  <2>1. LoadedPart' /\ GivenPart'
    BY <1>0, <1>9, PartsUntouched DEF Edit, GivenPart
  <2>2. InitPart'
    <3>1. CASE init.pc = "idle"
      BY <1>9, <3>1 DEF Edit, InitPart
    <3>2. CASE init.pc # "idle"
      <4>1. init' = [init EXCEPT !.touched = TRUE]
        BY <1>9, <3>2 DEF Edit
      <4>2. "touched" \in DOMAIN init /\ "pc" \in DOMAIN init
        BY <1>0, <3>2 DEF InitPart
      <4>3. DOMAIN init' = DOMAIN init /\ init'.pc = init.pc /\ init'.touched
        BY <4>1, <4>2
      <4> QED
        BY <1>0, <3>2, <4>3 DEF InitPart
    <3> QED
      BY <3>1, <3>2
  <2> QED
    BY <2>1, <2>2 DEF PlaneInv
<1>10. CASE UNCHANGED vars
  BY <1>0, <1>10, PartsUntouched DEF vars, PlaneInv
<1> HIDE DEF PlaneInv
<1> QED
  BY <1>1, <1>2, <1>3, <1>4, <1>5, <1>6, <1>7, <1>8, <1>9, <1>10 DEF Next

\* An init and the .env it is about agree, and so does a connect that loaded it, in
\* every reachable state.
THEOREM PlaneSafety == Spec => []PlaneInv
<1>1. Init => PlaneInv
  BY DEF Init, PlaneInv, InitPart, GivenPart, LoadedPart, Idle
<1> QED
  BY <1>1, PlaneStep, PTL DEF Spec

\* A key that init stored with a control URL goes to that control plane, whatever
\* inits were stopped between their two writes, whatever the environment and the
\* YAML file say: the .env that holds the one holds the other.
THEOREM StoredKeyKeepsPlane == Spec => []KeyKeepsItsPlane
<1>1. RankInv /\ PlaneInv => KeyKeepsItsPlane
  <2> SUFFICES ASSUME RankInv, PlaneInv, Up, conn.given # None,
                      Sets(conn.given.plane, "ControlURL"),
                      DOMAIN conn.s.flags \cap {"AuthKey", "ControlURL"} = {}
               PROVE  Only(conn.cfg, {"ControlURL"}) = conn.given.plane
    BY DEF KeyKeepsItsPlane
  <2>1. PICK cfg, env : cfg = conn.cfg /\ env = conn.env
    OBVIOUS
  <2>2. Agrees(env, conn.given.plane)
    BY <2>1 DEF PlaneInv, LoadedPart, Up
  <2>3. SameURL(cfg, env)
    <3>1. "ControlURL" \in DOMAIN env \ DOMAIN conn.s.flags /\ "ControlURL" \in Strings
      BY <2>2 DEF Agrees, Strings
    <3> QED
      BY <2>1, <3>1 DEF RankInv, Ranked, Decides
  <2>4. "ControlURL" \in DOMAIN cfg /\ cfg["ControlURL"] = env["ControlURL"]
    BY <2>2, <2>3 DEF SameURL, Agrees
  <2>5. Only(cfg, {"ControlURL"}) = "ControlURL" :> env["ControlURL"]
    BY <2>4 DEF Only, :>
  <2> QED
    BY <2>1, <2>2, <2>5 DEF Agrees
<1> QED
  BY <1>1, PlaneSafety, RankSafety, PTL

----------------------------------------------------------------------------
(***************************************************************************)
(* The waits between two dials.                                            *)
(***************************************************************************)

\* base << exp, in a Duration's width, is a Duration.
LEMMA WrapIsInt == ASSUME NEW n \in Int PROVE Wrap(n) \in Int
<1>1. PICK a, b : a = Pow2(Width - 1) /\ b = Pow2(Width) /\ a \in Nat \ {0} /\ b \in Nat \ {0}
  BY BackoffAssumption, PowersOfTwo
<1>2. (n + a) % b \in Int
  BY <1>1
<1> QED
  BY <1>1, <1>2 DEF Wrap

\* computeBackoff caps the shift whether it fits or wraps around.
LEMMA CappedRange ==
    ASSUME NEW attempt \in Nat, NEW base \in Int, NEW maxBackoff \in Nat, NEW d,
           d = CappedBase(attempt, base, maxBackoff)
    PROVE  d \in 0 .. maxBackoff
<1>1. PICK exp : exp = IF attempt > maxBackoffAttempt THEN maxBackoffAttempt ELSE attempt
  OBVIOUS
<1>2. exp \in 0 .. Width + maxBackoffAttempt
  BY <1>1, BackoffAssumption
<1>3. PICK p : p = Pow2(exp) /\ p \in Nat
  BY <1>2, PowersOfTwo
<1>4. PICK w : w = Wrap(base * p) /\ w \in Int
  <2>1. base * p \in Int
    BY <1>3
  <2> QED
    BY <2>1, WrapIsInt
<1>5. d = IF w <= 0 \/ w > maxBackoff THEN maxBackoff ELSE w
  BY <1>1, <1>3, <1>4 DEF CappedBase
<1> QED
  BY <1>4, <1>5

\* A sum that fits a Duration is itself; one that does not is a Duration.
LEMMA WrapRange ==
    ASSUME NEW n \in Nat
    PROVE  /\ n <= MaxDuration => Wrap(n) = n
           /\ Wrap(n) \in Int /\ Wrap(n) <= MaxDuration /\ MaxDuration \in Nat
<1>1. PICK a : a = Pow2(Width - 1) /\ a \in Nat \ {0} /\ Pow2(Width) = 2 * a
  BY BackoffAssumption, PowersOfTwo
<1>2. PICK q : q = (n + a) % (2 * a) /\ q \in 0 .. (2 * a) - 1 /\ (n + a < 2 * a => q = n + a)
  BY <1>1
<1>3. Wrap(n) = q - a /\ MaxDuration = a - 1
  BY <1>1, <1>2 DEF Wrap, MaxDuration
<1> QED
  BY <1>1, <1>2, <1>3

\* The wait before a retry, with its jitter, is no longer than one and a half times
\* the ceiling, and negative only where that length is no Duration.
LEMMA WaitRange ==
    ASSUME NEW attempt \in Nat, NEW base \in Int, NEW maxBackoff \in Nat, NEW longest,
           longest = maxBackoff + (maxBackoff \div 2),
           NEW wait \in computeBackoff(attempt, base, maxBackoff)
    PROVE  wait <= longest /\ (wait >= 0 \/ longest > MaxDuration)
<1>1. PICK d : d = CappedBase(attempt, base, maxBackoff) /\ d \in 0 .. maxBackoff
  BY CappedRange
<1>2. PICK h, m : /\ h = d \div 2 /\ m = maxBackoff \div 2 /\ h \in Nat /\ m \in Nat /\ h <= m
  BY <1>1
<1>3. computeBackoff(attempt, base, maxBackoff) =
        IF base <= 0 THEN {0} ELSE IF h <= 0 THEN {d} ELSE {Wrap(d + jitter) : jitter \in 0 .. h - 1}
  BY <1>1, <1>2 DEF computeBackoff
<1>4. CASE wait \in {0, d}
  BY <1>1, <1>2, <1>4
<1>5. CASE \E jitter \in 0 .. h - 1 : wait = Wrap(d + jitter)
  <2>1. PICK jitter \in 0 .. h - 1 : wait = Wrap(d + jitter)
    BY <1>5
  <2>2. PICK n : n = d + jitter /\ n \in Nat /\ n <= longest
    BY <1>1, <1>2, <2>1
  <2>3. /\ n <= MaxDuration => wait = n
        /\ wait \in Int /\ wait <= MaxDuration /\ MaxDuration \in Nat
    BY <2>1, <2>2, WrapRange
  <2> QED
    BY <1>1, <1>2, <2>2, <2>3
<1> QED
  BY <1>3, <1>4, <1>5

\* The numbers of a configuration computeBackoff is called with.
SoundNumbers(cfg) ==
    /\ {"DialBackoffBase", "DialBackoffMax"} \subseteq DOMAIN cfg
    /\ cfg["DialBackoffBase"] \in Int /\ cfg["DialBackoffMax"] \in Nat

\* A layer with integers leaves them sound.
LEMMA AppliedSound ==
    ASSUME NEW result, NEW layer, NEW below, Applied(result, layer, below),
           IntNumbers(layer), SoundNumbers(below)
    PROVE  SoundNumbers(result)
<1>1. "DialBackoffBase" \in Numbers /\ "DialBackoffMax" \in Numbers
  BY DEF Numbers
<1> QED
  BY <1>1 DEF Applied, IntNumbers, SoundNumbers

\* Merge returns sound numbers.
LEMMA MergeSound ==
    ASSUME NEW yaml, NEW env, NEW flags, NEW profileKey, NEW offset, NEW busy, NEW m,
           m = Merge(yaml, env, flags, profileKey, offset, busy), m.refused = {},
           DOMAIN profileKey \subseteq {"AuthKey"},
           IntNumbers(yaml), IntNumbers(env), IntNumbers(flags)
    PROVE  SoundNumbers(m.cfg)
<1>1. PICK c1 : c1 = applyYAML(defaults, yaml)
  OBVIOUS
<1>2. PICK c2 : c2 = applyEnv(c1, env)
  OBVIOUS
<1>3. PICK c3 : c3 = c2 @@ profileKey
  OBVIOUS
<1>4. PICK c4 : c4 = applyFlags(c3, flags)
  OBVIOUS
<1>5. Applied(c1, yaml, defaults) /\ Applied(c2, env, c1) /\ Applied(c4, flags, c3)
  BY <1>1, <1>2, <1>4, YAMLApplied, EnvApplied, FlagsApplied, Zenon
<1>6. SoundNumbers(defaults)
  BY SecondAssumption DEF SoundNumbers, defaults, Numbers
<1>7. SoundNumbers(c2)
  BY <1>5, <1>6, AppliedSound, Zenon
<1>8. SoundNumbers(c3)
  BY <1>3, <1>7 DEF SoundNumbers, @@
<1>9. SoundNumbers(c4)
  BY <1>5, <1>8, AppliedSound, Zenon
<1>10. PICK layers : layers = Layered(yaml, env, flags, profileKey)
  OBVIOUS
<1>11. layers = TrimSpace(c4)
  BY <1>1, <1>2, <1>3, <1>4, <1>10 DEF Layered
<1>12. SoundNumbers(layers)
  BY <1>9, <1>11, TrimFacts DEF SoundNumbers
<1>13. Keeps(m.cfg, layers)
  BY <1>10, MergeFacts
<1>14. "DialBackoffBase" \in Fields /\ "DialBackoffMax" \in Fields
  BY DEF Fields, Numbers
<1> QED
  BY <1>12, <1>13, <1>14 DEF Keeps, SoundNumbers

\* The numbers on the disk, in an init and in a connect.
DiskNumbers == \A name \in DOMAIN disk : IntNumbers(disk[name])
InitNumbers == init.pc \in {"writeYAML", "writeEnv"} => IntNumbers(init.existing)
ConnNumbers ==
    /\ conn.pc # "idle" => conn.s \in Settings /\ IntNumbers(conn.env)
    /\ Up => SoundNumbers(conn.cfg)
NumberInv == DiskNumbers /\ InitNumbers /\ ConnNumbers

\* Layers put together, and parts of a layer.
LEMMA IntNumbersKept ==
    ASSUME NEW a, NEW b, NEW fields, IntNumbers(a)
    PROVE  /\ IntNumbers(b) => IntNumbers(a @@ b)
           /\ IntNumbers(Only(a, fields)) /\ IntNumbers(Without(a, fields))
           /\ IntNumbers(TrimSpace(a))
<1>1. ASSUME IntNumbers(b) PROVE IntNumbers(a @@ b)
  BY <1>1 DEF IntNumbers, @@
<1>2. IntNumbers(Only(a, fields)) /\ IntNumbers(Without(a, fields)) /\ IntNumbers(Without(a, {"ControlURL"}))
  BY DEF IntNumbers, Only, Without
<1> QED
  BY <1>1, <1>2 DEF TrimSpace

\* Fields that are no numbers.
LEMMA NoNumbers ==
    ASSUME NEW a, DOMAIN a \cap Numbers = {}
    PROVE  IntNumbers(a)
  BY DEF IntNumbers

\* What the two commands read from the disk.
LEMMA NumbersRead ==
    ASSUME DiskNumbers, NEW explicit, IntNumbers(explicit)
    PROVE  IntNumbers(Values) /\ IntNumbers(Load(explicit)) /\ IntNumbers(LoadYAMLConfig)
<1>1. IntNumbers(File("env")) /\ IntNumbers(File("yaml"))
  BY DEF DiskNumbers, File, Empty, IntNumbers
<1>2. IntNumbers("ControlURL" :> "empty")
  BY DEF IntNumbers, :>, Numbers
<1>3. IntNumbers(Values)
  BY <1>1, <1>2, IntNumbersKept DEF Values
<1>4. IntNumbers(Values @@ explicit)
  BY <1>3, IntNumbersKept
<1>5. IntNumbers(Load(explicit))
  BY <1>4, IntNumbersKept DEF Load
<1>6. IntNumbers(LoadYAMLConfig)
  BY <1>1, IntNumbersKept DEF LoadYAMLConfig
<1> QED
  BY <1>3, <1>5, <1>6

\* What init writes: no number of its own.
LEMMA NumbersWritten ==
    ASSUME NEW f, NEW existing, IntNumbers(existing)
    PROVE  /\ IntNumbers(buildYAMLContent(f)) /\ IntNumbers(buildEnvConfigContent(f))
           /\ IntNumbers(buildEnvContent(f, existing))
<1>1. IntNumbers(buildEnvConfigContent(f))
  BY DEF buildEnvConfigContent, Only, IntNumbers, Numbers
<1>2. IntNumbers(Only(f, {"AuthKey", "Target", "ControlURL"}))
  BY DEF Only, IntNumbers, Numbers
<1>3. IntNumbers(buildEnvContent(f, existing))
  BY <1>2, IntNumbersKept DEF buildEnvContent
<1>4. PICK h : h = IF Sets(f, "Instance") THEN "Hostname" :> "tsb-" \o f["Instance"] ELSE Empty
  OBVIOUS
<1>5. IntNumbers(h)
  BY <1>4 DEF IntNumbers, :>, Empty, Numbers
<1>6. IntNumbers(Only(f, {"Target", "ControlURL", "PortRange"}))
  BY DEF Only, IntNumbers, Numbers
<1>7. buildYAMLContent(f) = Only(f, {"Target", "ControlURL", "PortRange"}) @@ h
  BY <1>4 DEF buildYAMLContent
<1>8. IntNumbers(buildYAMLContent(f))
  BY <1>5, <1>6, <1>7, IntNumbersKept
<1> QED
  BY <1>1, <1>3, <1>8

\* connect resolves to sound numbers.
LEMMA ResolvedSound ==
    ASSUME NEW offset, NEW r, r = Resolved(offset), r.refused = {},
           NumberInv, conn.pc = "loaded"
    PROVE  SoundNumbers(r.cfg)
<1>1. PICK s, file : s = conn.s /\ file = IF s.config THEN LoadYAMLConfig ELSE Empty
  OBVIOUS
<1>2. PICK profile, yaml : profile = Only(s.profile, profileFields) /\ yaml = file @@ profile
  OBVIOUS
<1>3. PICK profileKey :
        profileKey = IF usesManagedKey(s, conn.env) THEN "AuthKey" :> s.profile["Credential"] ELSE Empty
  OBVIOUS
<1>4. PICK m : m = Merge(yaml, conn.env, s.flags, profileKey, offset, Busy)
  OBVIOUS
<1>5. r.cfg = m.cfg /\ m.refused \subseteq r.refused
  BY <1>1, <1>2, <1>3, <1>4 DEF Resolved, applyConnectProfile
<1>6. DOMAIN profileKey \subseteq {"AuthKey"}
  BY <1>3 DEF :>, Empty
<1>7. IntNumbers(conn.env) /\ IntNumbers(s.flags) /\ DiskNumbers
  BY <1>1, NumbersAssumption DEF NumberInv, ConnNumbers
<1>8. IntNumbers(file)
  <2>1. IntNumbers(LoadYAMLConfig)
    BY <1>7, NumbersRead
  <2>2. IntNumbers(Empty)
    BY DEF IntNumbers, Empty
  <2> QED
    BY <1>1, <2>1, <2>2
<1>9. IntNumbers(profile)
  BY <1>2 DEF Only, profileFields, IntNumbers, Numbers
<1>10. IntNumbers(yaml)
  BY <1>2, <1>8, <1>9, IntNumbersKept
<1>11. m.refused = {}
  BY <1>5
<1> QED
  BY <1>4, <1>5, <1>6, <1>7, <1>10, <1>11, MergeSound

\* No step brings in anything else.
LEMMA NumberStep == NumberInv /\ PlaneInv /\ [Next]_vars => NumberInv'
<1> SUFFICES ASSUME NumberInv, PlaneInv, [Next]_vars PROVE NumberInv'
  OBVIOUS
<1>0. DiskNumbers /\ InitNumbers /\ ConnNumbers /\ InitPart
  BY DEF NumberInv, PlaneInv
<1>u. /\ UNCHANGED disk => DiskNumbers'
      /\ UNCHANGED init => InitNumbers'
      /\ UNCHANGED conn => ConnNumbers'
  BY <1>0 DEF DiskNumbers, InitNumbers, ConnNumbers, Up
<1>1. ASSUME NEW s \in Settings, ConnectLoad(s) PROVE NumberInv'
  <2>1. IntNumbers(Load(s.env))
    BY <1>0, NumbersRead, NumbersAssumption
  <2>2. conn'.pc = "loaded" /\ conn'.s = s /\ conn'.env = Load(s.env)
    BY <1>1 DEF ConnectLoad
  <2>3. ConnNumbers'
    BY <2>1, <2>2 DEF ConnNumbers, Up
  <2> QED
    BY <1>u, <1>1, <2>3 DEF ConnectLoad, NumberInv
<1>2. ASSUME NEW o \in Offsets, ConnectResolve(o) PROVE NumberInv'
  <2>1. PICK r : r = Resolved(o)
    OBVIOUS
  <2>2. /\ conn.pc = "loaded"
        /\ conn'.pc = IF r.refused = {} THEN "up" ELSE "refused"
        /\ conn'.s = conn.s /\ conn'.env = conn.env
        /\ conn'.cfg = IF r.refused = {} THEN r.cfg ELSE Empty
    BY <1>2, <2>1 DEF ConnectResolve
  <2>3. r.refused = {} => SoundNumbers(r.cfg)
    BY <2>1, <2>2, ResolvedSound
  <2>4. ConnNumbers'
    BY <1>0, <2>2, <2>3 DEF ConnNumbers, Up
  <2> QED
    BY <1>u, <1>2, <2>4 DEF ConnectResolve, NumberInv
<1>3. CASE ConnectEnds
  BY <1>u, <1>3 DEF ConnectEnds, NumberInv, ConnNumbers, Idle, Up
<1>4. ASSUME NEW in \in InitInputs, InitBegin(in) PROVE NumberInv'
  <2>1. init'.pc = "confirm"
    BY <1>4 DEF InitBegin
  <2> QED
    BY <1>u, <1>4, <2>1 DEF InitBegin, NumberInv, InitNumbers
<1>5. CASE InitConfirm
  <2>1. PICK r, x : r @@ x = init' /\ DOMAIN r = DOMAIN init /\ x = "existing" :> Values /\ init.pc = "confirm"
    BY <1>5 DEF InitConfirm
  <2>2. "existing" \notin DOMAIN r
    BY <1>0, <2>1 DEF InitPart
  <2>3. DOMAIN x = {"existing"} /\ x["existing"] = Values
    BY <2>1, FieldFacts
  <2>4. init'.existing = Values
    BY <2>1, <2>2, <2>3 DEF @@
  <2>5. IntNumbers(Values)
    <3>1. IntNumbers(Empty)
      BY DEF IntNumbers, Empty
    <3> QED
      BY <1>0, <3>1, NumbersRead
  <2>6. InitNumbers'
    BY <2>4, <2>5 DEF InitNumbers
  <2> QED
    BY <1>u, <1>5, <2>6 DEF InitConfirm, NumberInv
<1>6. CASE InitWritesYAML
  <2>1. /\ init.pc = "writeYAML" /\ init' = [init EXCEPT !.pc = "writeEnv"]
        /\ DOMAIN init = {"pc", "in", "f", "plane", "touched", "existing"}
    BY <1>0, <1>6 DEF InitWritesYAML, InitPart
  <2>2. init'.existing = init.existing /\ IntNumbers(init.existing)
    BY <1>0, <2>1 DEF InitNumbers
  <2>3. PICK c, y : /\ c = buildYAMLContent(init.f) /\ y = "yaml" :> c /\ disk' = y @@ disk
    BY <1>6 DEF InitWritesYAML
  <2>4. IntNumbers(c)
    BY <2>2, <2>3, NumbersWritten
  <2>5. DOMAIN y = {"yaml"} /\ y["yaml"] = c
    BY <2>3, FieldFacts
  <2>6. DiskNumbers'
    BY <1>0, <2>3, <2>4, <2>5 DEF DiskNumbers, @@
  <2>7. InitNumbers'
    BY <2>2 DEF InitNumbers
  <2> QED
    BY <1>u, <1>6, <2>6, <2>7 DEF InitWritesYAML, NumberInv
<1>7. CASE InitWritesEnv
  <2>1. IntNumbers(init.existing)
    BY <1>0, <1>7 DEF InitWritesEnv, InitNumbers
  <2>2. PICK c, y : /\ c = IF init.in.format = "yaml" THEN buildEnvContent(init.f, init.existing)
                           ELSE buildEnvConfigContent(init.f)
                    /\ y = "env" :> c /\ disk' = y @@ disk
    BY <1>7 DEF InitWritesEnv
  <2>3. IntNumbers(c)
    BY <2>1, <2>2, NumbersWritten
  <2>4. DOMAIN y = {"env"} /\ y["env"] = c
    BY <2>2, FieldFacts
  <2>5. DiskNumbers'
    BY <1>0, <2>2, <2>3, <2>4 DEF DiskNumbers, @@
  <2>6. InitNumbers'
    BY <1>7 DEF InitWritesEnv, InitNumbers, Idle
  <2> QED
    BY <1>u, <1>7, <2>5, <2>6 DEF InitWritesEnv, NumberInv
<1>8. CASE InitStops
  BY <1>u, <1>8 DEF InitStops, NumberInv, InitNumbers, Idle
<1>9. ASSUME NEW d \in Edits, Edit(d) PROVE NumberInv'
  <2>1. DiskNumbers'
    BY <1>9, NumbersAssumption DEF Edit, DiskNumbers
  <2>2. InitNumbers'
    <3>1. CASE init.pc \notin {"writeYAML", "writeEnv"}
      <4>1. CASE init.pc = "idle"
        BY <1>0, <1>9, <4>1 DEF Edit, InitNumbers
      <4>2. CASE init.pc # "idle"
        <5>1. "pc" \in DOMAIN init /\ init' = [init EXCEPT !.touched = TRUE]
          BY <1>0, <1>9, <4>2 DEF Edit, InitPart
        <5> QED
          BY <3>1, <5>1 DEF InitNumbers
      <4> QED
        BY <4>1, <4>2
    <3>2. CASE init.pc \in {"writeYAML", "writeEnv"}
      <4>1. /\ init' = [init EXCEPT !.touched = TRUE]
            /\ DOMAIN init = {"pc", "in", "f", "plane", "touched", "existing"}
        BY <1>0, <1>9, <3>2 DEF Edit, InitPart
      <4>2. init'.existing = init.existing
        BY <4>1
      <4> QED
        BY <1>0, <3>2, <4>2 DEF InitNumbers
    <3> QED
      BY <3>1, <3>2
  <2> QED
    BY <1>u, <1>9, <2>1, <2>2 DEF Edit, NumberInv
<1>10. CASE UNCHANGED vars
  BY <1>u, <1>10 DEF vars, NumberInv
<1> QED
  BY <1>1, <1>2, <1>3, <1>4, <1>5, <1>6, <1>7, <1>8, <1>9, <1>10 DEF Next

\* ReconnectDialer's waits: whatever base, ceiling and number of retries the layers
\* give, and however the shift overflows, none is longer than one and a half times
\* the ceiling; one is negative only where that length does not fit a Duration.
THEOREM WaitsAreBounded == Spec => []BackoffBounded
<1>1. Init => NumberInv
  BY DEF Init, NumberInv, DiskNumbers, InitNumbers, ConnNumbers, Up, Idle, Empty
<1>2. NumberInv => BackoffBounded
  <2> SUFFICES ASSUME NumberInv, Up, NEW attempt \in 0 .. conn.cfg["DialRetries"] - 1
               PROVE  \A wait \in computeBackoff(attempt, conn.cfg["DialBackoffBase"], conn.cfg["DialBackoffMax"]) :
                        LET longest == conn.cfg["DialBackoffMax"] + (conn.cfg["DialBackoffMax"] \div 2)
                        IN wait <= longest /\ (wait >= 0 \/ longest > MaxDuration)
    BY DEF BackoffBounded
  <2>1. conn.cfg["DialBackoffBase"] \in Int /\ conn.cfg["DialBackoffMax"] \in Nat
    BY DEF NumberInv, ConnNumbers, SoundNumbers
  <2>2. attempt \in Nat
    OBVIOUS
  <2>3. PICK longest : longest = conn.cfg["DialBackoffMax"] + (conn.cfg["DialBackoffMax"] \div 2)
    OBVIOUS
  <2> QED
    BY <2>1, <2>2, <2>3, WaitRange
<1> QED
  BY <1>1, <1>2, NumberStep, PlaneSafety, PTL DEF Spec

----------------------------------------------------------------------------
(***************************************************************************)
(* What connect makes of the files of an init.                             *)
(***************************************************************************)
\* What runInit has checked of its values f and of the control plane they make
\* effective.
Valid(f, plane) ==
    /\ {"AuthKey", "Target"} \subseteq DOMAIN f
    /\ ValidateKey(f["AuthKey"]) /\ validTarget(f["Target"])
    /\ ValidateControlPlane(f["AuthKey"], plane)
    /\ Sets(f, "PortRange") => f["PortRange"] \in Int \X Int /\ validPortRange(f["PortRange"])
    /\ Get(f, "Instance", "none") # ""
    /\ plane = Only(plane, {"ControlURL"})
    /\ Sets(f, "ControlURL") /\ ~Sets(plane, "ControlURL") => f["ControlURL"] = "blank"

\* What the environment of a connect holds that has loaded the .env of that init,
\* and nothing else.
EnvFrom(env, f, plane, format) ==
    /\ Has(env, f, "AuthKey") /\ Has(env, f, "Target")
    /\ Sets(plane, "ControlURL") => Agrees(env, plane)
    /\ ~Sets(plane, "ControlURL") => "ControlURL" \notin DOMAIN env
    /\ format # "yaml" =>
          /\ DOMAIN env \subseteq {"AuthKey", "Target", "Instance", "PortRange", "ControlURL"}
          /\ \A x \in {"Instance", "PortRange"} : x \in DOMAIN f => Has(env, f, x)

\* The configuration honours the init.
Honours(cfg, f, plane) ==
    Has(cfg, f, "AuthKey") /\ Has(cfg, f, "Target") /\ Only(cfg, {"ControlURL"}) = plane

\* The YAML file of that init, as connect reads it: a target, a name, and no other
\* control URL.
LEMMA YamlOfInit ==
    ASSUME NEW f, NEW file, file = TrimSpace(Only(buildYAMLContent(f), knownFields))
    PROVE  /\ DOMAIN file \subseteq {"Target", "ControlURL", "Hostname"}
           /\ "ControlURL" \in DOMAIN file =>
                 "ControlURL" \in DOMAIN f /\ file["ControlURL"] = f["ControlURL"] /\ f["ControlURL"] # "blank"
<1>1. PICK o, h : /\ o = Only(f, {"Target", "ControlURL", "PortRange"})
                  /\ h = IF Sets(f, "Instance") THEN "Hostname" :> "tsb-" \o f["Instance"] ELSE Empty
  OBVIOUS
<1>2. PICK b : b = buildYAMLContent(f) /\ b = o @@ h
  BY <1>1 DEF buildYAMLContent
<1>3. DOMAIN h \subseteq {"Hostname"} /\ "ControlURL" \notin DOMAIN h
  BY <1>1 DEF :>, Empty
<1>4. /\ DOMAIN o \subseteq {"Target", "ControlURL", "PortRange"} /\ ("ControlURL" \in DOMAIN o <=> "ControlURL" \in DOMAIN f)
      /\ "ControlURL" \in DOMAIN o => o["ControlURL"] = f["ControlURL"]
  BY <1>1 DEF Only
<1>5. /\ DOMAIN b \subseteq {"Target", "ControlURL", "PortRange", "Hostname"} /\ ("ControlURL" \in DOMAIN b <=> "ControlURL" \in DOMAIN f)
      /\ "ControlURL" \in DOMAIN b => b["ControlURL"] = f["ControlURL"]
  BY <1>2, <1>3, <1>4 DEF @@
<1>6. PICK k : k = Only(b, knownFields)
  OBVIOUS
<1>p. "PortRange" \notin knownFields
  BY DEF knownFields, Strings, Modes, Numbers
<1>7. /\ DOMAIN k \subseteq {"Target", "ControlURL", "Hostname"}
      /\ "ControlURL" \in DOMAIN k => "ControlURL" \in DOMAIN b
      /\ "ControlURL" \in DOMAIN k => k["ControlURL"] = b["ControlURL"]
  BY <1>5, <1>6, <1>p DEF Only
<1>8. file = TrimSpace(k)
  BY <1>2, <1>6
<1> QED
  BY <1>5, <1>7, <1>8, TrimFacts

\* What Merge derives honours the init when the layers do.
LEMMA KeepsHonours ==
    ASSUME NEW cfg, NEW layers, NEW f, NEW plane, Keeps(cfg, layers), Honours(layers, f, plane)
    PROVE  Honours(cfg, f, plane)
<1>1. "AuthKey" \in Fields /\ "Target" \in Fields /\ "ControlURL" \in Fields /\ "ControlURL" \in NeverDerived
  BY DEF Fields, Strings, Modes, NeverDerived
<1>2. Has(cfg, f, "AuthKey") /\ Has(cfg, f, "Target")
  BY <1>1 DEF Keeps, Honours, Has
<1>3. /\ "ControlURL" \in DOMAIN cfg <=> "ControlURL" \in DOMAIN layers
      /\ "ControlURL" \in DOMAIN layers => cfg["ControlURL"] = layers["ControlURL"]
  BY <1>1 DEF Keeps
<1>4. Only(cfg, {"ControlURL"}) = Only(layers, {"ControlURL"})
  BY <1>3, OnlyEqual
<1> QED
  BY <1>2, <1>4 DEF Honours

\* The layers of the connect that init's "Next step" names honour the init.
LEMMA LayersHonour ==
    ASSUME NEW f, NEW plane, NEW format, Valid(f, plane), NEW env, EnvFrom(env, f, plane, format),
           NEW yaml, "AuthKey" \notin DOMAIN yaml,
           "ControlURL" \in DOMAIN yaml =>
                "ControlURL" \in DOMAIN f /\ yaml["ControlURL"] = f["ControlURL"] /\ f["ControlURL"] # "blank",
           NEW layers, layers = Layered(yaml, env, Empty, Empty)
    PROVE  Honours(layers, f, plane)
<1>1. DOMAIN Empty = {}
  BY DEF Empty
<1>2. /\ \A x \in Strings \cup Numbers :
            x \in DOMAIN env \ DOMAIN Empty => Decides(layers, env, x)
      /\ "ControlURL" \notin DOMAIN Empty \cup DOMAIN env \cup DOMAIN yaml => "ControlURL" \notin DOMAIN layers
      /\ DOMAIN Empty \cap Modes = {} /\ DOMAIN env \cap Modes # {} => SameModes(layers, env)
  BY <1>1, LayeredFacts
<1>3. "AuthKey" \in Strings /\ "AuthKey" # "ControlURL" /\ "ControlURL" \in Strings /\ "Target" \in Modes
  BY DEF Strings, Modes
<1>4. Has(layers, f, "AuthKey")
  BY <1>1, <1>2, <1>3 DEF EnvFrom, Decides, Has
<1>5. Has(layers, f, "Target")
  BY <1>1, <1>2, <1>3 DEF EnvFrom, SameModes, Has
<1>6. Only(layers, {"ControlURL"}) = plane
  <2>1. CASE Sets(plane, "ControlURL")
    <3>1. Agrees(env, plane)
      BY <2>1 DEF EnvFrom
    <3>2. SameURL(layers, env)
      BY <1>1, <1>2, <1>3, <3>1 DEF Agrees, Decides
    <3>3. "ControlURL" \in DOMAIN layers /\ layers["ControlURL"] = env["ControlURL"]
      BY <3>1, <3>2 DEF SameURL, Agrees
    <3> QED
      BY <3>1, <3>3 DEF Agrees, Only, :>
  <2>2. CASE ~Sets(plane, "ControlURL")
    <3>1. "ControlURL" \notin DOMAIN env /\ "ControlURL" \notin DOMAIN yaml
      BY <2>2 DEF EnvFrom, Valid, Sets
    <3>2. "ControlURL" \notin DOMAIN layers /\ "ControlURL" \notin DOMAIN plane
      BY <1>1, <1>2, <2>2, <3>1 DEF Sets
    <3>3. Only(layers, {"ControlURL"}) = Only(plane, {"ControlURL"})
      BY <3>2, OnlyEqual
    <3> QED
      BY <3>3 DEF Valid
  <2> QED
    BY <2>1, <2>2
<1> QED
  BY <1>4, <1>5, <1>6 DEF Honours

\* Merge refuses nothing that init has checked.
LEMMA MergeAdmits ==
    ASSUME NEW yaml, NEW env, NEW flags, NEW profileKey, NEW offset, NEW busy, NEW m, NEW layers,
           m = Merge(yaml, env, flags, profileKey, offset, busy),
           layers = Layered(yaml, env, flags, profileKey),
           NEW f, NEW plane, Valid(f, plane), Honours(layers, f, plane), "AuthKey" \notin DOMAIN yaml
    PROVE  m.refused \cap {"target", "no mode", "key", "no key", "YAML key", "plane", "no file"} = {}
<1>1. PICK merged, auto :
        merged = normalizeBootstrapConfig(layers) /\ auto = resolveAutoInstance(yaml, env, flags)
  OBVIOUS
<1>2. PICK derives, badRange :
        /\ derives = LocalAddrDerived(auto, merged)
        /\ badRange = (derives /\ ~validPortRange(PortRange(env, flags)))
  OBVIOUS
<1>3. PICK cfg :
        cfg = IF badRange THEN merged
              ELSE Finished(applyAutoInstance(auto, merged, env, flags, offset, busy))
  OBVIOUS
<1>4. PICK fails : fails =
            [ r \in {"YAML key", "mode", "plane", "bootstrap", "retries", "idle", "ports", "collision"} |->
                CASE r = "YAML key"  -> Sets(yaml, "AuthKey")
                  [] r = "mode"      -> ModeConflict(yaml) \/ ModeConflict(env) \/ ModeConflict(flags)
                  [] r = "plane"     -> Sets(merged, "AuthKey") /\ ~ValidateControlPlane(merged["AuthKey"], merged)
                  [] r = "bootstrap" -> ~validateBootstrap(merged)
                  [] r = "retries"   -> ~validateDialRetries(env, merged)
                  [] r = "idle"      -> ~validateIdleTimeout(merged)
                  [] r = "ports"     -> badRange \/ (derives /\ cfg["LocalAddr"][2] = 0)
                  [] r = "collision" -> ~validateBootstrapListenerCollision(cfg) ]
  OBVIOUS
<1>5. m.refused = validateMergedProxyConfig(merged) \cup {r \in DOMAIN fails : fails[r]}
  BY <1>1, <1>2, <1>3, <1>4 DEF Merge
<1>6. Honours(merged, f, plane)
  <2>1. Keeps(merged, layers)
    BY <1>1, BootstrapKeeps, Zenon
  <2> QED
    BY <2>1, KeepsHonours, Zenon
<1>7. validateMergedProxyConfig(merged) \cap {"target", "no mode", "key", "no key"} = {}
  <2>1. "Target" \in DOMAIN merged /\ validTarget(merged["Target"]) /\ "Target" \in Modes
    BY <1>6 DEF Honours, Has, Valid, Modes
  <2>2. "AuthKey" \in DOMAIN merged /\ ValidateKey(merged["AuthKey"])
    BY <1>6 DEF Honours, Has, Valid
  <2> QED
    BY <2>1, <2>2 DEF validateMergedProxyConfig, Sets
<1>8. ValidateControlPlane(merged["AuthKey"], merged)
  <2>1. /\ "ControlURL" \in DOMAIN merged <=> "ControlURL" \in DOMAIN plane
        /\ "ControlURL" \in DOMAIN plane => merged["ControlURL"] = plane["ControlURL"]
    BY <1>6 DEF Honours, Only
  <2>2. merged["AuthKey"] = f["AuthKey"] /\ ValidateControlPlane(f["AuthKey"], plane)
    BY <1>6 DEF Honours, Has, Valid
  <2> QED
    BY <2>1, <2>2 DEF ValidateControlPlane, Sets, Get
<1>9. ~Sets(yaml, "AuthKey")
  BY DEF Sets
<1>10. validateMergedProxyConfig(merged) \cap {"YAML key", "plane", "no file"} = {}
  BY DEF validateMergedProxyConfig
<1>11. {r \in DOMAIN fails : fails[r]} \cap {"target", "no mode", "key", "no key", "no file"} = {}
  BY <1>4
<1>12. {r \in DOMAIN fails : fails[r]} \cap {"YAML key", "plane"} = {}
  BY <1>4, <1>8, <1>9
<1> QED
  BY <1>5, <1>7, <1>10, <1>11, <1>12

\* What a merge without flags and without a managed key is made of, when the YAML
\* file and the environment have no number and no route.
LEMMA PlainLayers ==
    ASSUME NEW yaml, NEW env, (DOMAIN yaml \cup DOMAIN env) \cap (Numbers \cup {"Routes"}) = {},
           NEW layers, layers = Layered(yaml, env, Empty, Empty)
    PROVE  /\ "Routes" \in DOMAIN layers /\ layers["Routes"] = {}
           /\ \A n \in Numbers : n \in DOMAIN layers /\ layers[n] = defaults[n]
<1>1. PICK c1, c2, c3, c4 :
        /\ c1 = applyYAML(defaults, yaml) /\ c2 = applyEnv(c1, env)
        /\ c3 = c2 @@ Empty /\ c4 = applyFlags(c3, Empty)
  OBVIOUS
<1>2. layers = TrimSpace(c4)
  BY <1>1 DEF Layered
<1>3. Applied(c1, yaml, defaults) /\ Applied(c2, env, c1) /\ Applied(c4, Empty, c3)
  BY <1>1, YAMLApplied, EnvApplied, FlagsApplied, Zenon
<1>4. DOMAIN Empty = {} /\ DOMAIN defaults = Numbers
  BY DEF Empty, defaults
<1>5. DOMAIN c3 = DOMAIN c2 /\ \A x \in DOMAIN c2 : c3[x] = c2[x]
  BY <1>1, <1>4 DEF @@
<1>6. \A n \in Numbers : n \in DOMAIN c4 /\ c4[n] = defaults[n]
  BY <1>3, <1>4, <1>5 DEF Applied
<1>7. "ControlURL" \notin Numbers
  BY DEF Numbers
<1>8. \A n \in Numbers : n \in DOMAIN layers /\ layers[n] = defaults[n]
  BY <1>2, <1>6, <1>7, TrimFacts
<1>9. "Routes" \notin DOMAIN c1
  <2>1. PICK numbers : numbers = {f \in DOMAIN yaml \cap Numbers : admitsYAML(f, yaml[f])}
    OBVIOUS
  <2>2. c1 = apply(yaml, numbers, defaults)
    BY <1>1, <2>1 DEF applyYAML
  <2>3. DOMAIN c1 = (DOMAIN yaml \cap (Strings \cup Modes \cup {"Routes"} \cup numbers)) \cup DOMAIN defaults
    <3>1. Takes(c1, yaml, DOMAIN yaml \cap (Strings \cup Modes \cup {"Routes"} \cup numbers), defaults)
      BY <2>2, ApplyFacts, Zenon
    <3> QED
      BY <3>1 DEF Takes
  <2> QED
    BY <1>4, <2>1, <2>3, KindsApart
<1>10. "Routes" \notin DOMAIN c2
  <2>1. PICK numbers, e, below :
          /\ numbers = {f \in DOMAIN env \cap Numbers : admitsEnv(f, env[f])}
          /\ e = Without(env, {"Routes"}) /\ below = applyProxyMode(env, c1)
    OBVIOUS
  <2>2. c2 = apply(e, numbers, below)
    BY <1>1, <2>1 DEF applyEnv
  <2>3. DOMAIN c2 = (DOMAIN e \cap (Strings \cup Modes \cup {"Routes"} \cup numbers)) \cup DOMAIN below
    <3>1. Takes(c2, e, DOMAIN e \cap (Strings \cup Modes \cup {"Routes"} \cup numbers), below)
      BY <2>2, ApplyFacts, Zenon
    <3> QED
      BY <3>1 DEF Takes
  <2>4. "Routes" \notin DOMAIN e
    BY <2>1 DEF Without
  <2>5. "Routes" \notin Modes
    BY KindsApart
  <2>6. "Routes" \notin DOMAIN below
    BY <1>9, <2>1, <2>5, ProxyModeFacts
  <2> QED
    BY <2>3, <2>4, <2>6
<1>11. "Routes" \in DOMAIN c4 /\ c4["Routes"] = {}
  <2>1. PICK routes, numbers, r, a :
          /\ routes = Get(Empty, "Routes", {}) \cup Get(c3, "Routes", {})
          /\ numbers = {f \in DOMAIN Empty \cap Numbers : admitsFlag(f, Empty[f])}
          /\ r = "Routes" :> routes /\ a = apply(Empty, numbers, applyProxyMode(Empty, c3))
    OBVIOUS
  <2>2. c4 = r @@ a
    BY <1>1, <2>1 DEF applyFlags
  <2>3. routes = {}
    BY <1>4, <1>5, <1>10, <2>1 DEF Get, Sets
  <2>4. DOMAIN r = {"Routes"} /\ r["Routes"] = routes
    BY <2>1, FieldFacts
  <2> QED
    BY <2>2, <2>3, <2>4 DEF @@
<1>12. "Routes" \in DOMAIN layers /\ layers["Routes"] = {}
  BY <1>2, <1>11, TrimFacts
<1> QED
  BY <1>8, <1>12

\* What auto mode and the defaults may add.
LEMMA AddedFields ==
    ASSUME NEW auto, NEW cfg, NEW env, NEW flags, NEW offset, NEW busy, NEW r,
           r = Finished(applyAutoInstance(auto, cfg, env, flags, offset, busy))
    PROVE  DOMAIN r \subseteq DOMAIN cfg \cup {"LocalAddr", "Hostname", "StateDir", "EphemeralState"}
<1>1. PICK instance, l, listening, h, named, st, t, e, a :
        /\ instance = Get(flags, "Instance", Get(env, "Instance", ""))
        /\ l = "LocalAddr" :> <<"127.0.0.1", selectAvailablePort(PortRange(env, flags), offset, busy)>>
        /\ listening = IF LocalAddrDerived(auto, cfg) THEN l @@ cfg ELSE cfg
        /\ h = "Hostname" :> deriveAutoHostname(instance)
        /\ named = IF auto /\ ~Sets(cfg, "Hostname") /\ instance # "" THEN h @@ listening ELSE listening
        /\ st = "StateDir" :> EphemeralStateDir(named["Hostname"])
        /\ t = "EphemeralState" :> TRUE /\ e = "EphemeralState" :> FALSE
        /\ a = applyAutoInstance(auto, cfg, env, flags, offset, busy)
  OBVIOUS
<1>2. a = IF auto /\ ~Sets(named, "StateDir") /\ Sets(named, "Hostname")
          THEN (st @@ t) @@ named ELSE e @@ named
  BY <1>1 DEF applyAutoInstance
<1>3. /\ DOMAIN l = {"LocalAddr"} /\ DOMAIN h = {"Hostname"} /\ DOMAIN st = {"StateDir"}
      /\ DOMAIN t = {"EphemeralState"} /\ DOMAIN e = {"EphemeralState"}
  BY <1>1 DEF :>
<1>5. DOMAIN listening \subseteq DOMAIN cfg \cup {"LocalAddr"}
  <2>1. DOMAIN (l @@ cfg) = {"LocalAddr"} \cup DOMAIN cfg
    BY <1>3 DEF @@
  <2>2. listening = l @@ cfg \/ listening = cfg
    BY <1>1, Zenon
  <2> QED
    BY <2>1, <2>2
<1>6. DOMAIN named \subseteq DOMAIN cfg \cup {"LocalAddr", "Hostname"}
  <2>1. DOMAIN (h @@ listening) = {"Hostname"} \cup DOMAIN listening
    BY <1>3 DEF @@
  <2>2. named = h @@ listening \/ named = listening
    BY <1>1, Zenon
  <2> QED
    BY <1>5, <2>1, <2>2
<1>7. DOMAIN a \subseteq DOMAIN cfg \cup {"LocalAddr", "Hostname", "StateDir", "EphemeralState"}
  <2>1. /\ DOMAIN ((st @@ t) @@ named) = {"StateDir", "EphemeralState"} \cup DOMAIN named
        /\ DOMAIN (e @@ named) = {"EphemeralState"} \cup DOMAIN named
    BY <1>3 DEF @@
  <2>2. a = (st @@ t) @@ named \/ a = e @@ named
    BY <1>2, Zenon
  <2> QED
    BY <1>6, <2>1, <2>2
<1>8. PICK d, n, p, tcp : /\ d = "LocalAddr" :> defaultLocalAddr /\ n = "Hostname" :> "ts-bridge"
                          /\ p = "StateDir" :> StateDirForPlatform
                          /\ tcp = IF Sets(a, "SOCKS5Addr") THEN a ELSE a @@ d
  OBVIOUS
<1>9. DOMAIN d = {"LocalAddr"} /\ DOMAIN n = {"Hostname"} /\ DOMAIN p = {"StateDir"}
  BY <1>8 DEF :>
<1>10. r = (tcp @@ n) @@ p
  BY <1>1, <1>8 DEF Finished
<1>11. DOMAIN tcp \subseteq DOMAIN a \cup {"LocalAddr"}
  <2>1. DOMAIN (a @@ d) = DOMAIN a \cup {"LocalAddr"}
    BY <1>9 DEF @@
  <2>2. tcp = a \/ tcp = a @@ d
    BY <1>8, Zenon
  <2> QED
    BY <2>1, <2>2
<1>12. DOMAIN r = DOMAIN tcp \cup {"Hostname", "StateDir"}
  BY <1>9, <1>10 DEF @@
<1> QED
  BY <1>7, <1>11, <1>12

\* Beside the YAML file of an init, TS_SOCKS5_ADDR and nothing else makes Merge refuse
\* the mode; an environment of init's own fields leaves it the ports to refuse.
LEMMA MergePlain ==
    ASSUME NEW yaml, DOMAIN yaml \subseteq {"Target", "ControlURL", "Hostname"},
           NEW env, "Target" \in DOMAIN env, NEW offset, NEW busy, NEW m,
           m = Merge(yaml, env, Empty, Empty, offset, busy)
    PROVE  /\ "mode" \in m.refused <=> "SOCKS5Addr" \in DOMAIN env
           /\ DOMAIN env \subseteq InitFields =>
                 /\ m.refused \cap {"mode", "socks", "routes", "bootstrap", "retries", "idle", "collision"} = {}
                 /\ ValidateHealthListener(m.cfg)
<1>1. PICK layers, merged, auto :
        /\ layers = Layered(yaml, env, Empty, Empty)
        /\ merged = normalizeBootstrapConfig(layers) /\ auto = resolveAutoInstance(yaml, env, Empty)
  OBVIOUS
<1>2. PICK derives, badRange :
        /\ derives = LocalAddrDerived(auto, merged)
        /\ badRange = (derives /\ ~validPortRange(PortRange(env, Empty)))
  OBVIOUS
<1>3. PICK finished, cfg :
        /\ finished = Finished(applyAutoInstance(auto, merged, env, Empty, offset, busy))
        /\ cfg = IF badRange THEN merged ELSE finished
  OBVIOUS
<1>4. PICK fails : fails =
            [ r \in {"YAML key", "mode", "plane", "bootstrap", "retries", "idle", "ports", "collision"} |->
                CASE r = "YAML key"  -> Sets(yaml, "AuthKey")
                  [] r = "mode"      -> ModeConflict(yaml) \/ ModeConflict(env) \/ ModeConflict(Empty)
                  [] r = "plane"     -> Sets(merged, "AuthKey") /\ ~ValidateControlPlane(merged["AuthKey"], merged)
                  [] r = "bootstrap" -> ~validateBootstrap(merged)
                  [] r = "retries"   -> ~validateDialRetries(env, merged)
                  [] r = "idle"      -> ~validateIdleTimeout(merged)
                  [] r = "ports"     -> badRange \/ (derives /\ cfg["LocalAddr"][2] = 0)
                  [] r = "collision" -> ~validateBootstrapListenerCollision(cfg) ]
  OBVIOUS
<1>5. /\ m.refused = validateMergedProxyConfig(merged) \cup {r \in DOMAIN fails : fails[r]}
      /\ m.cfg = cfg
  BY <1>1, <1>2, <1>3, <1>4 DEF Merge
<1>6. DOMAIN Empty = {}
  BY DEF Empty
<1>7. ModeConflict(yaml) \/ ModeConflict(env) \/ ModeConflict(Empty) <=> "SOCKS5Addr" \in DOMAIN env
  BY <1>6 DEF ModeConflict, Modes
<1>8. validateMergedProxyConfig(merged) \cap {"mode", "bootstrap", "retries", "idle", "collision"} = {}
  BY DEF validateMergedProxyConfig
<1>9. {r \in DOMAIN fails : fails[r]} \cap {"socks", "routes"} = {}
  BY <1>4
<1>10. "mode" \in {r \in DOMAIN fails : fails[r]} <=> "SOCKS5Addr" \in DOMAIN env
  BY <1>4, <1>7
<1>11. ASSUME DOMAIN env \subseteq InitFields
       PROVE  /\ m.refused \cap {"mode", "socks", "routes", "bootstrap", "retries", "idle", "collision"} = {}
              /\ ValidateHealthListener(cfg)
  <2>1. /\ (DOMAIN yaml \cup DOMAIN env) \cap (Numbers \cup {"Routes"}) = {}
        /\ DOMAIN Empty \subseteq {"AuthKey"}
    BY <1>6, <1>11 DEF InitFields, Numbers
  <2>2. /\ "Routes" \in DOMAIN layers /\ layers["Routes"] = {}
        /\ \A n \in Numbers : n \in DOMAIN layers /\ layers[n] = defaults[n]
    BY <1>1, <2>1, PlainLayers, Zenon
  <2>3. ASSUME NEW x \in {"BootstrapSSH", "BootstrapSOCKSAddr", "HealthAddr"}
        PROVE  x \notin DOMAIN layers
    <3>1. x \in Strings /\ x # "AuthKey" /\ x \notin DOMAIN Empty \cup DOMAIN env \cup DOMAIN yaml
      BY <1>6, <1>11, <2>3 DEF Strings, InitFields
    <3> QED
      BY <1>1, <2>1, <3>1, LayeredDomain, Zenon
  <2>4. merged = layers
    BY <1>1, <2>3 DEF normalizeBootstrapConfig, Sets
  <2>5. "SOCKS5Addr" \notin DOMAIN env
    BY <1>11 DEF InitFields
  <2>6. "SOCKS5Addr" \notin DOMAIN merged
    <3>1. DOMAIN Empty \cap Modes = {} /\ DOMAIN env \cap Modes # {} => SameModes(layers, env)
      BY <1>1, <2>1, LayeredFacts, Zenon
    <3>2. SameModes(layers, env)
      BY <1>6, <3>1 DEF Modes
    <3> QED
      BY <2>4, <2>5, <3>2 DEF SameModes, Modes
  <2>7. validateMergedProxyConfig(merged) \cap {"socks", "routes"} = {}
    BY <2>2, <2>4, <2>6 DEF validateMergedProxyConfig, Sets
  <2>8. validateBootstrap(merged)
    BY <2>3, <2>4 DEF validateBootstrap, Sets
  <2>9. validateDialRetries(env, merged) /\ validateIdleTimeout(merged)
    <3>1. "DialRetries" \notin DOMAIN env
      BY <1>11 DEF InitFields
    <3>2. defaults["DialRetries"] = 3 /\ defaults["IdleTimeout"] = 0
      BY DEF defaults, Numbers
    <3>3. merged["DialRetries"] = 3 /\ merged["IdleTimeout"] = 0
      BY <2>2, <2>4, <3>2 DEF Numbers
    <3> QED
      BY <3>1, <3>3 DEF validateDialRetries, validateIdleTimeout, Get, Sets
  <2>10. DOMAIN finished \subseteq DOMAIN merged \cup {"LocalAddr", "Hostname", "StateDir", "EphemeralState"}
    BY <1>3, AddedFields
  <2>11. "BootstrapSOCKSAddr" \notin DOMAIN cfg /\ "HealthAddr" \notin DOMAIN cfg
    BY <1>3, <2>3, <2>4, <2>10
  <2>12. validateBootstrapListenerCollision(cfg) /\ ValidateHealthListener(cfg)
    BY <2>11 DEF validateBootstrapListenerCollision, ValidateHealthListener, healthExposed, Sets
  <2>13. {r \in DOMAIN fails : fails[r]} \cap {"mode", "bootstrap", "retries", "idle", "collision"} = {}
    BY <1>4, <1>7, <2>5, <2>8, <2>9, <2>12
  <2> QED
    BY <1>5, <1>8, <1>9, <2>7, <2>12, <2>13
<1> QED
  BY <1>5, <1>8, <1>10, <1>11

\* The checks Merge makes, and the ones connect adds.
LEMMA MergeChecks ==
    ASSUME NEW yaml, NEW env, NEW flags, NEW profileKey, NEW offset, NEW busy
    PROVE  Merge(yaml, env, flags, profileKey, offset, busy).refused \subseteq
                {"target", "socks", "routes", "no mode", "no key", "key", "YAML key", "mode",
                 "plane", "bootstrap", "retries", "idle", "ports", "collision"}
  BY DEF Merge, validateMergedProxyConfig

\* A set of naturals that is not empty has a least element.
LEMMA LeastExists ==
    ASSUME NEW T, T \subseteq Nat, T # {}
    PROVE  \E i \in T : \A j \in Nat : j < i => j \notin T
<1>1. PICK R : R = OpToRel(<, Nat)
  OBVIOUS
<1>2. IsWellFoundedOn(R, Nat)
  BY <1>1, NatLessThanWellFounded
<1>3. PICK x \in T : \A y \in T : ~(<<y, x>> \in R)
  BY <1>2, WFMin
<1>4. \A a, b \in Nat : a < b => <<a, b>> \in R
  BY <1>1 DEF OpToRel
<1> QED
  BY <1>3, <1>4

\* The port selectAvailablePort finds is one of the range.
LEMMA PortInRange ==
    ASSUME NEW range \in Int \X Int, validPortRange(range), NEW offset \in Nat, NEW busy,
           NEW port, port = selectAvailablePort(range, offset, busy), port # 0
    PROVE  port \in range[1] .. range[2]
<1>1. PICK low, span : low = range[1] /\ span = range[2] - range[1] + 1
  OBVIOUS
<1>2. low \in Int /\ span \in Nat \ {0} /\ range[2] = low + span - 1
  BY <1>1 DEF validPortRange
<1>3. \A i \in 0 .. span - 1 : (offset + i) % span \in 0 .. span - 1
  <2> SUFFICES ASSUME NEW i \in 0 .. span - 1 PROVE (offset + i) % span \in 0 .. span - 1
    OBVIOUS
  <2>1. PICK n \in Nat : n = offset + i
    BY <1>2
  <2>2. n % span \in 0 .. span - 1
    BY <1>2
  <2> QED
    BY <2>1, <2>2
<1>4. PICK T : T = {i \in 0 .. span - 1 : low + ((offset + i) % span) \notin busy}
  OBVIOUS
<1>5. T # {}
  BY <1>1, <1>4 DEF selectAvailablePort
<1>6. T \subseteq Nat
  BY <1>2, <1>4
<1>7. PICK least \in T : \A j \in Nat : j < least => j \notin T
  BY <1>5, <1>6, LeastExists
<1>8. PICK found : found = CHOOSE i \in 0 .. span - 1 :
                        /\ low + ((offset + i) % span) \notin busy
                        /\ \A j \in 0 .. i - 1 : ~(low + ((offset + j) % span) \notin busy)
  OBVIOUS
<1>9. \A j \in 0 .. least - 1 : ~(low + ((offset + j) % span) \notin busy)
  <2> SUFFICES ASSUME NEW j \in 0 .. least - 1 PROVE low + ((offset + j) % span) \in busy
    OBVIOUS
  <2>1. least \in 0 .. span - 1
    BY <1>4, <1>7
  <2>2. j \in Nat /\ j < least /\ j \in 0 .. span - 1
    BY <1>2, <2>1
  <2> QED
    BY <1>4, <1>7, <2>2
<1>10. \E i \in 0 .. span - 1 :
          /\ low + ((offset + i) % span) \notin busy
          /\ \A j \in 0 .. i - 1 : ~(low + ((offset + j) % span) \notin busy)
  BY <1>4, <1>7, <1>9
<1>11. found \in 0 .. span - 1
  BY <1>8, <1>10, Zenon
<1>12. port = low + ((offset + found) % span)
  BY <1>1, <1>8 DEF selectAvailablePort
<1> QED
  BY <1>1, <1>2, <1>3, <1>11, <1>12

\* In the env format auto mode is on, and takes the range and the instance from
\* the .env.
LEMMA AutoHonours ==
    ASSUME NEW f, NEW plane, NEW format, format # "yaml", Valid(f, plane),
           NEW env, EnvFrom(env, f, plane, format), NEW yaml, DOMAIN yaml = {},
           NEW offset \in Nat, NEW busy,
           NEW m, m = Merge(yaml, env, Empty, Empty, offset, busy), m.refused = {}
    PROVE  /\ Sets(f, "PortRange") => m.cfg["LocalAddr"][2] \in f["PortRange"][1] .. f["PortRange"][2]
           /\ Sets(f, "Instance") => m.cfg["Hostname"] = deriveAutoHostname(f["Instance"])
<1>1. PICK layers, merged, auto, range, instance :
        /\ layers = Layered(yaml, env, Empty, Empty) /\ merged = normalizeBootstrapConfig(layers)
        /\ auto = resolveAutoInstance(yaml, env, Empty) /\ range = PortRange(env, Empty)
        /\ instance = Get(Empty, "Instance", Get(env, "Instance", ""))
  OBVIOUS
<1>2. Derived(m.cfg, merged, auto, range, offset, busy, instance)
  BY <1>1, MergeFacts, Zenon
<1>3. DOMAIN Empty = {} /\ DOMAIN env \subseteq {"AuthKey", "Target", "Instance", "PortRange", "ControlURL"}
  BY DEF Empty, EnvFrom
<1>4. \A x \in {"LocalAddr", "Hostname", "BootstrapSSH"} : x \notin DOMAIN layers
  <2>1. \A x \in {"LocalAddr", "Hostname", "BootstrapSSH"} :
            x \in Strings /\ x # "AuthKey" /\ x \notin DOMAIN Empty \cup DOMAIN env \cup DOMAIN yaml
    BY <1>3 DEF Strings
  <2> QED
    BY <1>1, <1>3, <2>1, LayeredDomain
<1>5. "SOCKS5Addr" \notin DOMAIN layers
  <2>1. DOMAIN Empty \cap Modes = {} /\ DOMAIN env \cap Modes # {}
    BY <1>3 DEF EnvFrom, Has, Modes
  <2>2. SameModes(layers, env)
    BY <1>1, <1>3, <2>1, LayeredFacts
  <2> QED
    BY <1>3, <2>2 DEF SameModes, Modes
<1>6. merged = layers
  BY <1>1, <1>4 DEF normalizeBootstrapConfig, Sets
<1>7. auto = TRUE
  BY <1>1, <1>3 DEF resolveAutoInstance, Get, Sets
<1>8. LocalAddrDerived(auto, merged) /\ ~Sets(merged, "Hostname")
  BY <1>4, <1>5, <1>6, <1>7 DEF LocalAddrDerived, Sets
<1>9. ASSUME Sets(f, "PortRange")
      PROVE  m.cfg["LocalAddr"][2] \in f["PortRange"][1] .. f["PortRange"][2]
  <2>1. range = f["PortRange"] /\ range \in Int \X Int
    BY <1>1, <1>3, <1>9 DEF EnvFrom, Has, PortRange, Get, Sets, Valid
  <2>2. PICK port : port = selectAvailablePort(range, offset, busy)
    OBVIOUS
  <2>3. validPortRange(range) /\ port # 0 /\ m.cfg["LocalAddr"][2] = port
    BY <1>2, <1>8, <2>2 DEF Derived
  <2>4. port \in range[1] .. range[2]
    BY <2>1, <2>2, <2>3, PortInRange
  <2> QED
    BY <2>1, <2>3, <2>4
<1>10. ASSUME Sets(f, "Instance")
       PROVE  m.cfg["Hostname"] = deriveAutoHostname(f["Instance"])
  <2>1. instance = f["Instance"] /\ instance # ""
    BY <1>1, <1>3, <1>10 DEF EnvFrom, Has, Get, Sets, Valid
  <2> QED
    BY <1>2, <1>7, <1>8, <2>1 DEF Derived
<1> QED
  BY <1>9, <1>10

----------------------------------------------------------------------------
(***************************************************************************)
(* The files of an init, and the connect that reads them.                  *)
(***************************************************************************)
\* The .env of an init given f, before it is loaded.
FileFrom(l, f, plane, format) ==
    /\ Has(l, f, "AuthKey") /\ Has(l, f, "Target")
    /\ Sets(plane, "ControlURL") => Agrees(l, plane)
    /\ ~Sets(plane, "ControlURL") /\ "ControlURL" \in DOMAIN l => l["ControlURL"] \in {"blank", "empty"}
    /\ format # "yaml" =>
          /\ DOMAIN l \subseteq {"AuthKey", "Target", "Instance", "PortRange", "ControlURL"}
          /\ \A x \in {"Instance", "PortRange"} : x \in DOMAIN f => Has(l, f, x)

\* init writes such a .env.
LEMMA WrittenFrom ==
    ASSUME NEW f, NEW format, NEW existing, existing = Values, NEW plane,
           plane = Trimmed(effectiveControlURL(f, format)), Valid(f, plane),
           NEW e, e = IF format = "yaml" THEN buildEnvContent(f, existing) ELSE buildEnvConfigContent(f)
    PROVE  FileFrom(e, f, plane, format)
<1>1. Sets(plane, "ControlURL") => Agrees(e, plane)
  BY WrittenAgrees
<1>2. "AuthKey" \in DOMAIN f /\ "Target" \in DOMAIN f
  BY DEF Valid
<1>3. PICK url : url = effectiveControlURL(f, format)
  OBVIOUS
<1>4. ASSUME ~Sets(plane, "ControlURL"), "ControlURL" \in DOMAIN url
      PROVE  url["ControlURL"] \in {"blank", "empty"}
  BY <1>3, <1>4 DEF Trimmed, Get, Sets
<1>5. CASE format = "yaml"
  <2>1. PICK o : o = Only(f, {"AuthKey", "Target", "ControlURL"}) /\ e = o @@ existing
    BY <1>5 DEF buildEnvContent
  <2>2. Has(o, f, "AuthKey") /\ Has(o, f, "Target")
    BY <1>2, <2>1 DEF Only, Has
  <2>3. Has(e, f, "AuthKey") /\ Has(e, f, "Target")
    BY <2>1, <2>2 DEF Has, @@
  <2>4. ASSUME "ControlURL" \in DOMAIN e
        PROVE  "ControlURL" \in DOMAIN url /\ url["ControlURL"] = e["ControlURL"]
    <3>1. CASE Sets(f, "ControlURL")
      <4>1. url = Only(f, {"ControlURL"})
        BY <1>3, <3>1 DEF effectiveControlURL
      <4>2. "ControlURL" \in DOMAIN o /\ o["ControlURL"] = f["ControlURL"]
        BY <2>1, <3>1 DEF Only, Sets
      <4>3. "ControlURL" \in DOMAIN url /\ url["ControlURL"] = f["ControlURL"]
        BY <3>1, <4>1 DEF Only, Sets
      <4>4. e["ControlURL"] = o["ControlURL"]
        BY <2>1, <4>2 DEF @@
      <4> QED
        BY <4>2, <4>3, <4>4
    <3>2. CASE ~Sets(f, "ControlURL")
      <4>1. url = Only(existing, {"ControlURL"})
        BY <1>3, <1>5, <3>2 DEF effectiveControlURL
      <4>2. "ControlURL" \notin DOMAIN o
        BY <2>1, <3>2 DEF Only, Sets
      <4>3. "ControlURL" \in DOMAIN existing /\ e["ControlURL"] = existing["ControlURL"]
        BY <2>1, <2>4, <4>2 DEF @@
      <4> QED
        BY <4>1, <4>3 DEF Only
    <3> QED
      BY <3>1, <3>2
  <2> QED
    BY <1>1, <1>4, <1>5, <2>3, <2>4 DEF FileFrom
<1>6. CASE format # "yaml"
  <2>1. e = Only(f, {"AuthKey", "Target", "Instance", "PortRange", "ControlURL"})
    BY <1>6 DEF buildEnvConfigContent
  <2>2. /\ DOMAIN e = DOMAIN f \cap {"AuthKey", "Target", "Instance", "PortRange", "ControlURL"}
        /\ \A x \in DOMAIN e : e[x] = f[x]
    BY <2>1 DEF Only
  <2>3. ASSUME "ControlURL" \in DOMAIN e
        PROVE  "ControlURL" \in DOMAIN url /\ url["ControlURL"] = e["ControlURL"]
    <3>1. url = Only(f, {"ControlURL"}) /\ "ControlURL" \in DOMAIN f
      BY <1>3, <2>2, <2>3 DEF effectiveControlURL, Sets
    <3> QED
      BY <2>2, <2>3, <3>1 DEF Only
  <2> QED
    BY <1>1, <1>2, <1>4, <2>2, <2>3 DEF FileFrom, Has
<1> QED
  BY <1>5, <1>6

\* And a connect with no variables of its own loads it.
LEMMA LoadFrom ==
    ASSUME NEW f, NEW plane, NEW format, FileFrom(File("env"), f, plane, format)
    PROVE  EnvFrom(Load(Empty), f, plane, format)
<1>1. PICK l, v, w, e : l = File("env") /\ v = Values /\ w = v @@ Empty /\ e = Load(Empty)
  OBVIOUS
<1>2. /\ DOMAIN v = DOMAIN l
      /\ \A x \in DOMAIN l : x # "ControlURL" => v[x] = l[x]
      /\ "ControlURL" \in DOMAIN l => v["ControlURL"] = IF l["ControlURL"] = "blank" THEN "empty" ELSE l["ControlURL"]
  <2>1. CASE Sets(l, "ControlURL") /\ l["ControlURL"] = "blank"
    <3>1. PICK x : x = "ControlURL" :> "empty" /\ v = x @@ l
      BY <1>1, <2>1 DEF Values, Get
    <3>2. DOMAIN x = {"ControlURL"} /\ x["ControlURL"] = "empty"
      BY <3>1, FieldFacts
    <3> QED
      BY <2>1, <3>1, <3>2 DEF @@, Sets
  <2>2. CASE ~(Sets(l, "ControlURL") /\ l["ControlURL"] = "blank")
    BY <1>1, <2>2 DEF Values, Get, Sets
  <2> QED
    BY <2>1, <2>2
<1>3. DOMAIN w = DOMAIN v /\ \A x \in DOMAIN v : w[x] = v[x]
  BY <1>1 DEF @@, Empty
<1>4. e = IF Get(w, "ControlURL", "saas") = "empty" THEN Without(w, {"ControlURL"}) ELSE w
  BY <1>1 DEF Load
<1>5. /\ \A x \in DOMAIN w : x # "ControlURL" => x \in DOMAIN e /\ e[x] = w[x]
      /\ "ControlURL" \in DOMAIN e <=> "ControlURL" \in DOMAIN w /\ w["ControlURL"] # "empty"
      /\ "ControlURL" \in DOMAIN e => e["ControlURL"] = w["ControlURL"]
      /\ DOMAIN e \subseteq DOMAIN w
  <2>1. CASE Sets(w, "ControlURL") /\ w["ControlURL"] = "empty"
    BY <1>4, <2>1 DEF Get, Sets, Without
  <2>2. CASE ~(Sets(w, "ControlURL") /\ w["ControlURL"] = "empty")
    <3>1. e = w
      BY <1>4, <2>2 DEF Get
    <3> QED
      BY <2>2, <3>1 DEF Sets
  <2> QED
    BY <2>1, <2>2
<1>6. \A x : x # "ControlURL" /\ Has(l, f, x) => Has(e, f, x)
  BY <1>2, <1>3, <1>5 DEF Has
<1>7. DOMAIN e \subseteq DOMAIN l
  BY <1>2, <1>3, <1>5
<1>8. Sets(plane, "ControlURL") => Agrees(e, plane)
  BY <1>1, LoadAgrees DEF FileFrom
<1>9. ~Sets(plane, "ControlURL") => "ControlURL" \notin DOMAIN e
  BY <1>1, <1>2, <1>3, <1>5 DEF FileFrom
<1>10. FileFrom(l, f, plane, format)
  BY <1>1
<1>11. EnvFrom(e, f, plane, format)
  BY <1>6, <1>7, <1>8, <1>9, <1>10 DEF FileFrom, EnvFrom
<1> QED
  BY <1>1, <1>11

\* What an init that runs has checked, and the YAML file it has left before .env.
InitValid ==
    init.pc # "idle" =>
        /\ Valid(init.f, init.plane)
        /\ init.pc = "writeEnv" /\ ~init.touched /\ init.in.format = "yaml" =>
              "yaml" \in DOMAIN disk /\ disk["yaml"] = buildYAMLContent(init.f)

\* What is on the disk of the init it is held to, and in the environment of a
\* connect that loaded it with no variables of its own.
GivenValid ==
    given # None =>
        /\ Valid(given.f, given.plane) /\ FileFrom(File("env"), given.f, given.plane, given.format)
        /\ given.whole /\ given.format = "yaml" =>
              "yaml" \in DOMAIN disk /\ disk["yaml"] = buildYAMLContent(given.f)
LoadedValid ==
    conn.pc # "idle" /\ conn.given # None /\ conn.s.env = Empty =>
        /\ Valid(conn.given.f, conn.given.plane)
        /\ EnvFrom(conn.env, conn.given.f, conn.given.plane, conn.given.format)

HonourInv == InitValid /\ GivenValid /\ LoadedValid /\ InitIsHonoured

\* runInit's validators, and the wizard's, check what Valid says.
LEMMA BeginValid ==
    ASSUME NEW in \in InitInputs, InitBegin(in)
    PROVE  /\ init'.pc = "confirm" /\ Valid(init'.f, init'.plane)
<1>1. PICK f, url, plane :
        /\ f = InitFlags(in) /\ url = effectiveControlURL(f, in.format) /\ plane = Trimmed(url)
        /\ {"AuthKey", "Target"} \subseteq DOMAIN f /\ ValidateKey(f["AuthKey"]) /\ validTarget(f["Target"])
        /\ Sets(f, "PortRange") => validPortRange(f["PortRange"])
        /\ ValidateControlPlane(f["AuthKey"], plane)
        /\ init' = [pc |-> "confirm", in |-> in, f |-> f, plane |-> plane, touched |-> FALSE]
  BY DEF InitBegin
<1>2. PICK a, b : a = in.answers /\ b = in.flags
  OBVIOUS
<1>3. /\ Get(a, "ControlURL", "saas") # "empty" /\ Get(a, "Instance", "none") # ""
      /\ Sets(a, "PortRange") => a["PortRange"] \in Int \X Int
      /\ Get(b, "ControlURL", "saas") # "empty" /\ Get(b, "Instance", "none") # ""
      /\ Sets(b, "PortRange") => b["PortRange"] \in Int \X Int
  BY <1>2, InputsAssumption
<1>4. /\ Sets(f, "PortRange") => f["PortRange"] \in Int \X Int
      /\ Get(f, "Instance", "none") # ""
      /\ Sets(f, "ControlURL") => f["ControlURL"] # "empty"
  <2>1. CASE ~Interactive(in)
    BY <1>1, <1>2, <1>3, <2>1 DEF InitFlags, Get, Sets
  <2>2. CASE Interactive(in)
    <3>1. PICK fields, c, d :
            /\ fields \in {{"AuthKey", "Target", "Instance"}, {"AuthKey", "Target", "Instance", "PortRange"}}
            /\ c = Only(a, fields) /\ d = Only(b, {"ControlURL", "PortRange"}) /\ f = c @@ d
      <4>1. PICK range : /\ range \in {{}, {"PortRange"}}
                         /\ f = Only(a, {"AuthKey", "Target", "Instance"} \cup range) @@ Only(b, {"ControlURL", "PortRange"})
        BY <1>1, <1>2, <2>2 DEF InitFlags, collectInteractiveInputs
      <4>2. {"AuthKey", "Target", "Instance"} \cup range \in
                {{"AuthKey", "Target", "Instance"}, {"AuthKey", "Target", "Instance", "PortRange"}}
        BY <4>1
      <4> QED
        BY <4>1, <4>2
    <3>2. /\ DOMAIN c \subseteq DOMAIN a /\ "ControlURL" \notin DOMAIN c /\ \A x \in DOMAIN c : c[x] = a[x]
      BY <3>1 DEF Only
    <3>3. /\ DOMAIN d \subseteq DOMAIN b /\ "Instance" \notin DOMAIN d /\ \A x \in DOMAIN d : d[x] = b[x]
      BY <3>1 DEF Only
    <3>4. /\ DOMAIN f = DOMAIN c \cup DOMAIN d /\ \A x \in DOMAIN c : f[x] = c[x]
          /\ \A x \in DOMAIN d \ DOMAIN c : f[x] = d[x]
      BY <3>1 DEF @@
    <3> QED
      BY <1>3, <3>2, <3>3, <3>4 DEF Get, Sets
  <2> QED
    BY <2>1, <2>2
<1>5. plane = Only(plane, {"ControlURL"})
  <2>1. \A l : Only(Only(l, {"ControlURL"}), {"ControlURL"}) = Only(l, {"ControlURL"})
    BY DEF Only
  <2>2. Only(Empty, {"ControlURL"}) = Empty
    BY DEF Only, Empty
  <2>3. url = Only(url, {"ControlURL"})
    <3>1. \/ url = Only(f, {"ControlURL"}) \/ url = Only(Values, {"ControlURL"}) \/ url = Empty
      BY <1>1 DEF effectiveControlURL
    <3> QED
      BY <2>1, <2>2, <3>1
  <2>4. plane = url \/ plane = Empty
    BY <1>1 DEF Trimmed
  <2> QED
    BY <2>2, <2>3, <2>4
<1>6. Sets(f, "ControlURL") /\ ~Sets(plane, "ControlURL") => f["ControlURL"] = "blank"
  <2> SUFFICES ASSUME Sets(f, "ControlURL"), ~Sets(plane, "ControlURL") PROVE f["ControlURL"] = "blank"
    OBVIOUS
  <2>1. url = Only(f, {"ControlURL"})
    BY <1>1 DEF effectiveControlURL
  <2>2. "ControlURL" \in DOMAIN url /\ url["ControlURL"] = f["ControlURL"]
    BY <2>1 DEF Only, Sets
  <2>3. url["ControlURL"] \in {"blank", "empty"}
    BY <1>1, <2>2 DEF Trimmed, Get, Sets
  <2> QED
    BY <1>4, <2>2, <2>3
<1>7. Valid(f, plane)
  BY <1>1, <1>4, <1>5, <1>6 DEF Valid
<1> QED
  BY <1>1, <1>7

\* What InitIsHonoured asks of a merge that resolves to cfg unless it is refused.
GoesThrough(refused, cfg, env, g) ==
    /\ refused \cap {"target", "no mode", "key", "no key", "YAML key", "plane", "no file"} = {}
    /\ "mode" \in refused <=> Sets(env, "SOCKS5Addr")
    /\ g.format = "env" \/ DOMAIN env \subseteq InitFields => refused \subseteq {"ports"}
    /\ refused = {} => Honours(cfg, g.f, g.plane)
    /\ refused = {} /\ g.format = "env" =>
          /\ Sets(g.f, "PortRange") => cfg["LocalAddr"][2] \in g.f["PortRange"][1] .. g.f["PortRange"][2]
          /\ Sets(g.f, "Instance") => cfg["Hostname"] = deriveAutoHostname(g.f["Instance"])

\* The connect that init's "Next step" names, as its merge resolves it.
LEMMA ResolvedHonours ==
    ASSUME NEW offset \in Offsets, NEW r, r = Resolved(offset), conn.pc = "loaded",
           NEW g, g = conn.given, g = given, g # None, g.whole, Plain(g), GivenValid, LoadedValid
    PROVE  GoesThrough(r.refused, r.cfg, conn.env, g)
<1>1. PICK s, file : s = conn.s /\ file = IF s.config THEN LoadYAMLConfig ELSE Empty
  OBVIOUS
<1>2. PICK f, plane, format, env : /\ f = g.f /\ plane = g.plane /\ format = g.format /\ env = conn.env
  OBVIOUS
<1>3. /\ s.env = Empty /\ s.flags = Empty /\ s.profile = Empty
      /\ s.config <=> format = "yaml"
  BY <1>1, <1>2 DEF Plain
<1>4. Valid(f, plane) /\ EnvFrom(env, f, plane, format)
  BY <1>1, <1>2, <1>3 DEF LoadedValid
<1>5. PICK profile, yaml : profile = Only(s.profile, profileFields) /\ yaml = file @@ profile
  OBVIOUS
<1>6. ~usesManagedKey(s, env)
  BY <1>3 DEF usesManagedKey, Sets, Empty
<1>7. PICK profileKey, m, layers :
        /\ profileKey = IF usesManagedKey(s, env) THEN "AuthKey" :> s.profile["Credential"] ELSE Empty
        /\ m = Merge(yaml, env, s.flags, profileKey, offset, Busy)
        /\ layers = Layered(yaml, env, s.flags, profileKey)
  OBVIOUS
<1>a. profileKey = Empty /\ s.flags = Empty
  BY <1>3, <1>6, <1>7
<1>8. PICK refused : refused =
            {x \in {"no file", "bound", "health"} :
                CASE x = "no file" -> s.config /\ "yaml" \notin DOMAIN disk
                  [] x = "bound"   -> usesManagedKey(s, env) /\ ~credentialIsBound(s, env, file)
                  [] x = "health"  -> m.refused = {} /\ ~ValidateHealthListener(m.cfg)}
  OBVIOUS
<1>9. r = [cfg |-> m.cfg, refused |-> m.refused \cup refused,
           managed |-> usesManagedKey(s, env), file |-> file]
  BY <1>1, <1>2, <1>5, <1>7, <1>8 DEF Resolved, applyConnectProfile
<1>10. DOMAIN yaml = DOMAIN file /\ \A x \in DOMAIN file : yaml[x] = file[x]
  <2>1. DOMAIN profile = {}
    BY <1>3, <1>5 DEF Only, Empty
  <2> QED
    BY <1>5, <2>1 DEF @@
<1>11. /\ DOMAIN file \subseteq {"Target", "ControlURL", "Hostname"}
       /\ "ControlURL" \in DOMAIN file =>
             "ControlURL" \in DOMAIN f /\ file["ControlURL"] = f["ControlURL"] /\ f["ControlURL"] # "blank"
       /\ "no file" \notin refused
       /\ format # "yaml" => DOMAIN file = {}
  <2>1. CASE format = "yaml"
    <3>1. "yaml" \in DOMAIN disk /\ disk["yaml"] = buildYAMLContent(f)
      BY <1>2, <2>1 DEF GivenValid
    <3>2. file = TrimSpace(Only(buildYAMLContent(f), knownFields))
      BY <1>1, <1>3, <2>1, <3>1 DEF LoadYAMLConfig, File
    <3>3. "no file" \notin refused
      BY <1>8, <3>1
    <3> QED
      BY <2>1, <3>2, <3>3, YamlOfInit
  <2>2. CASE format # "yaml"
    <3>1. file = Empty
      BY <1>1, <1>3, <2>2
    <3>2. "no file" \notin refused
      BY <1>3, <1>8, <2>2
    <3> QED
      BY <3>1, <3>2 DEF Empty
  <2> QED
    BY <2>1, <2>2
<1>k. /\ "AuthKey" \notin DOMAIN yaml
      /\ "ControlURL" \in DOMAIN yaml =>
             "ControlURL" \in DOMAIN f /\ yaml["ControlURL"] = f["ControlURL"] /\ f["ControlURL"] # "blank"
  <2>1. DOMAIN yaml \subseteq {"Target", "ControlURL", "Hostname"}
    BY <1>10, <1>11, Zenon
  <2>2. "AuthKey" \notin {"Target", "ControlURL", "Hostname"}
    OBVIOUS
  <2>3. "AuthKey" \notin DOMAIN yaml
    BY <2>1, <2>2, Zenon
  <2> QED
    BY <1>10, <1>11, <2>3, Zenon
<1>12. Honours(layers, f, plane)
  <2>1. layers = Layered(yaml, env, Empty, Empty)
    BY <1>7, <1>a
  <2> QED
    BY <1>4, <1>k, <2>1, LayersHonour, Zenon
<1>13. m.refused \cap {"target", "no mode", "key", "no key", "YAML key", "plane", "no file"} = {}
  BY <1>4, <1>7, <1>k, <1>12, MergeAdmits
<1>14. refused \subseteq {"no file", "bound", "health"}
  BY <1>8
<1>15. r.refused \cap {"target", "no mode", "key", "no key", "YAML key", "plane", "no file"} = {}
  <2>1. r.refused = m.refused \cup refused
    BY <1>9
  <2> QED
    BY <1>11, <1>13, <1>14, <2>1
<1>16. r.refused = {} => m.refused = {} /\ r.cfg = m.cfg
  BY <1>9
<1>17. ASSUME m.refused = {} PROVE Honours(m.cfg, f, plane)
  <2>1. Keeps(m.cfg, layers)
    BY <1>7, <1>17, MergeFacts, Zenon
  <2> QED
    BY <1>12, <2>1, KeepsHonours, Zenon
<1>18. ASSUME m.refused = {}, format = "env"
       PROVE  /\ Sets(f, "PortRange") => m.cfg["LocalAddr"][2] \in f["PortRange"][1] .. f["PortRange"][2]
              /\ Sets(f, "Instance") => m.cfg["Hostname"] = deriveAutoHostname(f["Instance"])
  <2>1. format # "yaml" /\ DOMAIN yaml = {} /\ offset \in Nat
    BY <1>10, <1>11, <1>18, NumbersAssumption
  <2> QED
    BY <1>4, <1>7, <1>a, <1>18, <2>1, AutoHonours
<1>19. /\ "mode" \in m.refused <=> "SOCKS5Addr" \in DOMAIN env
       /\ DOMAIN env \subseteq InitFields =>
             /\ m.refused \cap {"mode", "socks", "routes", "bootstrap", "retries", "idle", "collision"} = {}
             /\ ValidateHealthListener(m.cfg)
  <2>1. DOMAIN yaml \subseteq {"Target", "ControlURL", "Hostname"} /\ "Target" \in DOMAIN env
    BY <1>4, <1>10, <1>11 DEF EnvFrom, Has
  <2>2. m = Merge(yaml, env, Empty, Empty, offset, Busy)
    BY <1>7, <1>a
  <2> QED
    BY <2>1, <2>2, MergePlain
<1>r. r.refused = m.refused \cup refused
  BY <1>9
<1>20. "mode" \in r.refused <=> Sets(env, "SOCKS5Addr")
  BY <1>r, <1>14, <1>19 DEF Sets
<1>21. format = "env" => DOMAIN env \subseteq InitFields
  BY <1>4 DEF EnvFrom, InitFields
<1>22. ASSUME DOMAIN env \subseteq InitFields PROVE r.refused \subseteq {"ports"}
  <2>1. m.refused \subseteq {"target", "socks", "routes", "no mode", "no key", "key", "YAML key", "mode",
                            "plane", "bootstrap", "retries", "idle", "ports", "collision"}
    BY <1>7, MergeChecks
  <2>2. m.refused \subseteq {"ports"}
    BY <1>13, <1>19, <1>22, <2>1
  <2>3. "bound" \notin refused /\ "health" \notin refused
    BY <1>6, <1>8, <1>19, <1>22
  <2> QED
    BY <1>r, <1>11, <1>14, <2>2, <2>3
<1> QED
  BY <1>2, <1>15, <1>16, <1>17, <1>18, <1>20, <1>21, <1>22 DEF GoesThrough

\* No step of connect, of init or of a person disturbs it.
LEMMA HonourStep == HonourInv /\ PlaneInv /\ [Next]_vars => HonourInv'
<1> SUFFICES ASSUME HonourInv, PlaneInv, [Next]_vars PROVE HonourInv'
  OBVIOUS
<1>0. InitValid /\ GivenValid /\ LoadedValid /\ InitIsHonoured /\ InitPart /\ GivenPart
  BY DEF HonourInv, PlaneInv
<1>u. /\ UNCHANGED <<disk, init>> => InitValid'
      /\ UNCHANGED <<disk, given>> => GivenValid'
      /\ UNCHANGED conn => LoadedValid' /\ InitIsHonoured'
  BY <1>0 DEF InitValid, GivenValid, LoadedValid, InitIsHonoured, Plain, Up, File
<1>1. ASSUME NEW s \in Settings, ConnectLoad(s) PROVE HonourInv'
  <2>1. conn'.pc = "loaded" /\ conn'.s = s /\ conn'.env = Load(s.env) /\ conn'.given = given
    BY <1>1 DEF ConnectLoad
  <2>2. LoadedValid'
    <3> SUFFICES ASSUME given # None, s.env = Empty
                 PROVE  Valid(given.f, given.plane) /\ EnvFrom(Load(s.env), given.f, given.plane, given.format)
      BY <2>1 DEF LoadedValid
    <3> QED
      BY <1>0, LoadFrom DEF GivenValid
  <2>3. InitIsHonoured'
    BY <2>1 DEF InitIsHonoured
  <2> QED
    BY <1>u, <1>1, <2>2, <2>3 DEF ConnectLoad, HonourInv
<1>2. ASSUME NEW o \in Offsets, ConnectResolve(o) PROVE HonourInv'
  <2>1. PICK r, g : r = Resolved(o) /\ g = conn.given
    OBVIOUS
  <2>2. /\ conn.pc = "loaded"
        /\ conn'.pc = IF r.refused = {} THEN "up" ELSE "refused"
        /\ conn'.s = conn.s /\ conn'.env = conn.env /\ conn'.given = g
        /\ conn'.cfg = IF r.refused = {} THEN r.cfg ELSE Empty
        /\ conn'.refused = r.refused /\ conn'.undisturbed = (given = g)
    BY <1>2, <2>1 DEF ConnectResolve
  <2>3. LoadedValid'
    BY <1>0, <2>1, <2>2 DEF LoadedValid
  <2>4. InitIsHonoured'
    <3> SUFFICES ASSUME g # None, given = g, g.whole, Plain(g)'
                 PROVE  /\ r.refused \cap {"target", "no mode", "key", "no key", "YAML key", "plane", "no file"} = {}
                        /\ "mode" \in r.refused <=> Sets(conn.env, "SOCKS5Addr")
                        /\ g.format = "env" \/ DOMAIN conn.env \subseteq InitFields => r.refused \subseteq {"ports"}
                        /\ Up' => /\ conn'.cfg["AuthKey"] = g.f["AuthKey"]
                                  /\ conn'.cfg["Target"] = g.f["Target"]
                                  /\ Only(conn'.cfg, {"ControlURL"}) = g.plane
                        /\ (Up' /\ g.format = "env") =>
                              /\ Sets(g.f, "PortRange") =>
                                    conn'.cfg["LocalAddr"][2] \in g.f["PortRange"][1] .. g.f["PortRange"][2]
                              /\ Sets(g.f, "Instance") => conn'.cfg["Hostname"] = deriveAutoHostname(g.f["Instance"])
      BY <2>2 DEF InitIsHonoured
    <3>1. Plain(g)
      BY <2>2 DEF Plain
    <3>2. GoesThrough(r.refused, r.cfg, conn.env, g)
      BY <1>0, <2>1, <2>2, <3>1, ResolvedHonours, Zenon
    <3>3. Up' => r.refused = {} /\ conn'.cfg = r.cfg
      BY <2>2 DEF Up
    <3> QED
      BY <3>2, <3>3 DEF GoesThrough, Honours, Has
  <2> QED
    BY <1>u, <1>2, <2>3, <2>4 DEF ConnectResolve, HonourInv
<1>3. CASE ConnectEnds
  BY <1>u, <1>3 DEF ConnectEnds, HonourInv, LoadedValid, InitIsHonoured, Idle
<1>4. ASSUME NEW in \in InitInputs, InitBegin(in) PROVE HonourInv'
  <2>1. InitValid'
    BY <1>4, BeginValid DEF InitValid
  <2> QED
    BY <1>u, <1>4, <2>1 DEF InitBegin, HonourInv
<1>5. CASE InitConfirm
  <2>1. PICK r, x, yaml, pc : /\ yaml = (init.in.format = "yaml") /\ pc = IF yaml THEN "writeYAML" ELSE "writeEnv"
                              /\ r = [init EXCEPT !.pc = pc]
                              /\ x = "existing" :> Values /\ init' = r @@ x /\ init.pc = "confirm"
    BY <1>5 DEF InitConfirm
  <2>2. DOMAIN init = {"pc", "in", "f", "plane", "touched"}
    BY <1>0, <2>1 DEF InitPart
  <2>3. /\ DOMAIN r = DOMAIN init /\ r.pc = pc /\ r.in = init.in /\ r.f = init.f /\ r.plane = init.plane
    BY <2>1, <2>2
  <2>4. init'.pc = pc /\ init'.in = init.in /\ init'.f = init.f /\ init'.plane = init.plane
    BY <2>1, <2>2, <2>3 DEF @@
  <2>5. Valid(init.f, init.plane)
    BY <1>0, <2>1 DEF InitValid
  <2>6. InitValid'
    BY <2>1, <2>4, <2>5 DEF InitValid
  <2> QED
    BY <1>u, <1>5, <2>6 DEF InitConfirm, HonourInv
<1>6. CASE InitWritesYAML
  <2>1. /\ init.pc = "writeYAML" /\ init' = [init EXCEPT !.pc = "writeEnv"]
        /\ DOMAIN init = {"pc", "in", "f", "plane", "touched", "existing"}
    BY <1>0, <1>6 DEF InitWritesYAML, InitPart
  <2>2. init'.pc = "writeEnv" /\ init'.f = init.f /\ init'.plane = init.plane
    BY <2>1
  <2>3. PICK c, y : c = buildYAMLContent(init.f) /\ y = "yaml" :> c /\ disk' = y @@ disk
    BY <1>6 DEF InitWritesYAML
  <2>4. DOMAIN y = {"yaml"} /\ y["yaml"] = c
    BY <2>3, FieldFacts
  <2>5. /\ "yaml" \in DOMAIN disk' /\ disk'["yaml"] = c
        /\ "env" \in DOMAIN disk' <=> "env" \in DOMAIN disk
        /\ "env" \in DOMAIN disk => disk'["env"] = disk["env"]
    BY <2>3, <2>4 DEF @@
  <2>6. File("env")' = File("env")
    BY <2>5 DEF File
  <2>7. Valid(init.f, init.plane)
    BY <1>0, <2>1 DEF InitValid
  <2>8. InitValid'
    BY <2>2, <2>3, <2>5, <2>7 DEF InitValid
  <2>9. GivenValid'
    <3>1. CASE given = None
      BY <1>6, <3>1 DEF InitWritesYAML, GivenValid
    <3>2. CASE given # None
      <4>1. /\ given'.whole = FALSE /\ given'.f = given.f /\ given'.plane = given.plane
            /\ given'.format = given.format
        BY <1>0, <1>6, <3>2 DEF InitWritesYAML, GivenPart
      <4> QED
        BY <1>0, <2>6, <3>2, <4>1 DEF GivenValid
    <3> QED
      BY <3>1, <3>2
  <2> QED
    BY <1>u, <1>6, <2>8, <2>9 DEF InitWritesYAML, HonourInv
<1>7. CASE InitWritesEnv
  <2>1. InitValid'
    BY <1>7 DEF InitWritesEnv, InitValid, Idle
  <2>2. PICK e, y :
          /\ e = IF init.in.format = "yaml" THEN buildEnvContent(init.f, init.existing)
                 ELSE buildEnvConfigContent(init.f)
          /\ y = "env" :> e /\ disk' = y @@ disk
    BY <1>7 DEF InitWritesEnv
  <2>3. DOMAIN y = {"env"} /\ y["env"] = e
    BY <2>2, FieldFacts
  <2>4. /\ "env" \in DOMAIN disk' /\ disk'["env"] = e
        /\ "yaml" \in DOMAIN disk => "yaml" \in DOMAIN disk' /\ disk'["yaml"] = disk["yaml"]
    BY <2>2, <2>3 DEF @@
  <2>5. File("env")' = e
    BY <2>4 DEF File
  <2>6. GivenValid'
    <3>1. CASE init.touched
      BY <1>7, <3>1 DEF InitWritesEnv, GivenValid
    <3>2. CASE ~init.touched
      <4>1. /\ given'.f = init.f /\ given'.plane = init.plane /\ given'.format = init.in.format
        BY <1>7, <3>2 DEF InitWritesEnv
      <4>2. /\ init.plane = Trimmed(effectiveControlURL(init.f, init.in.format))
            /\ init.existing = Values
        BY <1>0, <1>7, <3>2 DEF InitWritesEnv, InitPart
      <4>3. /\ Valid(init.f, init.plane)
            /\ init.in.format = "yaml" => "yaml" \in DOMAIN disk /\ disk["yaml"] = buildYAMLContent(init.f)
        BY <1>0, <1>7, <3>2 DEF InitWritesEnv, InitValid
      <4>4. FileFrom(e, init.f, init.plane, init.in.format)
        BY <2>2, <4>2, <4>3, WrittenFrom
      <4> QED
        BY <2>4, <2>5, <4>1, <4>3, <4>4 DEF GivenValid
    <3> QED
      BY <3>1, <3>2
  <2> QED
    BY <1>u, <1>7, <2>1, <2>6 DEF InitWritesEnv, HonourInv
<1>8. CASE InitStops
  BY <1>u, <1>8 DEF InitStops, HonourInv, InitValid, Idle
<1>9. ASSUME NEW d \in Edits, Edit(d) PROVE HonourInv'
  <2>1. GivenValid'
    BY <1>9 DEF Edit, GivenValid
  <2>2. InitValid'
    <3>1. CASE init.pc = "idle"
      BY <1>9, <3>1 DEF Edit, InitValid
    <3>2. CASE init.pc # "idle"
      <4>1. init' = [init EXCEPT !.touched = TRUE]
        BY <1>9, <3>2 DEF Edit
      <4>2. {"pc", "f", "plane", "touched"} \subseteq DOMAIN init
        BY <1>0, <3>2 DEF InitPart
      <4>3. init'.touched /\ init'.f = init.f /\ init'.plane = init.plane
        BY <4>1, <4>2
      <4> QED
        BY <1>0, <3>2, <4>3 DEF InitValid
    <3> QED
      BY <3>1, <3>2
  <2> QED
    BY <1>u, <1>9, <2>1, <2>2 DEF Edit, HonourInv
<1>10. CASE UNCHANGED vars
  BY <1>u, <1>10 DEF vars, HonourInv
<1> QED
  BY <1>1, <1>2, <1>3, <1>4, <1>5, <1>6, <1>7, <1>8, <1>9, <1>10 DEF Next

\* ts-bridge init's promise: once it has finished, whatever inits were stopped before
\* it, the connect it points to is not refused for the key, the target or the control
\* plane and runs with those given, in the env format with the port range and the
\* instance too.  When .env holds init's own fields only, nothing but the want of a
\* free port refuses it; a preserved TS_SOCKS5_ADDR always does.
THEOREM FilesAreHonoured == Spec => []InitIsHonoured
<1>1. Init => HonourInv
  BY DEF Init, HonourInv, InitValid, GivenValid, LoadedValid, InitIsHonoured, Idle
<1>2. HonourInv => InitIsHonoured
  BY DEF HonourInv
<1> QED
  BY <1>1, <1>2, HonourStep, PlaneSafety, PTL DEF Spec
=============================================================================
