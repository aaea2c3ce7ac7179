--------------------------- MODULE MCConfigFiles ----------------------------
(***************************************************************************)
(* The layers ConfigFiles is checked with: every pair of layers that meet  *)
(* on a field, and the values each check of Merge turns on.                *)
(***************************************************************************)
EXTENDS ConfigFiles

Key(kind, n) == "AuthKey" :> <<kind, n>>
To(host) == "Target" :> <<host, 3389>>
Via(url) == "ControlURL" :> url

In(flags, answers, format, force, tty) ==
    [flags |-> flags, answers |-> answers, format |-> format, force |-> force, tty |-> tty]

MCInitInputs ==
    {In(f @@ To("a"), Empty, fmt, TRUE, FALSE) :
        f \in {Key("ts", 1), Key("ts", 1) @@ Via("planeA"), Key("hs", 1), Key("hs", 1) @@ Via("planeB"),
               Key("ts", 1) @@ Via("bad"), Key("bad", 1)},
        fmt \in {"yaml", "env"}}
    \cup
    {In(Key("ts", 2) @@ To("b") @@ "Instance" :> "desk" @@ "PortRange" :> r, Empty, "env", FALSE, FALSE) :
        r \in {<<4000, 4000>>, <<4000, 4001>>, <<4001, 4000>>}}
    \cup
    {In(asked[1], Key("hs", 2) @@ To("b") @@ asked[2], "yaml", FALSE, TRUE) :
        asked \in {<<Via("blank"), "Instance" :> "desk">>, <<Via("planeA"), "PortRange" :> <<4001, 4001>>>>,
                   <<Key("ts", 1), "Instance" :> "desk">>}}

Env(l) == "env" :> l
Yaml(l) == "yaml" :> l

MCEdits ==
    {Empty,
     Env(Key("ts", 3) @@ To("c")),
     Env(Key("ts", 3) @@ "SOCKS5Addr" :> <<"127.0.0.1", 1080>>),
     Env(Key("ts", 3) @@ Via("planeB") @@ "BootstrapSSH" :> "gate" @@ "StateDir" :> "mine"),
     Yaml(To("c") @@ "StateDir" :> "mine" @@ "Hostname" :> "h" @@ "DialRetries" :> 9
            @@ "DialBackoffBase" :> 9 * Second + 1),
     Yaml("SOCKS5Addr" :> <<"localhost", 1080>> @@ "Routes" :> {"r"} @@ Via("planeB")
            @@ "AutoInstance" :> FALSE),
     Yaml(Key("ts", 3) @@ To("c")),
     Yaml(Via("planeA") @@ "LocalAddr" :> <<"127.0.0.1", 1055>> @@ "IdleTimeout" :> 2)
        @@ Env(Via("blank") @@ Key("hs", 3))}

Envs ==
    {Empty, Key("ts", 4) @@ Via("planeB"), Via("planeB"), Via("blank"),
     "SOCKS5Addr" :> <<"127.0.0.1", 1090>> @@ "StateDir" :> "theirs",
     To("d") @@ "ManualMode" :> TRUE @@ "HealthAddr" :> <<"0.0.0.0", 9090>>,
     "DialRetries" :> 6 @@ "DialBackoffBase" :> 20 * Second @@ "DialBackoffMax" :> 0,
     "DialRetries" :> 3 @@ "DialBackoffBase" :> 88 * Second @@ "DialBackoffMax" :> 90 * Second,
     "DialRetries" :> -1, "Instance" :> "n" @@ "PortRange" :> <<4000, 4000>>}

Flags ==
    {Empty, Key("hs", 5), Key("ts", 5) @@ To("e"), Via("planeA"), Via("blank") @@ Key("ts", 5),
     "SOCKS5Addr" :> <<"0.0.0.0", 1080>>, "SOCKS5Addr" :> <<"localhost", 1055>> @@ "DialRetries" :> 0,
     "StateDir" :> "flagged" @@ "HealthAllowRemote" :> TRUE @@ "IdleTimeout" :> -1,
     "DialRetries" :> 9 @@ "DialBackoffMax" :> 40 * Second @@ "Hostname" :> "f"
        @@ "BootstrapSOCKSAddr" :> <<"127.0.0.1", 1056>>}

Profiles ==
    {To("p") @@ "Credential" :> <<"ts", 6>>,
     To("p") @@ Via("blank") @@ "Credential" :> <<"ts", 6>>,
     To("p") @@ Via("planeB") @@ "Credential" :> <<"ts", 7>>,
     To("p") @@ Via("planeA") @@ "Credential" :> <<"hs", 6>> @@ "BootstrapSSH" :> "gate",
     To("p") @@ Via("planeB") @@ "StateDir" :> "kept" @@ "HealthAddr" :> <<"127.0.0.1", 9090>>}

Start(env, flags, profile, config) ==
    [env |-> env, flags |-> flags, profile |-> profile, config |-> config]

Rich == {Start(e, f, Empty, c) : e \in Envs, f \in Flags, c \in BOOLEAN}

MCSettings ==
    {s \in Rich : s.env \in {Empty, Via("planeB")} \/ s.flags \in {Empty, Key("ts", 5) @@ To("e")}}
    \cup {Start(e, f, p, c) : e \in {Empty, Via("planeB"), Via("blank")},
                              f \in {Empty, Via("planeA")}, p \in Profiles, c \in BOOLEAN}

MCWithInit ==
    {Start(Empty, Empty, Empty, c) : c \in BOOLEAN}
    \cup {Start(Empty, Key("ts", 5) @@ To("e"), Empty, TRUE),
          Start(Key("ts", 4) @@ Via("planeB"), Empty, Empty, FALSE)}
    \cup {Start(Empty, Empty, p, TRUE) :
              p \in {q \in Profiles : Get(q, "ControlURL", "blank") # "blank" /\ Sets(q, "Credential")}}

MCBusy == {4000}
=============================================================================
