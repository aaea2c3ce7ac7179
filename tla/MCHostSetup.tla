---------------------------- MODULE MCHostSetup -----------------------------
(***************************************************************************)
(* The hosts HostSetup is checked on.  A Linux host deviates in its xrdp   *)
(* or in its firewall, a Windows host in one group of steps: the groups    *)
(* share no state.                                                         *)
(***************************************************************************)
EXTENDS HostSetup

XrdpHosts ==
    {[LinuxStock EXCEPT !.unit = u, !.active = a, !.ini = i, !.ipUp = t, !.cfg.declared = d] :
        u \in {"enabled", "disabled", "masked", "undecided", "missing", "noSystemctl"},
        a \in BOOLEAN, i \in Inis, t \in BOOLEAN, d \in {"undeclared"} \cup Ports}

InputRules ==
    {iptablesLegacy, Accept("port", "none"), iptablesAppend, Accept("port", "interface"),
     Accept("port", "address"), Accept("portNarrowed", "none"), Accept("every", "loopback"),
     Accept("unread", "tailnet"), Drop("every", "none"), Drop("port", "tailnet"),
     Drop("every", "interface"),
     Jump("tsInput"), Jump("tsInputQualified")}

TailnetChain == <<Accept("every", "tailnet")>>

IptablesHosts ==
    {[LinuxStock EXCEPT !.input = s, !.tsChain = c, !.unreached = u, !.policy = p] :
        s \in SeqOf(InputRules, 3), c \in {<<>>, TailnetChain}, u \in BOOLEAN, p \in {"DROP", "ACCEPT"}}

\* A jump goes to a chain that exists; what INPUT does not reach is not seen.
Sensible(h) ==
    LET jumps == \E i \in 1 .. Len(h.input) : h.input[i].target \in {"tsInput", "tsInputQualified"}
    IN /\ h.tsChain # <<>> => jumps
       /\ h.unreached => ~jumps
       /\ h.policy = "ACCEPT" => Len(h.input) = 2 /\ ~h.unreached

UfwRules == {ufwAllow, Drop("every", "none"), Drop("port", "address"), Accept("every", "loopback")}

UfwHosts ==
    {[LinuxStock EXCEPT !.ufw = a, !.ufwRules = r, !.hasIpt = i, !.tsChain = TailnetChain, !.input = s] :
        a \in {"active", "inactive", "broken"}, r \in SeqOf(UfwRules, 2), i \in BOOLEAN,
        s \in {<<>>, <<iptablesLegacy>>, <<Jump("tsInput")>>, <<Jump("tsInput"), Jump("ufw")>>,
               <<Jump("ufw")>>, <<Jump("ufw"), iptablesLegacy>>, <<Drop("every", "none")>>,
               <<iptablesLegacy, Jump("ufw")>>, <<Jump("ufw"), Drop("every", "none")>>,
               <<Jump("tsInputQualified"), Jump("ufw")>>}}

\* An active ufw is reached from INPUT; a chain iptables is not there to list is empty.
UfwJumps(h) ==
    /\ (\E i \in 1 .. Len(h.input) : h.input[i].target = "ufw") <=> h.ufw # "inactive"
    /\ ~h.hasIpt => Len(h.input) < 2

MCLinuxHosts ==
    XrdpHosts \cup {h \in IptablesHosts : Sensible(h)} \cup {h \in UfwHosts : UfwJumps(h)}
        \cup {[LinuxStock EXCEPT !.hasIpt = FALSE]}

MCServices == <<"Tailscale", "SSDPSRV">>
MCTimeouts == <<"standby", "monitor">>

MCWindowsHosts ==
    {[WindowsStock EXCEPT !.forced = f, !.auto = a, !.running = r, !.profile = p] :
        f \in BOOLEAN, a \in SUBSET ServiceSet, r \in SUBSET ServiceSet, p \in {"none", "public", "private"}}
    \cup
    {[WindowsStock EXCEPT !.cfg.declared = d, !.deny = [policy |-> p, local |-> l], !.regPort = g,
                          !.rule = r, !.rulePort = g2] :
        d \in {"undeclared"} \cup Ports, p \in {"absent", "0", "1"}, l \in {"absent", "0", "1"},
        g \in Ports, r \in {"none", "good", "differs"}, g2 \in Ports}
    \cup
    {[WindowsStock EXCEPT !.awake = a, !.cfg.noSleep = n] : a \in SUBSET TimeoutSet, n \in BOOLEAN}
=============================================================================
