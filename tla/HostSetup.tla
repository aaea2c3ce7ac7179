----------------------------- MODULE HostSetup ------------------------------
(***************************************************************************)
(* `ts-bridge host setup`, run again and again on one host, with commands  *)
(* that fail and runs that are killed (internal/host/step.go: setupFor).   *)
(* `host check` reads the same state and changes nothing, so it is a value *)
(* of the state: checkFor.                                                 *)
(***************************************************************************)
EXTENDS LinuxSetup, WindowsSetup

VARIABLE
    foreseen  \* history: what host check would have said when the run began, by step;
              \* <<>> once a command of the run has failed

CONSTANTS LinuxHosts, WindowsHosts  \* the hosts the first run may find, with their configuration

\* What a host may be is what the commands can answer.
ASSUME HostsAssumption ==
    /\ \A h \in LinuxHosts :
          /\ h.input \in Seq(Rule) /\ h.tsChain \in Seq(Rule) /\ h.ufwRules \in Seq(Rule)
          /\ \A i \in 1 .. Len(h.input) : h.input[i].own => h.input[i] = iptablesLegacy
          /\ h.cfg \in Configs
    /\ \A h \in WindowsHosts :
          /\ h.awake \subseteq TimeoutSet
          /\ h.deny \in [policy : {"absent", "0", "1"}, local : {"absent", "0", "1"}]

vars == <<runVars, linuxVars, windowsVars, foreseen>>

Init ==
    /\ RunInit /\ foreseen = <<>>
    /\ \/ /\ goos = "linux"
          /\ \E h \in LinuxHosts : LinuxInit(h) /\ cfg = h.cfg
          /\ WindowsInit(WindowsStock)
       \/ /\ goos = "windows"
          /\ \E h \in WindowsHosts : WindowsInit(h) /\ cfg = h.cfg
          /\ LinuxInit(LinuxStock)

\* The steps host check reports, with what it says of each.
checkFor ==
    IF goos = "linux"
    THEN [xrdp |-> xrdpCheckStep,
          xrdpPort |-> IF cfg.declared = "undeclared" THEN "none" ELSE xrdpPortRead,
          firewall |-> firewallCheckStep(readLinuxFirewall(TRUE)),
          ip |-> IF ipUp THEN "ok" ELSE "failed"]
    ELSE [rdp |-> rdpCheckStep,
          rule |-> windowsFirewallCheckStep,
          power |-> IF cfg.noSleep THEN "none" ELSE powerCheckStep]

FirstStep == IF goos = "windows" THEN "unattended" ELSE "xrdp"

setupFor ==
    \/ LinuxStep /\ UNCHANGED windowsVars
    \/ WindowsStep /\ UNCHANGED linuxVars

\* The check just before the run, as long as nothing disturbs the run.
Foresees ==
    foreseen' = IF pc = "off" THEN checkFor ELSE IF faults' = faults THEN foreseen ELSE <<>>

Next ==
    /\ \/ (Begin(FirstStep) \/ Finish \/ Killed) /\ UNCHANGED <<linuxVars, windowsVars>>
       \/ setupFor
    /\ Foresees

Spec == Init /\ [][Next]_vars

-----------------------------------------------------------------------------
(* What the properties are about. *)

\* A run of setup would change the host.
WouldAct ==
    IF goos = "linux"
    THEN \/ XrdpPlan = "enable"
         \/ cfg.declared # "undeclared" /\ xrdpPortRead = "changed"
         \/ FirewallActs(readLinuxFirewall(TRUE))
    ELSE \/ ~forced \/ ~(ServiceSet \subseteq auto \cap running)
         \/ ~silent /\ ( \/ profile = "public" \/ RDPPlan(deny) = "enableRDP"
                        \/ ~windowsFirewallRuleOK(regPort) )
         \/ ~cfg.noSleep /\ ~(TimeoutSet \subseteq awake)

\* Step s came out as the check foresaw.
AsForeseen(s) ==
    /\ foreseen[s] = "none" <=> outcome[s] = "none"
    /\ foreseen[s] = "ok" <=> outcome[s] = "ok"
    /\ outcome[s] = "changed" => foreseen[s] = "changed"
    /\ foreseen[s] = "changed" =>
          outcome[s] = "changed" \/ (s = "xrdpPort" /\ outcome[s] = "failed" /\ ~Startable)

\* The packets INPUT lets in, with ufw's rules where it is active.
Admitted ==
    LET met == Traversed(input, tsChain, IF ufw = "active" THEN ufwRules ELSE <<>>)
    IN {p \in Packets : Verdict(met, policy, p) = "ACCEPT"}

FromTailnet(packets) == {p \in packets : p.in = "tailnet"}

\* The rules of a chain that setup did not write, in their order.
Others(chain) == FlattenSeq([i \in 1 .. Len(chain) |-> IF chain[i].own THEN <<>> ELSE <<chain[i]>>])

RulesChange == <<input, ufwRules>>' # <<input, ufwRules>>

\* Every rule a packet may meet is one the walks see and evaluate whole.
Legible ==
    /\ \A chain \in {input, tsChain, ufwRules} : \A i \in 1 .. Len(chain) :
          chain[i].match \notin {"portNarrowed", "unread"}
    /\ ~hasIpt => \A i \in 1 .. Len(input) : input[i].target = "ufw"

\* No rule of INPUT or of ts-input denies the tailnet.
NoTailnetDeny ==
    \A p \in FromTailnet(Packets) :
        /\ \A i \in 1 .. Len(input) : Applies(input[i], p) => input[i].target # "DROP"
        /\ \A i \in 1 .. Len(tsChain) : Applies(tsChain[i], p) => tsChain[i].target = "ACCEPT"

-----------------------------------------------------------------------------

(* Invariant: host check foresees host setup (firewallCheckStep, xrdpCheckStep,
   rdpCheckStep, windowsFirewallCheckStep, powerCheckStep are code of their
   own).  When a run of setup in which no command failed has ended, it has
   reported the steps the check before it did: ok exactly where the check said
   ok, changed only where it said changed, and there always, except that the
   port of an xrdp whose unit cannot be started fails (xrdpPortSetupStep). *)
CheckForeseesSetup ==
    pc = "off" => \A s \in DOMAIN foreseen : AsForeseen(s)

(* Invariant: after a run in which every step was ok or changed, whatever was
   interrupted or failed in the runs before, another run changes nothing
   (setupLinux: "a second run on a converged host changes nothing"); on Windows
   it may have to set again what a script that exited 0 did not set. *)
SecondRunIsQuiet == Converged => ~WouldAct

(* Invariant: what such a run leaves behind.  On Linux the service is on,
   xrdp.ini names the declared port, xrdp listens there if this run restarted it
   (an ok says nothing about that: XrdpListensWhereItSays), and none of setup's
   old unscoped rules is left; on Windows the services run, sleep is off and,
   unless a script failed without saying so (runPS), Remote Desktop is allowed
   and the one rule names the port the registry listens on. *)
ConvergedMeansDeclared ==
    Converged =>
        IF goos = "linux"
        THEN /\ unit = "enabled" /\ active /\ ipUp
             /\ cfg.declared # "undeclared" => IniPort = cfg.declared
             /\ outcome["xrdpPort"] = "changed" => listens = cfg.declared
             /\ iptLegacyCopies(input) = 0 \/ ufw # "absent"
        ELSE /\ forced /\ ServiceSet \subseteq auto \cap running
             /\ cfg.noSleep \/ TimeoutSet \subseteq awake
             /\ ~silent => /\ profile = "private" /\ ~Denied(deny)
                           /\ rule = "good" /\ rulePort = regPort
                           /\ cfg.declared \in {"undeclared", regPort}

(* Invariant, violated: when a converged run says ok of the xrdp port, xrdp
   listens on it (xrdp_port.go:109: "xrdp listens on TCP %d"). *)
XrdpListensWhereItSays ==
    Converged /\ outcome["xrdpPort"] = "ok" => listens = cfg.declared

(* Action property: what setup opens.  On an iptables host only packets from
   the tailnet are let in that were not before.  On a ufw host setup's one rule,
   an unscoped ufw allow (firewallSetupStep), opens the port on every
   interface, but only when nothing let the tailnet in (readUFW, #530), where
   INPUT drops what no rule settles. *)
OpensWhatIsClosed ==
    [][ RulesChange =>
          \A p \in Admitted' \ Admitted :
            \/ p.in = "tailnet"
            \/ ufw # "absent" /\ (Legible /\ policy = "DROP" => FromTailnet(Admitted) = {}) ]_vars

(* Action property: a tailnet connection the firewall lets in is let in after
   every step too, as long as no deny for the tailnet stands in INPUT
   (iptLegacySetupStep adds the scoped rule before it deletes the copies, and
   keeps them if that fails). *)
KeepsTailnetOpen ==
    [][ RulesChange /\ Legible /\ NoTailnetDeny
          => FromTailnet(Admitted) \subseteq Admitted' ]_vars

(* Action property: the rules setup did not write stay, in their order; what
   it adds goes to the end (iptLegacySetupStep, firewallBlockedStep). *)
OperatorRulesStay ==
    [][ RulesChange =>
          IsPrefix(Others(input), Others(input')) /\ IsPrefix(ufwRules, ufwRules') ]_vars

(* Action property, violated: replacing the legacy rule never closes the port
   to the tailnet, where every deny is for all traffic (linux_steps.go:820:
   "The scoped rule goes in first, so the port is never closed in between"). *)
ReplacingNeverCloses ==
    [][ /\ RulesChange /\ Legible
        /\ \A i \in 1 .. Len(input) : input[i].target = "DROP" => input[i].scope = "none"
        => FromTailnet(Admitted) \subseteq Admitted' ]_vars

(* Types: what the runs, the steps and the hosts range over (SetupStep, host.Config). *)
TypeOK ==
    /\ goos \in {"linux", "windows"} /\ cfg \in Configs
    /\ outcome \in [StepNames -> Outcomes \cup {"none"}]
    /\ exit \in {"none", "ok", "failed", "killed"}
    /\ runs \in 0 .. MaxRuns /\ faults \in 0 .. MaxFaults
    /\ ini \in Inis /\ listens \in Inis \cup {"nowhere"} /\ active \in BOOLEAN
    /\ \A i \in 1 .. Len(input) : input[i] \in Rule
    /\ left \in Nat /\ rdpPort \in Ports /\ silent \in BOOLEAN
=============================================================================
