---------------------------- MODULE WindowsSetup ----------------------------
(***************************************************************************)
(* `host setup` and `host check` on Windows (internal/host/                *)
(* windows_steps.go).  The registry, the service manager, the network      *)
(* profiles, Windows Defender Firewall, powercfg and Tailscale's CLI are   *)
(* the environment.                                                        *)
(***************************************************************************)
EXTENDS SetupRun, Sequences

CONSTANTS
    Services,  \* the services setup starts, in order
    Timeouts   \* the AC timeouts setup sets to 0, in order

ASSUME WindowsLists ==
    /\ Services \in Seq(STRING) /\ Len(Services) > 0
    /\ Timeouts \in Seq(STRING)

VARIABLES
    forced,    \* the ForceDaemon pref: unattended mode
    auto,      \* the services that start automatically
    running,   \* the services that run
    profile,   \* the Tailscale adapters: "none", "public", "private"
    deny,      \* fDenyTSConnections: policy and local, each "absent", "0" or "1"
    regPort,   \* PortNumber in the registry
    rule,      \* the rules by setup's name: "none", "good", "differs"
    rulePort,  \* the port of a good rule
    awake,     \* the AC timeouts that are 0
    at,        \* the service or the timeout the running step is at
    rdpPort,   \* the port the run took from the registry, or assumed
    silent     \* a PowerShell script of this run failed in part and exited 0

hostVars == <<forced, auto, running, profile, deny, regPort, rule, rulePort, awake>>
windowsVars == <<hostVars, at, rdpPort, silent>>

ServiceSet == {Services[i] : i \in 1 .. Len(Services)}
TimeoutSet == {Timeouts[i] : i \in 1 .. Len(Timeouts)}

-----------------------------------------------------------------------------
(* A Windows host h, before the first run. *)

WindowsInit(h) ==
    /\ forced = h.forced /\ auto = h.auto /\ running = h.running /\ profile = h.profile
    /\ deny = h.deny /\ regPort = h.regPort /\ rule = h.rule /\ rulePort = h.rulePort
    /\ awake = h.awake
    /\ at = 1 /\ rdpPort = "default" /\ silent = FALSE

\* A host that needs nothing.
WindowsStock ==
    [cfg |-> [declared |-> "undeclared", noSleep |-> FALSE],
     forced |-> TRUE, auto |-> ServiceSet, running |-> ServiceSet, profile |-> "private",
     deny |-> [policy |-> "absent", local |-> "0"],
     regPort |-> "default", rule |-> "good", rulePort |-> "default", awake |-> TimeoutSet]

-----------------------------------------------------------------------------
(* The reads. *)

\* The policy decides when it is set; with neither value Windows denies.
ByPolicy(d) == d.policy # "absent"
Denied(d) == IF ByPolicy(d) THEN d.policy # "0" ELSE d.local # "0"

\* d is the denial as the script printed it.
RDPPlan(d) ==
    IF Denied(d) /\ ByPolicy(d) THEN "manual" ELSE IF Denied(d) THEN "enableRDP" ELSE "ok"

\* A converged listener on another port than the declared one is left to the operator.
declaredRDPPort(o, port) ==
    IF cfg.declared # "undeclared" /\ port # cfg.declared /\ Succeeded(o) THEN "manual" ELSE o

rdpCheckStep ==
    LET denied == Denied(deny)
    IN declaredRDPPort(
           IF denied /\ ByPolicy(deny) THEN "manual" ELSE IF denied THEN "changed" ELSE "ok", regPort)

\* port is the one setup or check read; the rule has to name it.
windowsFirewallRuleOK(port) == rule = "good" /\ rulePort = port

windowsFirewallCheckStep == IF windowsFirewallRuleOK(regPort) THEN "ok" ELSE "changed"
powerCheckStep == IF awake = TimeoutSet THEN "ok" ELSE "changed"

\* What a step that reports once for several items says after one more of them.
Worst(s, o) ==
    CASE "failed" \in {outcome[s], o} -> "failed"
      [] "failed" \notin {outcome[s], o} /\ "changed" \in {outcome[s], o} -> "changed"
      [] OTHER -> "ok"

-----------------------------------------------------------------------------
(* The steps.  A read that fails makes a step act, or fail where it says so.  *)
(* A PowerShell script exits with the status of its last command: an earlier  *)
(* one that fails, or a read that prints nothing, is taken for a success.     *)

Unattended ==
    /\ pc = "unattended"
    /\ \/ forced /\ Report("unattended", "ok", "service") /\ Works /\ UNCHANGED forced
       \/ /\ forced' = TRUE /\ Report("unattended", "changed", "service")
          /\ \/ ~forced /\ Works
             \/ forced /\ Breaks  \* the prefs could not be read
       \/ Report("unattended", "failed", "service") /\ Breaks /\ UNCHANGED forced
    /\ at' = 1 /\ silent' = FALSE
    /\ UNCHANGED <<auto, running, profile, deny, regPort, rule, rulePort, awake, rdpPort>>

\* The service at hand is done; the list goes on with the next one.
ServiceReports(o) ==
    /\ Report("services", Worst("services", o), IF at < Len(Services) THEN "service" ELSE "profile")
    /\ at' = at + 1

\* serviceStep: sc qc and sc query, before either command runs; one that fails reads as "no".
ServiceReads ==
    /\ pc = "service"
    /\ \E isAuto \in {Services[at] \in auto, FALSE}, isRunning \in {Services[at] \in running, FALSE} :
          /\ IF isAuto /\ isRunning
             THEN ServiceReports("ok")
             ELSE /\ pc' = IF isAuto THEN "netStart" ELSE IF isRunning THEN "config" ELSE "configStart"
                  /\ UNCHANGED <<outcome, at>>
          /\ IF isAuto = (Services[at] \in auto) /\ isRunning = (Services[at] \in running)
             THEN Works ELSE Breaks
    /\ UNCHANGED <<hostVars, rdpPort, silent>>

\* sc config start=auto; net start follows for a service that did not read as running.
ServiceConfig ==
    /\ pc \in {"config", "configStart"}
    /\ auto' = auto \cup {Services[at]} /\ Works
    /\ IF pc = "config"
       THEN ServiceReports("changed")
       ELSE pc' = "netStart" /\ UNCHANGED <<outcome, at>>
    /\ UNCHANGED <<forced, running, profile, deny, regPort, rule, rulePort, awake, rdpPort, silent>>

ServiceStarts ==
    /\ pc = "netStart" /\ Services[at] \notin running
    /\ running' = running \cup {Services[at]} /\ ServiceReports("changed") /\ Works
    /\ UNCHANGED <<forced, auto, profile, deny, regPort, rule, rulePort, awake, rdpPort, silent>>

\* net start refuses a service that runs already.
ServiceFails ==
    /\ pc \in {"config", "configStart", "netStart"}
    /\ ServiceReports("failed")
    /\ IF pc = "netStart" /\ Services[at] \in running THEN Works ELSE Breaks
    /\ UNCHANGED <<hostVars, rdpPort, silent>>

NetworkProfile ==
    /\ pc = "profile"
    /\ \/ profile = "none" /\ Report("profile", "manual", "rdp") /\ Works /\ UNCHANGED <<profile, silent>>
       \/ profile = "private" /\ Report("profile", "ok", "rdp") /\ Works /\ UNCHANGED <<profile, silent>>
       \/ /\ profile = "public" /\ profile' = "private"
          /\ Report("profile", "changed", "rdp") /\ Works /\ UNCHANGED silent
       \/ Report("profile", "failed", "rdp") /\ Breaks /\ UNCHANGED <<profile, silent>>
       \/ /\ profile = "public" /\ UNCHANGED profile  \* the last command of the loop may work
          /\ Report("profile", "changed", "rdp") /\ Breaks /\ silent' = TRUE
    /\ UNCHANGED <<forced, auto, running, deny, regPort, rule, rulePort, awake, at, rdpPort>>

\* rdpSetupStep, nothing to enable: the step, and the port for the rule.
RDPReads ==
    /\ pc = "rdp" /\ RDPPlan(deny) # "enableRDP"
    /\ Report("rdp", declaredRDPPort(RDPPlan(deny), regPort), "rule") /\ rdpPort' = regPort /\ Works
    /\ UNCHANGED <<hostVars, at, silent>>

\* The denial or the port cannot be read: the run goes on with a port it may have to assume.
RDPUnread ==
    /\ pc = "rdp"
    /\ Report("rdp", "failed", "rule") /\ rdpPort' \in {regPort, "default"} /\ Breaks
    /\ UNCHANGED <<hostVars, at, silent>>

\* psEnableRDP writes the value and then reads the port; its failure is reported whether
\* or not the value was written.
EnableRDP ==
    /\ pc = "rdp" /\ RDPPlan(deny) = "enableRDP"
    /\ \/ /\ deny' = [deny EXCEPT !.local = "0"]
          /\ Report("rdp", declaredRDPPort("changed", regPort), "rule") /\ rdpPort' = regPort /\ Works
       \/ /\ deny' \in {deny, [deny EXCEPT !.local = "0"]}
          /\ Report("rdp", "failed", "rule") /\ rdpPort' = "default" /\ Breaks
    /\ UNCHANGED <<forced, auto, running, profile, regPort, rule, rulePort, awake, at, silent>>

\* What a read prints when Get-ItemProperty fails on one of the values, or both.
Printed == [policy : {deny.policy, "absent"}, local : {deny.local, "absent"}]

\* The scripts exit 0 all the same: a value that is not printed is taken for unset, a port
\* that is not a number for 3389 (readPortPS, portOrDefault), a write that failed for done.
RDPSilent ==
    /\ pc = "rdp"
    /\ \E d \in Printed, port \in {regPort, "default"} :
          /\ IF RDPPlan(d) = "enableRDP"
             THEN /\ deny' \in {deny, [deny EXCEPT !.local = "0"]}
                  /\ Report("rdp", declaredRDPPort("changed", port), "rule")
             ELSE UNCHANGED deny /\ Report("rdp", declaredRDPPort(RDPPlan(d), port), "rule")
          /\ rdpPort' = port
    /\ Breaks /\ silent' = TRUE
    /\ UNCHANGED <<forced, auto, running, profile, regPort, rule, rulePort, awake, at>>

AfterRule == IF cfg.noSleep THEN "done" ELSE "power"

RuleKept ==
    /\ pc = "rule" /\ windowsFirewallRuleOK(rdpPort)
    /\ Report("rule", "ok", AfterRule) /\ Works
    /\ at' = 1
    /\ UNCHANGED <<hostVars, rdpPort, silent>>

\* One script removes every rule of the name and creates setup's.
RuleRecreated ==
    /\ pc = "rule" /\ ~windowsFirewallRuleOK(rdpPort)
    /\ rule' = "good" /\ rulePort' = rdpPort
    /\ Report("rule", "changed", AfterRule) /\ Works
    /\ at' = 1
    /\ UNCHANGED <<forced, auto, running, profile, deny, regPort, awake, rdpPort, silent>>

\* A rule that cannot be read is recreated too.  The removal, the creation or both fail, or
\* what follows them; the exit status is that of the last command, Enable-NetFirewallRule:
\* it may hide a failure, or be one.
RuleFails ==
    /\ pc = "rule"
    /\ \/ rule' \in {rule, "none"} /\ UNCHANGED rulePort
       \/ rule # "none" /\ rule' = "differs" /\ UNCHANGED rulePort  \* a second one of the name
       \/ rule' = "good" /\ rulePort' = rdpPort
    /\ \E o \in {"changed", "failed"} :
          /\ Report("rule", o, AfterRule)
          /\ silent' = (silent \/ (o = "changed" /\ <<rule', rulePort'>> # <<"good", rdpPort>>))
    /\ Breaks
    /\ at' = 1
    /\ UNCHANGED <<forced, auto, running, profile, deny, regPort, awake, rdpPort>>

\* powerStep: one /change per timeout that does not read as 0.
Power ==
    /\ pc = "power" /\ at <= Len(Timeouts)
    /\ at' = at + 1
    /\ \/ Timeouts[at] \in awake /\ Works /\ UNCHANGED <<outcome, awake>>
       \/ /\ awake' = awake \cup {Timeouts[at]}
          /\ outcome' = [outcome EXCEPT !["power"] = "changed"]
          /\ IF Timeouts[at] \in awake THEN Breaks ELSE Works
    /\ UNCHANGED <<pc, forced, auto, running, profile, deny, regPort, rule, rulePort, rdpPort, silent>>

\* The first /change that fails ends the step.
PowerFails ==
    /\ pc = "power" /\ at <= Len(Timeouts) /\ Timeouts[at] \notin awake
    /\ Report("power", "failed", "done") /\ Breaks
    /\ UNCHANGED windowsVars

PowerDone ==
    /\ pc = "power" /\ at > Len(Timeouts)
    /\ Report("power", Worst("power", "ok"), "done") /\ Works
    /\ UNCHANGED windowsVars

WindowsStep ==
    \/ Unattended
    \/ ServiceReads \/ ServiceConfig \/ ServiceStarts \/ ServiceFails
    \/ NetworkProfile \/ RDPReads \/ RDPUnread \/ EnableRDP \/ RDPSilent
    \/ RuleKept \/ RuleRecreated \/ RuleFails
    \/ Power \/ PowerFails \/ PowerDone
=============================================================================
