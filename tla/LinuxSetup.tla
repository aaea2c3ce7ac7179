----------------------------- MODULE LinuxSetup -----------------------------
(***************************************************************************)
(* `host setup` and `host check` on Linux (internal/host/linux_steps.go,   *)
(* xrdp_port.go): the xrdp service, its listener and the firewall.         *)
(* systemd, xrdp, ufw, iptables and tailscaled are the environment.        *)
(***************************************************************************)
EXTENDS SetupRun, IptablesRules

VARIABLES
    unit,       \* what systemctl is-enabled answers; "missing", or "noSystemctl"
    active,     \* xrdp runs
    ini,        \* the listener xrdp.ini names, or what is wrong with the file
    listens,    \* the ini the running xrdp was started with; "nowhere" when it is down
    ufw,        \* "absent", "active", "inactive", or "broken": its status cannot be read
    ufwRules,   \* ufw's own rules, in order
    hasIpt,     \* iptables is installed
    input,      \* the INPUT chain
    policy,     \* its policy
    tsChain,    \* the rules of tailscaled's ts-input
    unreached,  \* ts-input exists where INPUT does not show it
    ipUp,       \* `tailscale ip` answers
    read,       \* the firewall as the running step read it
    left        \* copies the step has still to delete

xrdpVars == <<unit, active, ini, listens>>
fwVars == <<ufw, ufwRules, hasIpt, input, policy, tsChain, unreached>>
linuxVars == <<xrdpVars, fwVars, ipUp, read, left>>

Inis == Ports \cup {"noFile", "noGlobals", "notOnePort"}

\* A plain host: xrdp runs, and INPUT drops everything.
LinuxStock ==
    [cfg |-> [declared |-> "undeclared", noSleep |-> FALSE],
     unit |-> "enabled", active |-> TRUE, ini |-> "default", ipUp |-> TRUE,
     ufw |-> "absent", ufwRules |-> <<>>, hasIpt |-> TRUE,
     input |-> <<>>, policy |-> "DROP", tsChain |-> <<>>, unreached |-> FALSE]

(* A Linux host h, before the first run. *)
LinuxInit(h) ==
    /\ unit = h.unit /\ active = h.active /\ ini = h.ini
    /\ listens = IF h.active THEN h.ini ELSE "nowhere"
    /\ ufw = h.ufw /\ ufwRules = h.ufwRules /\ hasIpt = h.hasIpt
    /\ input = h.input /\ policy = h.policy /\ tsChain = h.tsChain /\ unreached = h.unreached
    /\ ipUp = h.ipUp
    /\ read = Unread /\ left = 0

-----------------------------------------------------------------------------
(* The firewall read and what the steps make of it. *)

\* iptOK: the commands of readIptables answer.
IptRead(iptOK) == IF iptOK THEN readIptables(input, tsChain, unreached) ELSE Unread

\* Faulty variant: ufw's list alone decides.
readUFWAlone(iptOK) ==
    [backend |-> "ufw",
     state |-> IF ufw = "broken" THEN "unknown" ELSE ufwDecide(ufwRules),
     copies |-> 0, foreign |-> FALSE, scoped |-> FALSE,
     ufwInactive |-> ufw = "inactive", ufwAllows |-> ufwDecide(ufwRules) = "present",
     byIptables |-> FALSE]

readUFW(iptOK) ==
    LET own == IF ufw = "broken" THEN "unknown" ELSE ufwDecide(ufwRules)
        ipt == IF hasIpt THEN IptRead(iptOK) ELSE Unread
        deferred == own = "absent" /\ hasIpt
    IN [backend |-> "ufw",
        state |-> IF deferred THEN ipt.state ELSE own,
        copies |-> ipt.copies, foreign |-> FALSE, scoped |-> FALSE,
        ufwInactive |-> ufw = "inactive", ufwAllows |-> own = "present",
        byIptables |-> deferred]

readLinuxFirewall(iptOK) ==
    IF ufw # "absent"
    THEN readUFW(iptOK)
    ELSE LET ipt == IF hasIpt THEN IptRead(iptOK) ELSE Unread
         IN [backend |-> "iptables", state |-> ipt.state, copies |-> ipt.copies,
             foreign |-> ipt.foreign, scoped |-> ipt.scoped,
             ufwInactive |-> FALSE, ufwAllows |-> FALSE, byIptables |-> FALSE]

iptLegacy(r) == r.backend = "iptables" /\ r.state = "present" /\ (r.copies > 0 \/ r.foreign)

inactiveUFWDecides(r) ==
    /\ r.ufwInactive /\ r.state # "unknown"
    /\ r.state # "blocked" \/ ~r.byIptables

\* Faulty variant: a rule is appended whether or not one is there.
FirewallPlanBlind(r) ==
    IF r.state = "unknown" THEN "failed" ELSE IF r.backend = "ufw" THEN "ufwAllow" ELSE "append"

\* Faulty variant: the copies go before a scoped rule takes their place.
FirewallPlanDeletes(r) ==
    IF iptLegacy(r) THEN "delete" ELSE IF r.state = "absent" THEN "append" ELSE "manual"

\* What setup does about a read: report an outcome, or run a command first.
FirewallPlan(r) ==
    CASE inactiveUFWDecides(r) -> IF r.state = "absent" /\ ~r.ufwAllows THEN "ufwAllow" ELSE "manual"
      [] ~inactiveUFWDecides(r) /\ r.state = "present" ->
            IF iptLegacy(r) THEN (IF r.scoped THEN "delete" ELSE "append")
            ELSE IF r.copies > 0 THEN "manual" ELSE "ok"
      [] ~inactiveUFWDecides(r) /\ r.state = "blocked" -> "manual"
      [] r.state = "unknown" -> "failed"
      [] OTHER -> IF r.backend = "ufw" THEN "ufwAllow" ELSE "append"

Commands == {"ufwAllow", "append", "delete"}

\* A command that changes rules runs: there may be no copy to delete.
FirewallActs(r) ==
    FirewallPlan(r) \in Commands /\ (FirewallPlan(r) = "delete" => r.copies > 0)

\* The outcome of a plan every command of which works: a rule of the operator's stays
\* unscoped, and an inactive ufw stays inactive.
FirewallDone(r) ==
    IF (iptLegacy(r) /\ r.foreign) \/ inactiveUFWDecides(r) THEN "manual" ELSE "changed"

\* Faulty variant: an allow is an allow, whatever its scope.
firewallCheckLoose(r) ==
    IF r.state = "unknown" THEN "unverified" ELSE IF r.state = "present" THEN "ok" ELSE "changed"

firewallCheckStep(r) ==
    CASE r.state = "unknown" -> "unverified"
      [] r.state # "unknown" /\ (inactiveUFWDecides(r) \/ r.state = "blocked") -> "manual"
      [] OTHER -> IF iptLegacy(r) THEN (IF r.foreign THEN "manual" ELSE "changed")
                  ELSE IF r.copies > 0 THEN "manual"
                  ELSE IF r.state = "present" THEN "ok" ELSE "changed"

-----------------------------------------------------------------------------
(* The xrdp reads. *)

xrdpUnmet == unit \in {"missing", "undecided", "noSystemctl"}

\* Faulty variant: a unit that runs now need not start at boot.
XrdpPlanRuns ==
    IF xrdpUnmet \/ unit = "masked" THEN "failed" ELSE IF active THEN "ok" ELSE "enable"

XrdpPlan ==
    IF xrdpUnmet THEN "failed"
    ELSE IF unit = "enabled" /\ active THEN "ok"
    ELSE IF unit = "masked" THEN "failed" ELSE "enable"

xrdpCheckStep ==
    CASE unit = "missing" -> "failed"
      [] unit \in {"undecided", "noSystemctl"} -> "unverified"
      [] unit = "enabled" /\ active -> "ok"
      [] unit = "masked" -> "manual"
      [] OTHER -> "changed"

\* The port xrdp.ini names: xrdp's built-in one when it names none.
IniPort == IF ini \in Ports THEN ini ELSE "default"

\* xrdpPortRead: the outcome, "none" when the step is not reported.
xrdpPortRead ==
    CASE ini = "noFile" -> IF cfg.declared = "default" THEN "none" ELSE "failed"
      [] ini = "notOnePort" -> "failed"
      [] ini \notin {"noFile", "notOnePort"} /\ IniPort = cfg.declared ->
            IF cfg.declared = "default" THEN "none" ELSE "ok"
      [] OTHER -> IF ini = "noGlobals" THEN "failed" ELSE "changed"

-----------------------------------------------------------------------------
(* The steps. *)

AfterXrdp == IF cfg.declared = "undeclared" THEN "firewall" ELSE "xrdpPort"

XrdpSetup ==
    /\ pc = "xrdp"
    /\ \/ /\ XrdpPlan = "enable" /\ pc' = "enable" /\ UNCHANGED outcome /\ Works
       \/ XrdpPlan # "enable" /\ Report("xrdp", XrdpPlan, AfterXrdp) /\ Works
       \/ Report("xrdp", "failed", AfterXrdp) /\ Breaks  \* systemctl answers nothing
    /\ UNCHANGED linuxVars

\* systemctl enable --now: a unit that runs already is not started again.
Enable ==
    /\ pc = "enable"
    /\ unit' = "enabled" /\ active' = TRUE /\ listens' = IF active THEN listens ELSE ini
    /\ Report("xrdp", "changed", AfterXrdp) /\ Works
    /\ UNCHANGED <<ini, fwVars, ipUp, read, left>>

\* It fails before or after the unit is enabled.
EnableFails ==
    /\ pc = "enable"
    /\ unit' \in {unit, "enabled"}
    /\ Report("xrdp", "failed", AfterXrdp) /\ Breaks
    /\ UNCHANGED <<active, ini, listens, fwVars, ipUp, read, left>>

XrdpPortSetup ==
    /\ pc = "xrdpPort"
    /\ \/ xrdpPortRead = "changed" /\ pc' = "writeIni" /\ UNCHANGED outcome
       \/ xrdpPortRead # "changed" /\ Report("xrdpPort", xrdpPortRead, "firewall")
    /\ Works
    /\ UNCHANGED linuxVars

WriteIni ==
    /\ pc = "writeIni"
    /\ \/ ini' = cfg.declared /\ pc' = "restart" /\ UNCHANGED outcome /\ Works
       \/ Report("xrdpPort", "failed", "firewall") /\ Breaks /\ UNCHANGED ini
    /\ UNCHANGED <<unit, active, listens, fwVars, ipUp, read, left>>

Startable == unit \notin {"missing", "masked", "noSystemctl"}

Restart ==
    /\ pc = "restart" /\ Startable
    /\ active' = TRUE /\ listens' = ini
    /\ Report("xrdpPort", "changed", "firewall") /\ Works
    /\ UNCHANGED <<unit, ini, fwVars, ipUp, read, left>>

\* The restart is refused, or stops xrdp and does not start it again.
RestartFails ==
    /\ pc = "restart"
    /\ Report("xrdpPort", "failed", "firewall")
    /\ \/ ~Startable /\ Works /\ UNCHANGED <<active, listens>>
       \/ /\ Startable /\ Breaks
          /\ \/ UNCHANGED <<active, listens>>
             \/ active' = FALSE /\ listens' = "nowhere"
    /\ UNCHANGED <<unit, ini, fwVars, ipUp, read, left>>

FirewallSetup(iptOK) ==
    LET r == readLinuxFirewall(iptOK)
        plan == FirewallPlan(r)
    IN /\ pc = "firewall" /\ (iptOK \/ hasIpt)
       /\ read' = r /\ left' = r.copies
       /\ IF plan \in Commands THEN pc' = plan /\ UNCHANGED outcome ELSE Report("firewall", plan, "ip")
       /\ IF iptOK THEN Works ELSE Breaks
       /\ UNCHANGED <<xrdpVars, fwVars, ipUp>>

CommandFails ==
    /\ pc \in Commands
    /\ Report("firewall", "failed", "ip") /\ Breaks
    /\ UNCHANGED linuxVars

UfwAllow ==
    /\ pc = "ufwAllow"
    /\ ufwRules' = Append(ufwRules, ufwAllow)
    /\ Report("firewall", FirewallDone(read), "ip") /\ Works
    /\ UNCHANGED <<xrdpVars, ufw, hasIpt, input, policy, tsChain, unreached, ipUp, read, left>>

\* The loop of deletions goes on while copies remain; then the step reports.
DeletesLeft(n) ==
    IF read.state = "present" /\ n > 0
    THEN pc' = "delete" /\ UNCHANGED outcome
    ELSE Report("firewall", FirewallDone(read), "ip")

AppendScoped ==
    /\ pc = "append"
    /\ input' = Append(input, iptablesAppend)
    /\ DeletesLeft(left) /\ Works
    /\ UNCHANGED <<xrdpVars, ufw, ufwRules, hasIpt, policy, tsChain, unreached, ipUp, read, left>>

\* A scoped rule admits the port already, and only rules of others are unscoped.
NothingToDelete ==
    /\ pc = "delete" /\ left = 0
    /\ Report("firewall", FirewallDone(read), "ip") /\ Works
    /\ UNCHANGED linuxVars

\* Faulty variant: the first unscoped allow goes, whoever wrote it.
DeleteUnscoped ==
    /\ pc = "delete" /\ left > 0
    /\ input' = RemoveFirstMatch(input, iptUnscoped)
    /\ left' = left - 1
    /\ DeletesLeft(left - 1) /\ Works
    /\ UNCHANGED <<xrdpVars, ufw, ufwRules, hasIpt, policy, tsChain, unreached, ipUp, read>>

\* iptables -D deletes the first copy.
DeleteCopy ==
    /\ pc = "delete" /\ left > 0
    /\ input' = RemoveFirstMatch(input, LAMBDA r : r.own)
    /\ left' = left - 1
    /\ DeletesLeft(left - 1) /\ Works
    /\ UNCHANGED <<xrdpVars, ufw, ufwRules, hasIpt, policy, tsChain, unreached, ipUp, read>>

TailscaleIP ==
    /\ pc = "ip"
    /\ Report("ip", IF ipUp THEN "ok" ELSE "failed", "done") /\ Works
    /\ UNCHANGED linuxVars

LinuxStep ==
    \/ XrdpSetup \/ Enable \/ EnableFails
    \/ XrdpPortSetup \/ WriteIni \/ Restart \/ RestartFails
    \/ (\E iptOK \in BOOLEAN : FirewallSetup(iptOK))
    \/ CommandFails \/ UfwAllow \/ AppendScoped \/ NothingToDelete \/ DeleteCopy
    \/ TailscaleIP
=============================================================================
