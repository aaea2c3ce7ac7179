-------------------------- MODULE HostSetupProofs ---------------------------
(***************************************************************************)
(* Proofs about HostSetup, for every host the first run may find, any      *)
(* number of runs, of failing commands and of kills.                       *)
(***************************************************************************)
EXTENDS HostSetup, FiniteSetTheorems, WellFoundedInduction, TLAPS

----------------------------------------------------------------------------
(***************************************************************************)
(* The run: what has been reported, and what a report changes.             *)
(***************************************************************************)
\* The run is past a point, or was and has ended well.
Past(points) == pc \in points \/ exit = "ok"

\* The step is reported, and what it stands for holds unless it went wrong.
Holds(s, fact) == outcome[s] # "none" /\ (Succeeded(outcome[s]) => fact)

RunOK ==
    /\ DOMAIN outcome = StepNames
    /\ exit = "ok" => pc = "off"

\* A report changes one outcome.
LEMMA ReportFacts ==
    ASSUME RunOK, NEW s \in StepNames, NEW o, NEW next, Report(s, o, next)
    PROVE  /\ pc' = next /\ DOMAIN outcome' = StepNames /\ outcome'[s] = o
           /\ \A t \in StepNames : t # s => outcome'[t] = outcome[t]
  BY DEF Report, RunOK

----------------------------------------------------------------------------
(***************************************************************************)
(* Windows.                                                                *)
(***************************************************************************)
AfterUnattended == {"service", "config", "configStart", "netStart", "profile", "rdp", "rule", "power", "done"}
AfterServices == {"profile", "rdp", "rule", "power", "done"}
AfterProfile == {"rdp", "rule", "power", "done"}
AfterRDP == {"rule", "power", "done"}
RuleDone == {"power", "done"}
WindowsPoints == {"off", "unattended"} \cup AfterUnattended

\* The registry, the timeouts and the loops range over what they should.
WindowsTypes ==
    /\ pc \in WindowsPoints
    /\ at \in Nat \ {0} /\ awake \subseteq TimeoutSet /\ silent \in BOOLEAN
    /\ deny \in [policy : {"absent", "0", "1"}, local : {"absent", "0", "1"}]
    /\ pc \in {"service", "config", "configStart", "netStart"} => at <= Len(Services)
    /\ pc = "netStart" => Services[at] \in auto
    /\ pc = "config" => Services[at] \in running
    /\ pc = "power" => ~cfg.noSleep

\* The services before the one at hand, and the timeouts.
ServedSoFar ==
    pc \in {"service", "config", "configStart", "netStart"} /\ outcome["services"] # "failed" =>
        \A j \in 1 .. at - 1 : Services[j] \in auto \cap running
AwakeSoFar ==
    pc = "power" => \A j \in 1 .. Len(Timeouts) : j < at => Timeouts[j] \in awake

\* The port the run took is the registry's and the declared one, and RDP is not denied.
ListenerDeclared == rdpPort = regPort /\ ~Denied(deny) /\ cfg.declared \in {"undeclared", regPort}

\* Each step, once it is past; a script that failed without saying so excuses its step.
WindowsSteps ==
    /\ Past(AfterUnattended) => Holds("unattended", forced)
    /\ Past(AfterServices) => Holds("services", ServiceSet \subseteq auto \cap running)
    /\ Past(AfterProfile) => Holds("profile", silent \/ profile = "private")
    /\ Past(AfterRDP) => Holds("rdp", silent \/ ListenerDeclared)
    /\ Past(RuleDone) => Holds("rule", silent \/ (rule = "good" /\ rulePort = rdpPort))
    /\ Past({"done"}) => cfg.noSleep \/ Holds("power", TimeoutSet \subseteq awake)

WindowsInv == RunOK /\ WindowsTypes /\ ServedSoFar /\ AwakeSoFar /\ WindowsSteps

\* unattendedStep reports, and a pref it found or set is set.
LEMMA UnattendedKeeps == WindowsInv /\ Unattended => WindowsInv'
<1> SUFFICES ASSUME WindowsInv, Unattended PROVE WindowsInv'
  OBVIOUS
<1>1. /\ pc = "unattended" /\ pc' = "service" /\ exit' = exit /\ cfg' = cfg /\ at' = 1 /\ silent' = FALSE
      /\ DOMAIN outcome' = StepNames
      /\ outcome'["unattended"] \in {"ok", "changed", "failed"}
      /\ Succeeded(outcome'["unattended"]) => forced'
      /\ UNCHANGED <<auto, running, profile, deny, regPort, rule, rulePort, awake, rdpPort>>
  BY DEF WindowsInv, RunOK, Unattended, Report, Works, Breaks, Succeeded, StepNames
<1>2. exit # "ok"
  BY <1>1 DEF WindowsInv, RunOK
<1>6. silent' \in BOOLEAN
  BY <1>1
<1>3. RunOK' /\ WindowsTypes'
  BY <1>1, <1>2, <1>6, WindowsLists DEF WindowsInv, RunOK, WindowsTypes, WindowsPoints, AfterUnattended
<1>4. ServedSoFar' /\ AwakeSoFar'
  BY <1>1 DEF ServedSoFar, AwakeSoFar
<1>5. WindowsSteps'
  BY <1>1, <1>2 DEF WindowsSteps, Past, Holds, AfterServices, AfterProfile, AfterRDP, RuleDone
<1> QED
  BY <1>3, <1>4, <1>5 DEF WindowsInv

\* serviceStep moves on to a command for the same service.
LEMMA ServiceStays ==
    ASSUME WindowsInv, pc \in {"service", "configStart"}, pc' \in {"config", "configStart", "netStart"},
           pc' = "netStart" => Services[at] \in auto', pc' = "config" => Services[at] \in running,
           auto \subseteq auto',
           UNCHANGED <<outcome, at, cfg, exit, forced, running, profile, deny, regPort, rule, rulePort, awake, rdpPort, silent>>
    PROVE  WindowsInv'
<1>1. exit # "ok"
  BY DEF WindowsInv, RunOK
<1>2. RunOK' /\ WindowsTypes'
  BY <1>1 DEF WindowsInv, RunOK, WindowsTypes, WindowsPoints, AfterUnattended
<1>3. ServedSoFar' /\ AwakeSoFar'
  BY DEF WindowsInv, ServedSoFar, AwakeSoFar
<1>4. WindowsSteps'
  BY <1>1 DEF WindowsInv, WindowsSteps, Past, Holds, AfterUnattended, AfterServices, AfterProfile, AfterRDP, RuleDone
<1> QED
  BY <1>2, <1>3, <1>4 DEF WindowsInv

\* serviceStep is done with one service: o is what it says of that one.
LEMMA ServiceAdvances ==
    ASSUME WindowsInv, pc \in {"service", "config", "configStart", "netStart"}, NEW o \in {"ok", "changed", "failed"},
           ServiceReports(o), auto \subseteq auto', running \subseteq running',
           o # "failed" => Services[at] \in auto' \cap running',
           UNCHANGED <<cfg, exit, forced, profile, deny, regPort, rule, rulePort, awake, rdpPort, silent>>
    PROVE  WindowsInv'
<1>1. exit # "ok"
  BY DEF WindowsInv, RunOK
<1>2. PICK w : w = Worst("services", o)
  OBVIOUS
<1>3. /\ w \in {"ok", "changed", "failed"}
      /\ w # "failed" => outcome["services"] # "failed" /\ o # "failed"
  BY <1>2 DEF Worst
<1>4. /\ pc' = IF at < Len(Services) THEN "service" ELSE "profile"
      /\ DOMAIN outcome' = StepNames /\ outcome'["services"] = w
      /\ \A t \in StepNames : t # "services" => outcome'[t] = outcome[t]
      /\ at' = at + 1
  <2>1. /\ Report("services", w, IF at < Len(Services) THEN "service" ELSE "profile")
        /\ at' = at + 1 /\ "services" \in StepNames /\ RunOK
    BY <1>2 DEF ServiceReports, WindowsInv, StepNames
  <2> QED
    BY <2>1, ReportFacts
<1>5. at \in Nat \ {0} /\ at <= Len(Services) /\ Len(Services) \in Nat
  BY WindowsLists DEF WindowsInv, WindowsTypes
<1>6. RunOK' /\ WindowsTypes'
  BY <1>1, <1>4, <1>5 DEF WindowsInv, RunOK, WindowsTypes, WindowsPoints, AfterUnattended
<1>7. w # "failed" => \A j \in 1 .. at : Services[j] \in auto' \cap running'
  BY <1>3, <1>5 DEF WindowsInv, ServedSoFar
<1>8. ServedSoFar' /\ AwakeSoFar'
  BY <1>4, <1>5, <1>7 DEF ServedSoFar, AwakeSoFar
<1>9. pc' = "profile" => Holds("services", ServiceSet \subseteq auto \cap running)'
  <2>1. pc' = "profile" => at = Len(Services)
    BY <1>4, <1>5
  <2> QED
    BY <1>3, <1>4, <1>7, <2>1 DEF Holds, ServiceSet, Succeeded
<1>10. Holds("unattended", forced)'
  BY <1>4 DEF WindowsInv, WindowsSteps, Past, Holds, AfterUnattended, StepNames
<1>11. WindowsSteps'
  BY <1>1, <1>4, <1>9, <1>10 DEF WindowsSteps, Past, AfterServices, AfterProfile, AfterRDP, RuleDone
<1> QED
  BY <1>6, <1>8, <1>11 DEF WindowsInv

\* The steps of the services.
LEMMA ServicesKeep ==
    WindowsInv /\ (ServiceReads \/ ServiceConfig \/ ServiceStarts \/ ServiceFails) => WindowsInv'
<1>1. ASSUME WindowsInv, ServiceReads PROVE WindowsInv'
  <2>1. PICK isAuto \in {Services[at] \in auto, FALSE}, isRunning \in {Services[at] \in running, FALSE} :
          IF isAuto /\ isRunning
          THEN ServiceReports("ok")
          ELSE /\ pc' = IF isAuto THEN "netStart" ELSE IF isRunning THEN "config" ELSE "configStart"
               /\ UNCHANGED <<outcome, at>>
    BY <1>1 DEF ServiceReads
  <2>2. /\ pc = "service"
        /\ UNCHANGED <<cfg, exit, forced, auto, running, profile, deny, regPort, rule, rulePort, awake, rdpPort, silent>>
    BY <1>1 DEF ServiceReads, Works, Breaks, hostVars
  <2>3. (isAuto => Services[at] \in auto) /\ (isRunning => Services[at] \in running)
    BY <2>1
  <2>4. CASE isAuto /\ isRunning
    BY <1>1, <2>1, <2>2, <2>3, <2>4, ServiceAdvances
  <2>5. CASE ~(isAuto /\ isRunning)
    <3>1. /\ pc' \in {"config", "configStart", "netStart"} /\ UNCHANGED <<outcome, at>>
          /\ pc' = "netStart" => Services[at] \in auto
          /\ pc' = "config" => Services[at] \in running
      BY <2>1, <2>3, <2>5
    <3> QED
      BY <1>1, <2>2, <3>1, ServiceStays
  <2> QED
    BY <2>4, <2>5
<1>2. ASSUME WindowsInv, ServiceConfig PROVE WindowsInv'
  <2>1. /\ pc \in {"config", "configStart"} /\ auto' = auto \cup {Services[at]}
        /\ UNCHANGED <<cfg, exit, forced, running, profile, deny, regPort, rule, rulePort, awake, rdpPort, silent>>
        /\ IF pc = "config" THEN ServiceReports("changed")
           ELSE pc' = "netStart" /\ UNCHANGED <<outcome, at>>
    BY <1>2 DEF ServiceConfig, Works
  <2>2. CASE pc = "config"
    <3>1. Services[at] \in running
      BY <1>2, <2>2 DEF WindowsInv, WindowsTypes
    <3> QED
      BY <1>2, <2>1, <2>2, <3>1, ServiceAdvances
  <2>3. CASE pc = "configStart"
    BY <1>2, <2>1, <2>3, ServiceStays
  <2> QED
    BY <2>1, <2>2, <2>3
<1>3. ASSUME WindowsInv, ServiceStarts PROVE WindowsInv'
  <2>1. /\ pc = "netStart" /\ running' = running \cup {Services[at]} /\ ServiceReports("changed")
        /\ UNCHANGED <<cfg, exit, forced, auto, profile, deny, regPort, rule, rulePort, awake, rdpPort, silent>>
    BY <1>3 DEF ServiceStarts, Works
  <2>2. Services[at] \in auto
    BY <1>3, <2>1 DEF WindowsInv, WindowsTypes
  <2> QED
    BY <1>3, <2>1, <2>2, ServiceAdvances
<1>4. ASSUME WindowsInv, ServiceFails PROVE WindowsInv'
  <2>1. /\ pc \in {"config", "configStart", "netStart"} /\ ServiceReports("failed")
        /\ UNCHANGED <<cfg, exit, forced, auto, running, profile, deny, regPort, rule, rulePort, awake, rdpPort, silent>>
    BY <1>4 DEF ServiceFails, Works, Breaks, hostVars
  <2> QED
    BY <1>4, <2>1, ServiceAdvances
<1> QED
  BY <1>1, <1>2, <1>3, <1>4

\* The network profile, and the listener with the port for its rule.
LEMMA ListenerKeeps ==
    WindowsInv /\ (NetworkProfile \/ RDPReads \/ RDPUnread \/ EnableRDP \/ RDPSilent) => WindowsInv'
<1>1. ASSUME WindowsInv, NetworkProfile PROVE WindowsInv'
  <2>1. /\ pc = "profile" /\ pc' = "rdp" /\ exit' = exit /\ cfg' = cfg
        /\ DOMAIN outcome' = StepNames /\ outcome'["profile"] \in Outcomes
        /\ silent' \in BOOLEAN /\ (Succeeded(outcome'["profile"]) => silent' \/ profile' = "private")
        /\ \A t \in StepNames : t # "profile" => outcome'[t] = outcome[t]
        /\ UNCHANGED <<forced, auto, running, deny, regPort, rule, rulePort, awake, at, rdpPort>>
    BY <1>1 DEF WindowsInv, WindowsTypes, RunOK, NetworkProfile, Report, Works, Breaks, Succeeded, StepNames, Outcomes
  <2>2. exit # "ok"
    BY <1>1, <2>1 DEF WindowsInv, RunOK
  <2>3. RunOK' /\ WindowsTypes' /\ ServedSoFar' /\ AwakeSoFar'
    BY <1>1, <2>1, <2>2 DEF WindowsInv, RunOK, WindowsTypes, WindowsPoints, AfterUnattended, ServedSoFar, AwakeSoFar
  <2>4. WindowsSteps'
    BY <1>1, <2>1, <2>2 DEF WindowsInv, WindowsSteps, Past, Holds, StepNames, Outcomes, ServiceSet,
        AfterUnattended, AfterServices, AfterProfile, AfterRDP, RuleDone
  <2> QED
    BY <2>3, <2>4 DEF WindowsInv
<1>2. ASSUME WindowsInv, RDPReads \/ RDPUnread \/ EnableRDP \/ RDPSilent PROVE WindowsInv'
  <2>0. /\ RDPPlan(deny) \in {"manual", "enableRDP", "ok"}
        /\ DOMAIN outcome = StepNames /\ "rdp" \in StepNames /\ RunOK
        /\ deny \in [policy : {"absent", "0", "1"}, local : {"absent", "0", "1"}]
        /\ [deny EXCEPT !.local = "0"] \in [policy : {"absent", "0", "1"}, local : {"absent", "0", "1"}]
        /\ silent \in BOOLEAN
    BY <1>2 DEF RDPPlan, WindowsInv, WindowsTypes, RunOK, StepNames
  <2>1. PICK o : /\ Report("rdp", o, "rule") /\ o # "none"
                 /\ pc = "rdp" /\ exit' = exit /\ cfg' = cfg
                 /\ UNCHANGED <<forced, auto, running, profile, regPort, rule, rulePort, awake, at>>
                 /\ deny' \in {deny, [deny EXCEPT !.local = "0"]}
                 /\ silent' \in BOOLEAN
                 /\ \/ silent'
                    \/ o = "failed"
                    \/ o = declaredRDPPort(RDPPlan(deny), regPort) /\ RDPPlan(deny) # "enableRDP"
                       /\ deny' = deny /\ rdpPort' = regPort
                    \/ o = declaredRDPPort("changed", regPort) /\ RDPPlan(deny) = "enableRDP"
                       /\ deny' = [deny EXCEPT !.local = "0"] /\ rdpPort' = regPort
    <3>1. CASE RDPReads
      <4>1. declaredRDPPort(RDPPlan(deny), regPort) # "none"
        BY <2>0 DEF declaredRDPPort
      <4> QED
        BY <2>0, <3>1, <4>1 DEF RDPReads, Works, hostVars
    <3>2. CASE RDPUnread
      BY <2>0, <3>2 DEF RDPUnread, Breaks, hostVars
    <3>3. CASE EnableRDP
      <4>1. declaredRDPPort("changed", regPort) # "none"
        BY DEF declaredRDPPort
      <4> QED
        BY <2>0, <3>3, <4>1 DEF EnableRDP, Works, Breaks
    <3>4. CASE RDPSilent
      <4>1. PICK d \in Printed, port \in {regPort, "default"} :
              IF RDPPlan(d) = "enableRDP"
              THEN /\ deny' \in {deny, [deny EXCEPT !.local = "0"]}
                   /\ Report("rdp", declaredRDPPort("changed", port), "rule")
              ELSE UNCHANGED deny /\ Report("rdp", declaredRDPPort(RDPPlan(d), port), "rule")
        BY <3>4 DEF RDPSilent
      <4>2. declaredRDPPort("changed", port) # "none" /\ declaredRDPPort(RDPPlan(d), port) # "none"
        BY DEF declaredRDPPort, RDPPlan
      <4>3. /\ pc = "rdp" /\ exit' = exit /\ cfg' = cfg /\ silent' = TRUE
            /\ UNCHANGED <<forced, auto, running, profile, regPort, rule, rulePort, awake, at>>
        BY <3>4 DEF RDPSilent, Breaks
      <4>4. CASE RDPPlan(d) = "enableRDP"
        BY <4>1, <4>2, <4>3, <4>4
      <4>5. CASE RDPPlan(d) # "enableRDP"
        BY <4>1, <4>2, <4>3, <4>5
      <4> QED
        BY <4>4, <4>5
    <3> QED
      BY <1>2, <3>1, <3>2, <3>3, <3>4
  <2>2. /\ pc' = "rule" /\ DOMAIN outcome' = StepNames /\ outcome'["rdp"] = o
        /\ \A t \in StepNames : t # "rdp" => outcome'[t] = outcome[t]
    BY <2>0, <2>1, ReportFacts
  <2>8. Succeeded(o) => silent' \/ ListenerDeclared'
    <3>1. \A p : Succeeded(declaredRDPPort(p, regPort)) =>
            p = declaredRDPPort(p, regPort) /\ cfg.declared \in {"undeclared", regPort}
      BY DEF declaredRDPPort, Succeeded
    <3>2. ASSUME o = declaredRDPPort(RDPPlan(deny), regPort), RDPPlan(deny) # "enableRDP", deny' = deny,
                 rdpPort' = regPort, Succeeded(o)
          PROVE  ListenerDeclared'
      <4>1. RDPPlan(deny) = "ok" /\ cfg.declared \in {"undeclared", regPort}
        BY <2>0, <3>1, <3>2 DEF Succeeded
      <4>2. ~Denied(deny)
        BY <4>1 DEF RDPPlan
      <4> QED
        BY <2>1, <3>2, <4>1, <4>2 DEF ListenerDeclared
    <3>3. ASSUME o = declaredRDPPort("changed", regPort), RDPPlan(deny) = "enableRDP",
                 deny' = [deny EXCEPT !.local = "0"], rdpPort' = regPort, Succeeded(o)
          PROVE  ListenerDeclared'
      <4>1. deny.policy = "absent"
        BY <2>0, <3>3 DEF RDPPlan, ByPolicy
      <4>2. deny'.policy = "absent" /\ deny'.local = "0"
        BY <2>0, <3>3, <4>1
      <4>3. ~Denied(deny')
        BY <4>2 DEF Denied, ByPolicy
      <4> QED
        BY <2>1, <3>1, <3>3, <4>3 DEF ListenerDeclared
    <3> QED
      BY <2>1, <3>2, <3>3 DEF Succeeded
  <2>3. exit # "ok"
    BY <1>2, <2>1 DEF WindowsInv, RunOK
  <2>4. RunOK' /\ WindowsTypes' /\ ServedSoFar' /\ AwakeSoFar'
    BY <1>2, <2>0, <2>1, <2>2, <2>3 DEF WindowsInv, RunOK, WindowsTypes, WindowsPoints, AfterUnattended, ServedSoFar, AwakeSoFar
  <2>5. silent => silent'
    BY <1>2 DEF RDPReads, RDPUnread, EnableRDP, RDPSilent
  <2>6. WindowsSteps'
    BY <1>2, <2>1, <2>2, <2>3, <2>5, <2>8 DEF WindowsInv, WindowsSteps, Past, Holds, StepNames, ServiceSet,
        AfterUnattended, AfterServices, AfterProfile, AfterRDP, RuleDone
  <2> QED
    BY <2>4, <2>6 DEF WindowsInv
<1> QED
  BY <1>1, <1>2

\* The firewall rule.
LEMMA RuleKeeps == WindowsInv /\ (RuleKept \/ RuleRecreated \/ RuleFails) => WindowsInv'
<1> SUFFICES ASSUME WindowsInv, RuleKept \/ RuleRecreated \/ RuleFails PROVE WindowsInv'
  OBVIOUS
<1>1. /\ pc = "rule" /\ pc' = AfterRule /\ exit' = exit /\ cfg' = cfg /\ at' = 1
      /\ DOMAIN outcome' = StepNames /\ outcome'["rule"] \in Outcomes
      /\ Succeeded(outcome'["rule"]) => silent' \/ (rule' = "good" /\ rulePort' = rdpPort)
      /\ silent' \in BOOLEAN /\ (silent => silent')
      /\ \A t \in StepNames : t # "rule" => outcome'[t] = outcome[t]
      /\ UNCHANGED <<forced, auto, running, profile, deny, regPort, awake, rdpPort>>
  BY DEF WindowsInv, WindowsTypes, RunOK, RuleKept, RuleRecreated, RuleFails, windowsFirewallRuleOK, Report, Works, Breaks,
      Succeeded, StepNames, Outcomes, hostVars
<1>2. exit # "ok" /\ pc' = IF cfg.noSleep THEN "done" ELSE "power"
  BY <1>1 DEF WindowsInv, RunOK, AfterRule
<1>3. RunOK' /\ WindowsTypes' /\ ServedSoFar' /\ AwakeSoFar'
  BY <1>1, <1>2 DEF WindowsInv, RunOK, WindowsTypes, WindowsPoints, AfterUnattended, ServedSoFar, AwakeSoFar
<1>4. ListenerDeclared' = ListenerDeclared
  BY <1>1 DEF ListenerDeclared
<1>5. WindowsSteps'
  BY <1>1, <1>2, <1>4 DEF WindowsInv, WindowsSteps, Past, Holds, StepNames, Outcomes, ServiceSet,
      AfterUnattended, AfterServices, AfterProfile, AfterRDP, RuleDone
<1> QED
  BY <1>3, <1>5 DEF WindowsInv

\* powerStep.
LEMMA PowerKeeps == WindowsInv /\ (Power \/ PowerFails \/ PowerDone) => WindowsInv'
<1> SUFFICES ASSUME WindowsInv, Power \/ PowerFails \/ PowerDone PROVE WindowsInv'
  OBVIOUS
<1>1. /\ pc = "power" /\ pc' \in {"power", "done"} /\ exit' = exit /\ cfg' = cfg
      /\ DOMAIN outcome' = StepNames
      /\ \A t \in StepNames : t # "power" => outcome'[t] = outcome[t]
      /\ UNCHANGED <<forced, auto, running, profile, deny, regPort, rule, rulePort, rdpPort, silent>>
  BY DEF WindowsInv, RunOK, Power, PowerFails, PowerDone, Report, Works, Breaks, StepNames, windowsVars, hostVars
<1>2. at \in Nat \ {0} /\ awake \subseteq TimeoutSet /\ exit # "ok" /\ Len(Timeouts) \in Nat
      /\ \A j \in 1 .. Len(Timeouts) : j < at => Timeouts[j] \in awake
  BY <1>1, WindowsLists DEF WindowsInv, RunOK, WindowsTypes, AwakeSoFar
<1>3. /\ at' \in Nat \ {0} /\ awake' \subseteq TimeoutSet
      /\ pc' = "power" => \A j \in 1 .. Len(Timeouts) : j < at' => Timeouts[j] \in awake'
      /\ pc' = "done" => Holds("power", TimeoutSet \subseteq awake)'
  <2>1. CASE Power
    <3>1. /\ at <= Len(Timeouts) /\ at' = at + 1 /\ pc' = pc
          /\ awake \subseteq awake' /\ Timeouts[at] \in awake' /\ awake' \subseteq awake \cup {Timeouts[at]}
      BY <2>1 DEF Power
    <3>2. Timeouts[at] \in TimeoutSet
      BY <1>2, <3>1 DEF TimeoutSet
    <3> QED
      BY <1>1, <1>2, <3>1, <3>2
  <2>2. CASE PowerFails
    <3>1. pc' = "done" /\ outcome'["power"] = "failed" /\ at' = at /\ awake' = awake
      BY <2>2 DEF PowerFails, Report, WindowsInv, RunOK, StepNames, windowsVars, hostVars
    <3> QED
      BY <1>2, <3>1 DEF Holds, Succeeded
  <2>3. CASE PowerDone
    <3>1. /\ at > Len(Timeouts) /\ pc' = "done" /\ outcome'["power"] = Worst("power", "ok")
          /\ at' = at /\ awake' = awake
      BY <2>3 DEF PowerDone, Report, WindowsInv, RunOK, StepNames, windowsVars, hostVars
    <3>2. outcome'["power"] \in {"ok", "changed", "failed"}
      BY <3>1 DEF Worst
    <3>3. TimeoutSet \subseteq awake'
      BY <1>2, <3>1 DEF TimeoutSet
    <3> QED
      BY <1>2, <3>1, <3>2, <3>3 DEF Holds, Succeeded
  <2> QED
    BY <2>1, <2>2, <2>3
<1>4. RunOK' /\ WindowsTypes' /\ ServedSoFar' /\ AwakeSoFar'
  BY <1>1, <1>2, <1>3 DEF WindowsInv, RunOK, WindowsTypes, WindowsPoints, AfterUnattended, ServedSoFar, AwakeSoFar
<1>5. ListenerDeclared' = ListenerDeclared
  BY <1>1 DEF ListenerDeclared
<1>6. WindowsSteps'
  BY <1>1, <1>2, <1>3, <1>5 DEF WindowsInv, WindowsSteps, Past, Holds, StepNames, Outcomes, ServiceSet,
      AfterUnattended, AfterServices, AfterProfile, AfterRDP, RuleDone
<1> QED
  BY <1>4, <1>6 DEF WindowsInv

\* The run begins, ends, or is killed.
LEMMA WindowsFrame ==
    ASSUME WindowsInv, Begin("unattended") \/ Finish \/ Killed, UNCHANGED windowsVars
    PROVE  WindowsInv'
<1>0. /\ UNCHANGED <<forced, auto, running, profile, deny, regPort, rule, rulePort, awake, at, rdpPort, silent, cfg>>
      /\ ListenerDeclared' = ListenerDeclared
  BY DEF windowsVars, hostVars, Begin, Finish, Killed, ListenerDeclared
<1>1. CASE Finish
  <2>1. pc = "done" /\ pc' = "off" /\ outcome' = outcome /\ exit' \in {"ok", "failed"} /\ exit # "ok"
    BY <1>1 DEF Finish, setupConvergence, WindowsInv, RunOK
  <2>2. RunOK' /\ WindowsTypes' /\ ServedSoFar' /\ AwakeSoFar'
    BY <1>0, <2>1 DEF WindowsInv, RunOK, WindowsTypes, WindowsPoints, ServedSoFar, AwakeSoFar
  <2>3. WindowsSteps'
    BY <1>0, <2>1 DEF WindowsInv, WindowsSteps, Past, Holds, ServiceSet,
        AfterUnattended, AfterServices, AfterProfile, AfterRDP, RuleDone
  <2> QED
    BY <2>2, <2>3 DEF WindowsInv
<1>2. CASE Begin("unattended") \/ Killed
  <2>1. pc' \in {"off", "unattended"} /\ exit' \in {"none", "killed"} /\ outcome' = NoSteps
    BY <1>2 DEF Begin, Killed
  <2>2. RunOK' /\ WindowsTypes' /\ ServedSoFar' /\ AwakeSoFar'
    BY <1>0, <2>1 DEF WindowsInv, RunOK, WindowsTypes, WindowsPoints, ServedSoFar, AwakeSoFar, NoSteps
  <2>3. WindowsSteps'
    BY <2>1 DEF WindowsSteps, Past, AfterUnattended, AfterServices, AfterProfile, AfterRDP, RuleDone
  <2> QED
    BY <2>2, <2>3 DEF WindowsInv
<1> QED
  BY <1>1, <1>2

\* A converged Windows host is declared, and another run leaves it alone.
LEMMA WindowsConverged ==
    ASSUME goos = "windows", WindowsInv, Converged
    PROVE  /\ forced /\ ServiceSet \subseteq auto \cap running
           /\ cfg.noSleep \/ TimeoutSet \subseteq awake
           /\ ~silent => /\ profile = "private" /\ ~Denied(deny)
                         /\ rule = "good" /\ rulePort = regPort
                         /\ cfg.declared \in {"undeclared", regPort}
<1>1. exit = "ok" /\ \A s \in StepNames : outcome[s] # "none" => Succeeded(outcome[s])
  BY DEF Converged, Reported
<1> QED
  BY <1>1 DEF WindowsInv, WindowsSteps, Past, Holds, StepNames, ListenerDeclared

----------------------------------------------------------------------------
(***************************************************************************)
(* Rules: what the walks over a chain find.  An induction over the length  *)
(* is a least counterexample (LeastExists).                                *)
(***************************************************************************)
\* A set of naturals that is not empty has a least element.
LEMMA LeastExists ==
    ASSUME NEW T, T \subseteq Nat, T # {}
    PROVE  \E i \in T : \A j \in Nat : j < i => j \notin T
<1>1. PICK R : R = OpToRel(<, Nat)
  OBVIOUS
<1>2. IsWellFoundedOn(R, Nat)
  BY <1>1, NatLessThanWellFounded
<1>3. PICK x \in T : \A y \in T : ~(<<y, x>> \in R)
  BY <1>2, WFMin
<1>4. \A a, b \in Nat : a < b => <<a, b>> \in R
  BY <1>1 DEF OpToRel
<1> QED
  BY <1>3, <1>4

\* SelectInSeq finds the first index.
LEMMA MinIsLeast ==
    ASSUME NEW I, I \subseteq Nat, I # {}
    PROVE  Min(I) \in I /\ \A j \in I : Min(I) <= j
<1>1. PICK i \in I : \A j \in Nat : j < i => j \notin I
  BY LeastExists
<1>2. \A j \in I : i <= j
  BY <1>1
<1> QED
  BY <1>1, <1>2 DEF Min

\* r is an element of s.
In(r, s) == \E i \in 1 .. Len(s) : s[i] = r

\* The sequence of two sequences.
LEMMA ConcatFacts ==
    ASSUME NEW S, NEW a \in Seq(S), NEW b \in Seq(S)
    PROVE  /\ a \o b \in Seq(S) /\ Len(a \o b) = Len(a) + Len(b)
           /\ \A k \in 1 .. Len(a) + Len(b) : (a \o b)[k] = IF k <= Len(a) THEN a[k] ELSE b[k - Len(a)]
  OBVIOUS

\* The elements of two sequences.
LEMMA InConcat ==
    ASSUME NEW S, NEW a \in Seq(S), NEW b \in Seq(S), NEW r
    PROVE  a \o b \in Seq(S) /\ (In(r, a \o b) <=> In(r, a) \/ In(r, b))
<1>1. a \o b \in Seq(S) /\ Len(a \o b) = Len(a) + Len(b) /\ Len(a) \in Nat /\ Len(b) \in Nat
  OBVIOUS
<1>2. ASSUME In(r, a) PROVE In(r, a \o b)
  BY <1>1, <1>2 DEF In
<1>3. ASSUME In(r, b) PROVE In(r, a \o b)
  <2>1. PICK k \in 1 .. Len(b) : b[k] = r
    BY <1>3 DEF In
  <2>2. (a \o b)[Len(a) + k] = r /\ Len(a) + k \in 1 .. Len(a \o b)
    BY <1>1, <2>1
  <2> QED
    BY <2>2 DEF In
<1>4. ASSUME In(r, a \o b) PROVE In(r, a) \/ In(r, b)
  <2>1. PICK k \in 1 .. Len(a \o b) : (a \o b)[k] = r
    BY <1>4 DEF In
  <2>2. CASE k <= Len(a)
    BY <1>1, <2>1, <2>2 DEF In
  <2>3. CASE k > Len(a)
    <3>1. k - Len(a) \in 1 .. Len(b) /\ b[k - Len(a)] = r
      BY <1>1, <2>1, <2>3
    <3> QED
      BY <3>1 DEF In
  <2> QED
    BY <1>1, <2>1, <2>2, <2>3
<1> QED
  BY <1>1, <1>2, <1>3, <1>4

\* The function FlattenSeq recurs with, up to n.
Flattens(f, n, s) == f = [i \in 1 .. n |-> IF i = 1 THEN s[i] ELSE f[i - 1] \o s[i]]

\* There is such a function, for every length: the least length without one
\* would extend the one before.
LEMMA FlattenDefined ==
    ASSUME NEW s, NEW n \in Nat, n > 0
    PROVE  \E f : Flattens(f, n, s)
<1> SUFFICES ASSUME \A f : ~Flattens(f, n, s) PROVE FALSE
  OBVIOUS
<1>1. PICK T : T = {k \in Nat : k > 0 /\ \A f : ~Flattens(f, k, s)}
  OBVIOUS
<1>2. PICK m \in T : \A j \in Nat : j < m => j \notin T
  BY <1>1, LeastExists
<1>3. m \in Nat /\ m > 0 /\ \A f : ~Flattens(f, m, s)
  BY <1>1, <1>2
<1>4. CASE m = 1
  <2>1. PICK f : f = [i \in 1 .. 1 |-> s[i]]
    OBVIOUS
  <2>2. f = [i \in 1 .. 1 |-> IF i = 1 THEN s[i] ELSE f[i - 1] \o s[i]]
    BY <2>1
  <2> QED
    BY <1>3, <1>4, <2>2 DEF Flattens
<1>5. CASE m > 1
  <2>1. m - 1 \in Nat /\ m - 1 < m /\ m - 1 > 0
    BY <1>3, <1>5
  <2>2. PICK g : Flattens(g, m - 1, s)
    BY <1>1, <1>2, <2>1
  <2>3. PICK c : c = g[m - 1] \o s[m]
    OBVIOUS
  <2>4. PICK f : f = [i \in 1 .. m |-> IF i = m THEN c ELSE g[i]]
    OBVIOUS
  <2>4a. f[m] = c /\ \A i \in 1 .. m - 1 : f[i] = g[i]
    BY <1>3, <2>4
  <2>4b. \A i \in 1 .. m - 1 : g[i] = IF i = 1 THEN s[i] ELSE g[i - 1] \o s[i]
    <3>1. g = [i \in 1 .. m - 1 |-> IF i = 1 THEN s[i] ELSE g[i - 1] \o s[i]]
      BY <2>2 DEF Flattens
    <3> QED
      BY <3>1, Zenon
  <2>5. \A i \in 1 .. m : f[i] = IF i = 1 THEN s[i] ELSE f[i - 1] \o s[i]
    <3> SUFFICES ASSUME NEW i \in 1 .. m PROVE f[i] = IF i = 1 THEN s[i] ELSE f[i - 1] \o s[i]
      OBVIOUS
    <3>1. CASE i = m
      <4>1. m - 1 \in 1 .. m - 1 /\ i # 1
        BY <1>3, <1>5, <3>1
      <4>2. f[i] = c /\ f[i - 1] = g[i - 1]
        BY <2>4a, <3>1, <4>1
      <4> QED
        BY <2>3, <3>1, <4>1, <4>2, Zenon
    <3>2. CASE i # m /\ i # 1
      <4>1. i \in 1 .. m - 1 /\ i - 1 \in 1 .. m - 1
        BY <1>3, <3>2
      <4>2. f[i] = g[i - 1] \o s[i] /\ f[i - 1] = g[i - 1]
        BY <2>4a, <2>4b, <3>2, <4>1
      <4> QED
        BY <3>2, <4>2
    <3>3. CASE i = 1
      BY <1>3, <1>5, <2>4a, <2>4b, <3>3
    <3> QED
      BY <3>1, <3>2, <3>3
  <2>6. f = [i \in 1 .. m |-> IF i = 1 THEN s[i] ELSE f[i - 1] \o s[i]]
    BY <2>4, <2>5
  <2> QED
    BY <1>3, <2>6 DEF Flattens
<1> QED
  BY <1>3, <1>4, <1>5

\* It puts the elements of the sequences together, and nothing else.
LEMMA FlattenHolds ==
    ASSUME NEW S, NEW s \in Seq(Seq(S)), NEW f, Len(s) > 0, Flattens(f, Len(s), s), NEW n \in 1 .. Len(s)
    PROVE  f[n] \in Seq(S) /\ \A r : In(r, f[n]) <=> \E i \in 1 .. n : In(r, s[i])
<1>1. PICK T : T = {k \in 1 .. Len(s) : ~(f[k] \in Seq(S) /\ \A r : In(r, f[k]) <=> \E i \in 1 .. k : In(r, s[i]))}
  OBVIOUS
<1> SUFFICES ASSUME T # {} PROVE FALSE
  BY <1>1
<1>2. T \subseteq Nat
  BY <1>1
<1>3. PICK m \in T : \A j \in Nat : j < m => j \notin T
  BY <1>2, LeastExists
<1>4. m \in 1 .. Len(s) /\ Len(s) \in Nat /\ s[m] \in Seq(S)
  BY <1>1, <1>3
<1>5. f[m] = IF m = 1 THEN s[m] ELSE f[m - 1] \o s[m]
  BY <1>4 DEF Flattens
<1>6. CASE m = 1
  <2>1. \A r : In(r, s[1]) <=> \E i \in 1 .. 1 : In(r, s[i])
    OBVIOUS
  <2> QED
    BY <1>1, <1>3, <1>4, <1>5, <1>6, <2>1
<1>7. CASE m # 1
  <2>1. m - 1 \in 1 .. Len(s) /\ m - 1 \in Nat /\ m - 1 < m
    BY <1>4, <1>7
  <2>2. f[m - 1] \in Seq(S) /\ \A r : In(r, f[m - 1]) <=> \E i \in 1 .. m - 1 : In(r, s[i])
    BY <1>1, <1>3, <2>1
  <2>3. f[m] = f[m - 1] \o s[m]
    BY <1>5, <1>7
  <2>4. f[m] \in Seq(S)
    BY <1>4, <2>2, <2>3
  <2>5. ASSUME NEW r PROVE In(r, f[m]) <=> \E i \in 1 .. m : In(r, s[i])
    <3>1. In(r, f[m]) <=> In(r, f[m - 1]) \/ In(r, s[m])
      BY <1>4, <2>2, <2>3, InConcat
    <3>2. \A i \in 1 .. m : i = m \/ i \in 1 .. m - 1
      BY <1>4
    <3>3. \A i \in 1 .. m - 1 : i \in 1 .. m
      BY <1>4
    <3>4. m \in 1 .. m
      BY <1>4
    <3> QED
      BY <2>2, <3>1, <3>2, <3>3, <3>4
  <2> QED
    BY <1>1, <1>3, <2>4, <2>5
<1> QED
  BY <1>6, <1>7

\* So does FlattenSeq, with which iptInlineChain walks ts-input in place of its jump.
LEMMA FlattenFacts ==
    ASSUME NEW S, NEW s \in Seq(Seq(S))
    PROVE  /\ FlattenSeq(s) \in Seq(S)
           /\ \A r : In(r, FlattenSeq(s)) <=> \E i \in 1 .. Len(s) : In(r, s[i])
<1>1. CASE Len(s) = 0
  <2>1. s = <<>>
    BY <1>1
  <2>2. FlattenSeq(s) = <<>>
    BY <1>1, <2>1 DEF FlattenSeq
  <2> QED
    BY <1>1, <2>2 DEF In
<1>2. CASE Len(s) > 0
  <2>1. PICK f : f = CHOOSE x : x = [i \in 1 .. Len(s) |-> IF i = 1 THEN s[i] ELSE x[i - 1] \o s[i]]
    OBVIOUS
  <2>2. \E x : x = [i \in 1 .. Len(s) |-> IF i = 1 THEN s[i] ELSE x[i - 1] \o s[i]]
    <3>1. Len(s) \in Nat
      OBVIOUS
    <3> QED
      BY <1>2, <3>1, FlattenDefined DEF Flattens
  <2>3. f = [i \in 1 .. Len(s) |-> IF i = 1 THEN s[i] ELSE f[i - 1] \o s[i]]
    BY <2>1, <2>2, Zenon
  <2>4. FlattenSeq(s) = f[Len(s)]
    BY <1>2, <2>1 DEF FlattenSeq
  <2>5. Flattens(f, Len(s), s)
    BY <2>3, Zenon DEF Flattens
  <2>6. Len(s) \in 1 .. Len(s)
    BY <1>2
  <2>7. f[Len(s)] \in Seq(S) /\ \A r : In(r, f[Len(s)]) <=> \E i \in 1 .. Len(s) : In(r, s[i])
    BY <1>2, <2>5, <2>6, FlattenHolds, ZenonT(60)
  <2> QED
    BY <2>4, <2>7
<1> QED
  BY <1>1, <1>2

\* What a walk answers: absent exactly when no rule settles it.
LEMMA AnswerFacts ==
    ASSUME NEW rules \in Seq(Rule), NEW I, I \subseteq 1 .. Len(rules), NEW a,
           a = Answer(rules, IF I # {} THEN Min(I) ELSE 0)
    PROVE  a \in {"absent", "present", "blocked"} /\ (a = "absent" <=> I = {})
<1>1. CASE I = {}
  BY <1>1 DEF Answer
<1>2. CASE I # {}
  <2>1. I \subseteq Nat
    OBVIOUS
  <2>2. Min(I) \in 1 .. Len(rules)
    BY <1>2, <2>1, MinIsLeast
  <2>3. PICK i : i = Min(I) /\ i \in 1 .. Len(rules)
    BY <2>2
  <2>4. i # 0 /\ i > 0
    BY <2>3
  <2>5. a = IF rules[i].target = "ACCEPT" THEN "present" ELSE "blocked"
    BY <1>2, <2>3, <2>4 DEF Answer
  <2> QED
    BY <1>2, <2>5
<1> QED
  BY <1>1, <1>2

\* The three walks: iptablesDecide, the scoped one of iptUnscopedRead, and ufw's.
LEMMA DecideFacts ==
    ASSUME NEW rules \in Seq(Rule)
    PROVE  /\ iptablesDecide(rules) \in {"absent", "present", "blocked"}
           /\ iptablesDecide(rules) = "absent" <=> ~\E i \in 1 .. Len(rules) : Decides(rules[i])
           /\ Answer(rules, SelectInSeq(rules, DecidesTailnet)) = "present" =>
                \E i \in 1 .. Len(rules) : DecidesTailnet(rules[i])
           /\ ufwDecide(rules) \in {"absent", "present", "blocked"}
           /\ ufwDecide(rules) = "absent" <=> ~\E i \in 1 .. Len(rules) : ufwDecides(rules[i])
<1>1. PICK D : D = {i \in 1 .. Len(rules) : Decides(rules[i])}
  OBVIOUS
<1>2. iptablesDecide(rules) = Answer(rules, IF D # {} THEN Min(D) ELSE 0)
  BY <1>1 DEF iptablesDecide, SelectInSeq
<1>3. iptablesDecide(rules) \in {"absent", "present", "blocked"} /\ (iptablesDecide(rules) = "absent" <=> D = {})
  BY <1>1, <1>2, AnswerFacts
<1>4. PICK U : U = {i \in 1 .. Len(rules) : ufwDecides(rules[i])}
  OBVIOUS
<1>5. ufwDecide(rules) = Answer(rules, IF U # {} THEN Min(U) ELSE 0)
  BY <1>4 DEF ufwDecide, SelectInSeq
<1>6. ufwDecide(rules) \in {"absent", "present", "blocked"} /\ (ufwDecide(rules) = "absent" <=> U = {})
  BY <1>4, <1>5, AnswerFacts
<1>7. PICK T : T = {i \in 1 .. Len(rules) : DecidesTailnet(rules[i])}
  OBVIOUS
<1>8. PICK a : a = Answer(rules, SelectInSeq(rules, DecidesTailnet))
  OBVIOUS
<1>9. a = Answer(rules, IF T # {} THEN Min(T) ELSE 0)
  BY <1>7, <1>8 DEF SelectInSeq
<1>10. a = "absent" <=> T = {}
  BY <1>7, <1>9, AnswerFacts
<1>11. a = "present" => \E i \in 1 .. Len(rules) : DecidesTailnet(rules[i])
  BY <1>7, <1>10
<1>12. D = {} <=> ~\E i \in 1 .. Len(rules) : Decides(rules[i])
  BY <1>1
<1>13. U = {} <=> ~\E i \in 1 .. Len(rules) : ufwDecides(rules[i])
  BY <1>4
<1> QED
  BY <1>3, <1>6, <1>8, <1>11, <1>12, <1>13

\* What a rule of INPUT puts in the walk: itself, or ts-input's rules.
Yields(x, chain, r) == IF x.target = "tsInput" THEN In(r, chain) ELSE x = r

\* iptInlineChain.
LEMMA InlineFacts ==
    ASSUME NEW cut \in Seq(Rule), NEW chain \in Seq(Rule)
    PROVE  /\ iptInlineChain(cut, chain) \in Seq(Rule)
           /\ \A r : In(r, iptInlineChain(cut, chain)) <=> \E i \in 1 .. Len(cut) : Yields(cut[i], chain, r)
<1>1. PICK s : s = [i \in 1 .. Len(cut) |-> IF cut[i].target = "tsInput" THEN chain ELSE <<cut[i]>>]
  OBVIOUS
<1>2. \A i \in 1 .. Len(cut) : cut[i] \in Rule /\ <<cut[i]>> \in Seq(Rule)
  OBVIOUS
<1>3. s \in Seq(Seq(Rule)) /\ Len(s) = Len(cut)
  <2>1. s \in [1 .. Len(cut) -> Seq(Rule)]
    BY <1>1, <1>2
  <2> QED
    BY <2>1
<1>4. iptInlineChain(cut, chain) = FlattenSeq(s)
  BY <1>1 DEF iptInlineChain
<1>5. FlattenSeq(s) \in Seq(Rule) /\ \A r : In(r, FlattenSeq(s)) <=> \E i \in 1 .. Len(s) : In(r, s[i])
  BY <1>3, FlattenFacts
<1>6. ASSUME NEW r, NEW i \in 1 .. Len(cut)
      PROVE  In(r, s[i]) <=> Yields(cut[i], chain, r)
  <2>1. CASE cut[i].target = "tsInput"
    BY <1>1, <2>1 DEF Yields
  <2>2. CASE cut[i].target # "tsInput"
    <3>1. s[i] = <<cut[i]>>
      BY <1>1, <2>2
    <3> QED
      BY <2>2, <3>1 DEF In, Yields
  <2> QED
    BY <2>1, <2>2
<1> QED
  BY <1>3, <1>4, <1>5, <1>6

\* INPUT jumps to ts-input under a condition.
HasJump(rules) == \E i \in 1 .. Len(rules) : QualifiedJump(rules[i])

\* iptBeforeQualifiedJump cuts INPUT exactly when there is such a jump.
LEMMA CutFacts ==
    ASSUME NEW rules \in Seq(Rule)
    PROVE  /\ iptBeforeQualifiedJump(rules) \in Seq(Rule)
           /\ HasJump(rules) <=> iptBeforeQualifiedJump(rules) # rules
<1>1. PICK I : I = {i \in 1 .. Len(rules) : QualifiedJump(rules[i])}
  OBVIOUS
<1>2. PICK i : i = IF I # {} THEN Min(I) ELSE 0
  OBVIOUS
<1>3. PICK cut : cut = iptBeforeQualifiedJump(rules)
  OBVIOUS
<1>4. cut = IF i = 0 THEN rules ELSE SubSeq(rules, 1, i - 1)
  BY <1>1, <1>2, <1>3 DEF iptBeforeQualifiedJump, SelectInSeq
<1>5. CASE I = {}
  BY <1>1, <1>2, <1>3, <1>4, <1>5 DEF HasJump
<1>6. CASE I # {}
  <2>1. I \subseteq Nat
    BY <1>1
  <2>2. i \in 1 .. Len(rules)
    BY <1>1, <1>2, <1>6, <2>1, MinIsLeast
  <2>3. cut = SubSeq(rules, 1, i - 1) /\ i - 1 \in 0 .. Len(rules)
    BY <1>4, <2>2
  <2>4. cut \in Seq(Rule) /\ Len(cut) = i - 1
    BY <2>3
  <2>5. cut # rules
    BY <2>2, <2>4
  <2>6. HasJump(rules)
    BY <1>1, <1>6 DEF HasJump
  <2> QED
    BY <1>3, <2>4, <2>5, <2>6
<1> QED
  BY <1>5, <1>6

\* The only rule marked as setup's own is the one setup wrote.
OwnIsLegacy(rules) == \A i \in 1 .. Len(rules) : rules[i].own => rules[i] = iptablesLegacy

\* A rule of the operator's opens the port to every interface.
Foreign(rules) == \E i \in 1 .. Len(rules) : iptUnscoped(rules[i]) /\ ~rules[i].own

\* A rule that settles the read stays when setup's own copies go.
Kept(rules, chain) ==
    \E i \in 1 .. Len(rules) :
        IF rules[i].target = "tsInput" THEN \E k \in 1 .. Len(chain) : Decides(chain[k])
        ELSE Decides(rules[i]) /\ ~rules[i].own

\* The number of copies, and when it is zero.
LEMMA CopiesFacts ==
    ASSUME NEW rules \in Seq(Rule)
    PROVE  /\ IsFiniteSet({i \in 1 .. Len(rules) : rules[i].own})
           /\ iptLegacyCopies(rules) \in Nat
           /\ iptLegacyCopies(rules) = 0 <=> \A i \in 1 .. Len(rules) : ~rules[i].own
<1>1. PICK O : O = {i \in 1 .. Len(rules) : rules[i].own}
  OBVIOUS
<1>2. 1 \in Int /\ Len(rules) \in Int
  OBVIOUS
<1>3. IsFiniteSet(1 .. Len(rules))
  BY <1>2, FS_Interval
<1>4. O \in SUBSET (1 .. Len(rules))
  BY <1>1
<1>5. IsFiniteSet(O)
  BY <1>3, <1>4, FS_Subset
<1>6. Cardinality(O) \in Nat /\ (Cardinality(O) = 0 <=> O = {})
  BY <1>5, FS_CardinalityType, FS_EmptySet
<1> QED
  BY <1>1, <1>5, <1>6 DEF iptLegacyCopies

\* What readIptables tells of INPUT.
ReadOK(r, rules, chain) ==
    /\ r.state \in {"present", "absent", "blocked", "unknown"}
    /\ r.state = "unknown" => r.copies = 0 /\ ~r.foreign
    /\ r.state # "unknown" => r.copies = iptLegacyCopies(rules) /\ (r.foreign <=> Foreign(rules))
    /\ r.state = "absent" => ~HasJump(rules) /\ r.copies = 0 /\ ~r.foreign
    /\ r.scoped => r.state = "present" /\ (HasJump(rules) \/ Kept(rules, chain))
    /\ HasJump(rules) \/ Kept(rules, chain) => r.state # "absent"

\* readIptables, for every INPUT chain and every ts-input.
LEMMA ReadFacts ==
    ASSUME NEW rules \in Seq(Rule), NEW chain \in Seq(Rule), OwnIsLegacy(rules), NEW hidden
    PROVE  ReadOK(readIptables(rules, chain, hidden), rules, chain)
<1>1. PICK r : r = readIptables(rules, chain, hidden)
  OBVIOUS
<1>2. PICK cut : cut = iptBeforeQualifiedJump(rules)
  OBVIOUS
<1>3. PICK walk : walk = iptInlineChain(cut, chain)
  OBVIOUS
<1>3a. PICK bare : bare = WithoutUnscoped(cut)
  OBVIOUS
<1>3b. PICK rest : rest = iptInlineChain(bare, chain)
  OBVIOUS
<1>4. PICK answer : answer = iptablesDecide(walk)
  OBVIOUS
<1>5. PICK unread : unread = (answer = "absent" /\ (cut # rules \/ (~(\E i \in 1 .. Len(cut) : cut[i].target = "tsInput") /\ hidden)))
  OBVIOUS
<1>6. r = IF unread THEN Unread
          ELSE [state |-> answer, copies |-> iptLegacyCopies(rules), foreign |-> Foreign(rules),
                scoped |-> answer = "present" /\ Answer(rest, SelectInSeq(rest, DecidesTailnet)) = "present"]
  BY <1>1, <1>2, <1>3, <1>3a, <1>3b, <1>4, <1>5 DEF readIptables, Foreign
<1>7. cut \in Seq(Rule) /\ (HasJump(rules) <=> cut # rules)
  BY <1>2, CutFacts
<1>8. walk \in Seq(Rule) /\ \A x : In(x, walk) <=> \E i \in 1 .. Len(cut) : Yields(cut[i], chain, x)
  BY <1>3, <1>7, InlineFacts
<1>9. /\ answer \in {"absent", "present", "blocked"}
      /\ answer = "absent" <=> ~\E i \in 1 .. Len(walk) : Decides(walk[i])
  BY <1>4, <1>8, DecideFacts
<1>10. ASSUME ~HasJump(rules), Kept(rules, chain) PROVE answer # "absent"
  <2>1. PICK i \in 1 .. Len(rules) : 
          IF rules[i].target = "tsInput" THEN \E k \in 1 .. Len(chain) : Decides(chain[k])
          ELSE Decides(rules[i]) /\ ~rules[i].own
    BY <1>10 DEF Kept
  <2>2. \E x : Yields(rules[i], chain, x) /\ Decides(x)
    BY <2>1 DEF Yields, In
  <2>3. \E x : In(x, walk) /\ Decides(x)
    BY <1>7, <1>8, <1>10, <2>2
  <2> QED
    BY <1>9, <2>3 DEF In
<1>11. ASSUME answer = "absent", ~HasJump(rules)
       PROVE  iptLegacyCopies(rules) = 0 /\ ~Foreign(rules)
  <2>1. \A i \in 1 .. Len(rules) : rules[i].target # "tsInput" => ~Decides(rules[i])
    <3> SUFFICES ASSUME NEW i \in 1 .. Len(rules), rules[i].target # "tsInput" PROVE ~Decides(rules[i])
      OBVIOUS
    <3>1. Yields(rules[i], chain, rules[i])
      BY DEF Yields
    <3>2. In(rules[i], walk)
      BY <1>7, <1>8, <1>11, <3>1
    <3> QED
      BY <1>9, <1>11, <3>2 DEF In
  <2>2. \A i \in 1 .. Len(rules) : ~rules[i].own
    BY <2>1 DEF OwnIsLegacy, iptablesLegacy, Accept, Decides, iptMatchesPort
  <2>3. \A i \in 1 .. Len(rules) : ~iptUnscoped(rules[i])
    BY <2>1 DEF iptUnscoped, Decides, iptMatchesPort, iptPortCovers
  <2> QED
    BY <2>2, <2>3, CopiesFacts DEF Foreign
<1>12. ASSUME Answer(rest, SelectInSeq(rest, DecidesTailnet)) = "present", ~HasJump(rules)
       PROVE  Kept(rules, chain)
  <2>0. /\ bare \in Seq(Rule) /\ Len(bare) = Len(rules)
        /\ \A i \in 1 .. Len(rules) :
             bare[i] = IF iptUnscoped(rules[i]) THEN Accept("nothing", "none") ELSE rules[i]
    <3>1. bare = [i \in 1 .. Len(rules) |-> IF iptUnscoped(rules[i]) THEN Accept("nothing", "none") ELSE rules[i]]
      BY <1>3a, <1>7, <1>12 DEF WithoutUnscoped
    <3>2. Accept("nothing", "none") \in Rule
      BY DEF Accept, Rule, Targets, Matches, Scopes
    <3>3. bare \in [1 .. Len(rules) -> Rule]
      BY <3>1, <3>2
    <3> QED
      BY <3>1, <3>3
  <2>0a. rest \in Seq(Rule) /\ \A x : In(x, rest) <=> \E i \in 1 .. Len(bare) : Yields(bare[i], chain, x)
    BY <1>3b, <2>0, InlineFacts
  <2>1. PICK x : In(x, rest) /\ DecidesTailnet(x)
    BY <1>12, <2>0a, DecideFacts DEF In
  <2>2. PICK i \in 1 .. Len(rules) : Yields(bare[i], chain, x)
    BY <2>0, <2>0a, <2>1
  <2>3. CASE bare[i].target = "tsInput"
    <3>1. rules[i].target = "tsInput"
      BY <2>0, <2>3 DEF Accept
    <3> QED
      BY <2>1, <2>2, <2>3, <3>1 DEF Yields, In, Kept, DecidesTailnet
  <2>4. CASE bare[i].target # "tsInput"
    <3>1. Decides(bare[i])
      BY <2>1, <2>2, <2>4 DEF Yields, DecidesTailnet
    <3>2. ~iptUnscoped(rules[i]) /\ bare[i] = rules[i]
      BY <2>0, <3>1 DEF Accept, Decides, iptMatchesPort
    <3>3. ~rules[i].own
      BY <3>2 DEF OwnIsLegacy, iptablesLegacy, Accept, iptUnscoped, iptPortCovers
    <3> QED
      BY <2>4, <3>1, <3>2, <3>3 DEF Kept
  <2> QED
    BY <2>3, <2>4
<1>13. CASE unread
  <2>1. r.state = "unknown" /\ r.copies = 0 /\ r.foreign = FALSE /\ r.scoped = FALSE
    BY <1>6, <1>13 DEF Unread
  <2> QED
    BY <1>1, <2>1 DEF ReadOK
<1>14. CASE ~unread
  <2>1. /\ r.state = answer /\ r.copies = iptLegacyCopies(rules) /\ r.foreign = Foreign(rules)
        /\ r.scoped = (answer = "present" /\ Answer(rest, SelectInSeq(rest, DecidesTailnet)) = "present")
    BY <1>6, <1>14
  <2>2. answer = "absent" => ~HasJump(rules)
    BY <1>5, <1>7, <1>14
  <2>3. ReadOK(r, rules, chain)
    BY <1>9, <1>10, <1>11, <1>12, <2>1, <2>2 DEF ReadOK
  <2> QED
    BY <1>1, <2>3
<1> QED
  BY <1>13, <1>14

\* iptables -A: the scoped rule at the end of INPUT.
LEMMA AppendFacts ==
    ASSUME NEW rules \in Seq(Rule), NEW chain, OwnIsLegacy(rules), NEW new, new = Append(rules, iptablesAppend)
    PROVE  /\ new \in Seq(Rule) /\ OwnIsLegacy(new)
           /\ iptLegacyCopies(new) = iptLegacyCopies(rules)
           /\ Foreign(new) <=> Foreign(rules)
           /\ HasJump(new) <=> HasJump(rules)
           /\ Kept(new, chain)
<1>1. PICK n : n = Len(rules) /\ n \in Nat
  OBVIOUS
<1>2. /\ iptablesAppend \in Rule /\ iptablesAppend.own = FALSE /\ iptablesAppend.target = "ACCEPT"
      /\ Decides(iptablesAppend) /\ ~iptUnscoped(iptablesAppend) /\ ~QualifiedJump(iptablesAppend)
  BY DEF iptablesAppend, Accept, Rule, Targets, Matches, Scopes, Decides, iptMatchesPort, iptUnscoped, QualifiedJump
<1>3. /\ new \in Seq(Rule) /\ Len(new) = n + 1 /\ new[n + 1] = iptablesAppend
      /\ \A i \in 1 .. n : new[i] = rules[i]
  BY <1>1, <1>2
<1>4. \A i \in 1 .. n + 1 : i \in 1 .. n \/ i = n + 1
  BY <1>1
<1>5. \A i \in 1 .. n : i \in 1 .. n + 1
  BY <1>1
<1>6. {i \in 1 .. Len(new) : new[i].own} = {i \in 1 .. Len(rules) : rules[i].own}
  BY <1>1, <1>2, <1>3, <1>4, <1>5
<1>7. iptLegacyCopies(new) = iptLegacyCopies(rules)
  BY <1>6 DEF iptLegacyCopies
<1>8. OwnIsLegacy(new)
  BY <1>1, <1>2, <1>3, <1>4 DEF OwnIsLegacy
<1>9. Foreign(new) <=> Foreign(rules)
  BY <1>1, <1>2, <1>3, <1>4, <1>5 DEF Foreign
<1>10. HasJump(new) <=> HasJump(rules)
  BY <1>1, <1>2, <1>3, <1>4, <1>5 DEF HasJump
<1>11. n + 1 \in 1 .. n + 1
  BY <1>1
<1>12. Kept(new, chain)
  BY <1>2, <1>3, <1>11 DEF Kept
<1> QED
  BY <1>3, <1>7, <1>8, <1>9, <1>10, <1>12

\* iptables -D: the first copy goes, and every other rule stays.
LEMMA RemoveFacts ==
    ASSUME NEW rules \in Seq(Rule), NEW chain, OwnIsLegacy(rules), NEW new,
           new = RemoveFirstMatch(rules, LAMBDA r : r.own), iptLegacyCopies(rules) > 0
    PROVE  /\ new \in Seq(Rule) /\ OwnIsLegacy(new)
           /\ iptLegacyCopies(new) = iptLegacyCopies(rules) - 1
           /\ Foreign(new) <=> Foreign(rules)
           /\ HasJump(rules) => HasJump(new)
           /\ Kept(rules, chain) => Kept(new, chain)
<1>1. PICK n : n = Len(rules) /\ n \in Nat
  OBVIOUS
<1>2. PICK O : O = {i \in 1 .. n : rules[i].own}
  OBVIOUS
<1>3. IsFiniteSet(O) /\ iptLegacyCopies(rules) = Cardinality(O) /\ Cardinality(O) \in Nat /\ O # {}
  <2>1. IsFiniteSet(O) /\ iptLegacyCopies(rules) = Cardinality(O) /\ iptLegacyCopies(rules) \in Nat
    BY <1>1, <1>2, CopiesFacts DEF iptLegacyCopies
  <2> QED
    BY <2>1, FS_EmptySet
<1>4. PICK p : p = Min(O)
  OBVIOUS
<1>5. O \subseteq Nat
  BY <1>2
<1>6. p \in O /\ p \in 1 .. n /\ rules[p].own /\ \A j \in O : p <= j
  BY <1>2, <1>3, <1>4, <1>5, MinIsLeast
<1>7. new = SubSeq(rules, 1, p - 1) \o SubSeq(rules, p + 1, n)
  <2>1. \E i \in 1 .. Len(rules) : rules[i].own
    BY <1>1, <1>6
  <2>2. SelectInSeq(rules, LAMBDA r : r.own) = p
    BY <1>1, <1>2, <1>3, <1>4 DEF SelectInSeq
  <2> QED
    BY <1>1, <2>1, <2>2 DEF RemoveFirstMatch, RemoveAt
<1>8. /\ new \in Seq(Rule) /\ Len(new) = n - 1
      /\ \A i \in 1 .. n - 1 : new[i] = IF i < p THEN rules[i] ELSE rules[i + 1]
  <2>1. PICK a : a = SubSeq(rules, 1, p - 1)
    OBVIOUS
  <2>2. PICK b : b = SubSeq(rules, p + 1, n)
    OBVIOUS
  <2>3. p \in Nat /\ 1 <= p /\ p <= n
    BY <1>1, <1>6
  <2>4. a \in Seq(Rule) /\ Len(a) = p - 1 /\ \A i \in 1 .. p - 1 : a[i] = rules[i]
    BY <1>1, <2>1, <2>3
  <2>5. b \in Seq(Rule) /\ Len(b) = n - p /\ \A i \in 1 .. n - p : b[i] = rules[p + i]
    BY <1>1, <2>2, <2>3
  <2>6. new = a \o b
    BY <1>7, <2>1, <2>2
  <2>7. new \in Seq(Rule) /\ Len(new) = n - 1
    <3>1. new \in Seq(Rule) /\ Len(new) = Len(a) + Len(b)
      BY <2>4, <2>5, <2>6, ConcatFacts
    <3> QED
      BY <1>1, <2>3, <2>4, <2>5, <3>1
  <2>7a. \A k \in 1 .. Len(a) + Len(b) : new[k] = IF k <= Len(a) THEN a[k] ELSE b[k - Len(a)]
    BY <2>4, <2>5, <2>6, ConcatFacts
  <2>8. ASSUME NEW i \in 1 .. n - 1 PROVE new[i] = IF i < p THEN rules[i] ELSE rules[i + 1]
    <3>1. CASE i < p
      BY <2>3, <2>4, <2>5, <2>6, <3>1
    <3>2. CASE ~(i < p)
      <4>1. i - (p - 1) \in 1 .. n - p /\ i > Len(a) /\ i <= Len(a) + Len(b)
        BY <1>1, <2>3, <2>4, <2>5, <3>2
      <4>2. new[i] = b[i - (p - 1)]
        <5>1. i \in 1 .. Len(a) + Len(b) /\ ~(i <= Len(a))
          BY <1>1, <2>3, <2>4, <2>5, <4>1
        <5> QED
          BY <2>4, <2>7a, <5>1
      <4>3. p + (i - (p - 1)) = i + 1
        BY <2>3
      <4> QED
        BY <2>5, <3>2, <4>1, <4>2, <4>3
    <3> QED
      BY <3>1, <3>2
  <2> QED
    BY <2>7, <2>8
<1>9. \A i \in 1 .. n : i # p => \E j \in 1 .. n - 1 : new[j] = rules[i]
  <2> SUFFICES ASSUME NEW i \in 1 .. n, i # p PROVE \E j \in 1 .. n - 1 : new[j] = rules[i]
    OBVIOUS
  <2>1. CASE i < p
    <3>1. i \in 1 .. n - 1
      BY <1>1, <1>6, <2>1
    <3> QED
      BY <1>8, <2>1, <3>1
  <2>2. CASE i > p
    <3>1. i - 1 \in 1 .. n - 1 /\ ~(i - 1 < p) /\ (i - 1) + 1 = i
      BY <1>1, <1>6, <2>2
    <3> QED
      BY <1>8, <3>1
  <2>3. i < p \/ i > p
    BY <1>1, <1>6
  <2> QED
    BY <2>1, <2>2, <2>3
<1>10. \A j \in 1 .. n - 1 : \E i \in 1 .. n : i # p /\ new[j] = rules[i]
  <2> SUFFICES ASSUME NEW j \in 1 .. n - 1 PROVE \E i \in 1 .. n : i # p /\ new[j] = rules[i]
    OBVIOUS
  <2>1. j \in 1 .. n /\ j + 1 \in 1 .. n
    BY <1>1
  <2>2. CASE j < p
    <3>1. new[j] = rules[j]
      BY <1>8, <2>2
    <3>2. j # p
      BY <1>1, <1>6, <2>2
    <3> QED
      BY <2>1, <3>1, <3>2
  <2>3. CASE ~(j < p)
    <3>1. j + 1 # p
      BY <1>1, <1>6, <2>3
    <3> QED
      BY <1>8, <2>1, <2>3, <3>1
  <2> QED
    BY <2>2, <2>3
<1>11. iptLegacyCopies(new) = iptLegacyCopies(rules) - 1
  <2>1. PICK N : N = {i \in 1 .. n - 1 : new[i].own}
    OBVIOUS
  <2>2. iptLegacyCopies(new) = Cardinality(N)
    BY <1>8, <2>1 DEF iptLegacyCopies
  <2>3. PICK D : D = O \ {p}
    OBVIOUS
  <2>4. IsFiniteSet(D) /\ Cardinality(D) = Cardinality(O) - 1
    BY <1>3, <1>6, <2>3, FS_RemoveElement
  <2>5. PICK f : f = [i \in D |-> i - 1]
    OBVIOUS
  <2>6. \A i \in D : i \in 1 .. n /\ rules[i].own /\ i > p /\ i - 1 \in 1 .. n - 1 /\ ~(i - 1 < p) /\ (i - 1) + 1 = i
    BY <1>1, <1>2, <1>6, <2>3
  <2>7. \A i \in D : i - 1 \in N
    BY <1>8, <2>1, <2>6
  <2>8. \A j \in N : j + 1 \in D /\ (j + 1) - 1 = j
    <3> SUFFICES ASSUME NEW j \in N PROVE j + 1 \in D /\ (j + 1) - 1 = j
      OBVIOUS
    <3>1. j \in 1 .. n - 1 /\ new[j].own /\ j \in 1 .. n /\ j + 1 \in 1 .. n
      BY <1>1, <2>1
    <3>2. ~(j < p)
      <4>1. ASSUME j < p PROVE FALSE
        <5>1. rules[j].own
          BY <1>8, <3>1, <4>1
        <5> QED
          BY <1>1, <1>2, <1>6, <3>1, <4>1, <5>1
      <4> QED
        BY <4>1
    <3>3. rules[j + 1].own /\ j + 1 # p
      BY <1>1, <1>6, <1>8, <3>1, <3>2
    <3> QED
      BY <1>2, <2>3, <3>1, <3>3
  <2>9. f \in [D -> N]
    BY <2>5, <2>7
  <2>10. \A a, b \in D : f[a] = f[b] => a = b
    BY <2>5, <2>6
  <2>11. \A j \in N : \E i \in D : f[i] = j
    BY <2>5, <2>8
  <2>12. f \in Bijection(D, N)
    BY <2>9, <2>10, <2>11 DEF Bijection, Injection, Surjection, IsInjective
  <2>13. ExistsBijection(D, N)
    BY <2>12 DEF ExistsBijection
  <2>14. Cardinality(N) = Cardinality(D)
    BY <2>4, <2>13, FS_Bijection
  <2> QED
    BY <1>3, <2>2, <2>4, <2>14
<1>12. OwnIsLegacy(new)
  BY <1>1, <1>8, <1>10 DEF OwnIsLegacy
<1>13. rules[p].own /\ ~QualifiedJump(rules[p]) /\ rules[p].target # "tsInput"
  BY <1>1, <1>6 DEF OwnIsLegacy, iptablesLegacy, Accept, QualifiedJump
<1>14. Foreign(new) <=> Foreign(rules)
  <2>1. ASSUME Foreign(new) PROVE Foreign(rules)
    <3>1. PICK j \in 1 .. n - 1 : iptUnscoped(new[j]) /\ ~new[j].own
      BY <1>8, <2>1 DEF Foreign
    <3>2. PICK i \in 1 .. n : new[j] = rules[i]
      BY <1>10, <3>1
    <3> QED
      BY <1>1, <3>1, <3>2 DEF Foreign
  <2>2. ASSUME Foreign(rules) PROVE Foreign(new)
    <3>1. PICK i \in 1 .. n : iptUnscoped(rules[i]) /\ ~rules[i].own
      BY <1>1, <2>2 DEF Foreign
    <3>2. PICK j \in 1 .. n - 1 : new[j] = rules[i]
      BY <1>9, <1>13, <3>1
    <3> QED
      BY <1>8, <3>1, <3>2 DEF Foreign
  <2> QED
    BY <2>1, <2>2
<1>15. HasJump(rules) => HasJump(new)
  BY <1>1, <1>8, <1>9, <1>13 DEF HasJump
<1>16. ASSUME Kept(rules, chain) PROVE Kept(new, chain)
  <2>1. PICK i \in 1 .. n : IF rules[i].target = "tsInput" THEN \E k \in 1 .. Len(chain) : Decides(chain[k])
                           ELSE Decides(rules[i]) /\ ~rules[i].own
    BY <1>1, <1>16 DEF Kept
  <2>2. i # p
    BY <1>13, <2>1
  <2>3. PICK j \in 1 .. n - 1 : new[j] = rules[i]
    BY <1>9, <2>2
  <2> QED
    BY <1>8, <2>1, <2>3 DEF Kept
<1> QED
  BY <1>8, <1>11, <1>12, <1>14, <1>15, <1>16

----------------------------------------------------------------------------
(***************************************************************************)
(* The firewall read of a Linux host.                                      *)
(***************************************************************************)
States == {"present", "absent", "blocked", "unknown"}

\* Another run of the firewall step changes nothing, and setup's old rules are gone.
Settled ==
    /\ ~FirewallActs(readLinuxFirewall(TRUE))
    /\ iptLegacyCopies(input) = 0 \/ ufw # "absent"

\* A read the step leaves alone.
LEMMA QuietRead ==
    ASSUME NEW r, r.state \in States, r.state # "absent", ~iptLegacy(r)
    PROVE  ~FirewallActs(r)
  BY DEF FirewallActs, FirewallPlan, Commands, inactiveUFWDecides, States

\* readLinuxFirewall on a host without ufw.
LEMMA ReadsIptables ==
    ASSUME ufw = "absent", input \in Seq(Rule), tsChain \in Seq(Rule), OwnIsLegacy(input),
           NEW iptOK \in BOOLEAN, NEW r, r = readLinuxFirewall(iptOK)
    PROVE  /\ ReadOK(r, input, tsChain) /\ r.backend = "iptables" /\ r.ufwInactive = FALSE
           /\ r.state # "unknown" => iptOK
<1>1. PICK q : q = IF hasIpt /\ iptOK THEN readIptables(input, tsChain, unreached) ELSE Unread
  OBVIOUS
<1>2. r = [backend |-> "iptables", state |-> q.state, copies |-> q.copies,
           foreign |-> q.foreign, scoped |-> q.scoped,
           ufwInactive |-> FALSE, ufwAllows |-> FALSE, byIptables |-> FALSE]
  BY <1>1 DEF readLinuxFirewall, IptRead
<1>3. ReadOK(q, input, tsChain)
  <2>1. CASE hasIpt /\ iptOK
    BY <1>1, <2>1, ReadFacts
  <2>2. CASE ~(hasIpt /\ iptOK)
    BY <1>1, <2>2 DEF ReadOK, Unread
  <2> QED
    BY <2>1, <2>2
<1>4. q.state # "unknown" => iptOK
  BY <1>1 DEF Unread
<1> QED
  BY <1>2, <1>3, <1>4 DEF ReadOK

\* readUFW: an allow or a deny in ufw's list settles it; the number of old rules is INPUT's.
LEMMA ReadsUfw ==
    ASSUME ufw # "absent", input \in Seq(Rule), tsChain \in Seq(Rule), ufwRules \in Seq(Rule), OwnIsLegacy(input),
           NEW iptOK \in BOOLEAN, NEW r, r = readLinuxFirewall(iptOK)
    PROVE  /\ r.backend = "ufw" /\ r.state \in States
           /\ r.state = "absent" => r.copies = 0
           /\ ~iptOK => r.state \in {"unknown", readLinuxFirewall(TRUE).state}
<1>1. PICK own : own = IF ufw = "broken" THEN "unknown" ELSE ufwDecide(ufwRules)
  OBVIOUS
<1>2. PICK full : full = IF hasIpt THEN readIptables(input, tsChain, unreached) ELSE Unread
  OBVIOUS
<1>3. PICK q : q = IF hasIpt /\ iptOK THEN readIptables(input, tsChain, unreached) ELSE Unread
  OBVIOUS
<1>4. PICK deferred \in BOOLEAN : deferred <=> own = "absent" /\ hasIpt
  OBVIOUS
<1>5. /\ r.backend = "ufw" /\ r.state = IF deferred THEN q.state ELSE own
      /\ r.copies = q.copies
  <2>1. r = readUFW(iptOK)
    BY DEF readLinuxFirewall
  <2> QED
    BY <1>1, <1>3, <1>4, <2>1 DEF readUFW, IptRead
<1>6. PICK all : all = readLinuxFirewall(TRUE)
  OBVIOUS
<1>6a. all.state = IF deferred THEN full.state ELSE own
  <2>1. all = readUFW(TRUE)
    BY <1>6 DEF readLinuxFirewall
  <2> QED
    BY <1>1, <1>2, <1>4, <2>1 DEF readUFW, IptRead
<1>7. own \in States
  BY <1>1, DecideFacts DEF States
<1>8. q.state \in States /\ (q.state = "absent" => q.copies = 0)
  <2>1. CASE hasIpt /\ iptOK
    BY <1>3, <2>1, ReadFacts DEF ReadOK, States
  <2>2. CASE ~(hasIpt /\ iptOK)
    BY <1>3, <2>2 DEF States, Unread
  <2> QED
    BY <2>1, <2>2
<1>9. ~deferred /\ own = "absent" => q.copies = 0
  BY <1>3, <1>4 DEF Unread
<1>10. ~iptOK => q.state = "unknown"
  BY <1>3 DEF Unread
<1>11. r.state \in States /\ (r.state = "absent" => r.copies = 0)
  BY <1>5, <1>7, <1>8, <1>9
<1>12. ~iptOK => r.state \in {"unknown", all.state}
  BY <1>5, <1>6a, <1>10
<1> QED
  BY <1>5, <1>6, <1>11, <1>12, Zenon

\* After the commands of an iptables host: the copies and every open rule are gone, and a
\* rule settles the read, or a conditional jump keeps the step from reading it.
LEMMA IptablesSettles ==
    ASSUME ufw' = "absent", input' \in Seq(Rule), tsChain' \in Seq(Rule), OwnIsLegacy(input'),
           iptLegacyCopies(input') = 0, ~Foreign(input'), HasJump(input') \/ Kept(input', tsChain')
    PROVE  Settled'
<1>1. PICK q : q = IF hasIpt' THEN readIptables(input', tsChain', unreached') ELSE Unread
  OBVIOUS
<1>2. PICK r : r = [backend |-> "iptables", state |-> q.state, copies |-> q.copies,
                    foreign |-> q.foreign, scoped |-> q.scoped,
                    ufwInactive |-> FALSE, ufwAllows |-> FALSE, byIptables |-> FALSE]
  OBVIOUS
<1>3. readLinuxFirewall(TRUE)' = r
  BY <1>1, <1>2 DEF readLinuxFirewall, IptRead
<1>4. ReadOK(q, input', tsChain')
  <2>1. CASE hasIpt'
    BY <1>1, <2>1, ReadFacts
  <2>2. CASE ~hasIpt'
    BY <1>1, <2>2 DEF ReadOK, Unread
  <2> QED
    BY <2>1, <2>2
<1>5. q.state \in States /\ q.state # "absent" /\ q.copies = 0 /\ ~q.foreign
  BY <1>4 DEF ReadOK, States
<1>6. r.state \in States /\ r.state # "absent" /\ ~iptLegacy(r)
  BY <1>2, <1>5 DEF iptLegacy
<1>7. ~FirewallActs(r)
  BY <1>6, QuietRead
<1> QED
  BY <1>3, <1>7 DEF Settled

\* After ufw allow: ufw's list settles the read.
LEMMA UfwSettles ==
    ASSUME ufw' # "absent", ufwRules' \in Seq(Rule), NEW i \in 1 .. Len(ufwRules'), ufwDecides(ufwRules'[i])
    PROVE  Settled'
<1>1. PICK own : own = IF ufw' = "broken" THEN "unknown" ELSE ufwDecide(ufwRules')
  OBVIOUS
<1>2. own \in States /\ own # "absent"
  BY <1>1, DecideFacts DEF States
<1>3. PICK r : r = readLinuxFirewall(TRUE)'
  OBVIOUS
<1>4. r.state = own /\ r.backend = "ufw"
  BY <1>1, <1>2, <1>3 DEF readLinuxFirewall, readUFW
<1>5. ~FirewallActs(r)
  BY <1>2, <1>4, QuietRead DEF iptLegacy
<1> QED
  BY <1>3, <1>5 DEF Settled

\* The firewall as it was: the same read.
LEMMA SettledStays == UNCHANGED fwVars => (Settled => Settled')
  BY DEF Settled, fwVars, readLinuxFirewall, readUFW, IptRead

----------------------------------------------------------------------------
(***************************************************************************)
(* Linux.                                                                  *)
(***************************************************************************)
AfterFirewall == {"ip", "done"}
AfterPort == {"firewall", "ufwAllow", "append", "delete"} \cup AfterFirewall
AfterService == {"xrdpPort", "writeIni", "restart"} \cup AfterPort
LinuxPoints == {"off", "xrdp", "enable"} \cup AfterService

\* The chains hold rules, and the port step runs for a declared port.
LinuxTypes ==
    /\ pc \in LinuxPoints /\ cfg \in Configs
    /\ input \in Seq(Rule) /\ tsChain \in Seq(Rule) /\ ufwRules \in Seq(Rule) /\ OwnIsLegacy(input)
    /\ pc \in {"xrdpPort", "writeIni", "restart"} => cfg.declared \in Ports
    /\ pc = "restart" => ini = cfg.declared
    /\ pc \in {"xrdp", "enable", "xrdpPort", "writeIni", "restart"} => outcome["xrdpPort"] = "none"

\* The service and its port.  A restart that fails may stop xrdp after its own step was
\* ok; the port's step has failed then.
ServiceHolds ==
    /\ Past(AfterService) =>
         Holds("xrdp", outcome["xrdpPort"] # "failed" => unit = "enabled" /\ active)
    /\ Past(AfterPort) /\ cfg.declared \in Ports /\ outcome["xrdpPort"] # "failed" =>
         IniPort = cfg.declared
    /\ Past(AfterPort) /\ outcome["xrdpPort"] = "changed" => listens = cfg.declared

\* What the commands of the firewall step start from: the read is the chain's, and the
\* count is what is left to delete.
CommandsFit ==
    /\ pc = "ufwAllow" => ufw # "absent"
    /\ pc \in {"append", "delete"} =>
         /\ ufw = "absent" /\ left = iptLegacyCopies(input)
         /\ read.backend = "iptables" /\ (read.foreign <=> Foreign(input)) /\ read.ufwInactive = FALSE
         /\ \/ iptLegacy(read) /\ (left = 0 => read.foreign)
            \/ pc = "append" /\ read.state = "absent" /\ left = 0 /\ ~read.foreign
    /\ pc = "delete" => HasJump(input) \/ Kept(input, tsChain)

\* The firewall and tailscale ip.
FirewallHolds ==
    /\ Past(AfterFirewall) => Holds("firewall", Settled)
    /\ Past({"done"}) => Holds("ip", ipUp)

LinuxInv == RunOK /\ LinuxTypes /\ ServiceHolds /\ CommandsFit /\ FirewallHolds

\* xrdpSetupStep.
LEMMA XrdpKeeps == LinuxInv /\ (XrdpSetup \/ Enable \/ EnableFails) => LinuxInv'
<1> SUFFICES ASSUME LinuxInv, XrdpSetup \/ Enable \/ EnableFails PROVE LinuxInv'
  OBVIOUS
<1>1. /\ pc \in {"xrdp", "enable"} /\ exit' = exit /\ cfg' = cfg
      /\ outcome["xrdpPort"] = "none"
      /\ UNCHANGED <<ini, ufw, ufwRules, input, tsChain, ipUp, read, left>>
      /\ \/ pc' = "enable" /\ outcome' = outcome
         \/ /\ pc' = AfterXrdp /\ DOMAIN outcome' = StepNames /\ outcome'["xrdp"] # "none"
            /\ Succeeded(outcome'["xrdp"]) => unit' = "enabled" /\ active'
            /\ outcome'["xrdpPort"] = outcome["xrdpPort"]
  <2>1. CASE XrdpSetup
    BY <2>1 DEF LinuxInv, LinuxTypes, RunOK, XrdpSetup, XrdpPlan, Report, Works, Breaks, Succeeded, StepNames,
        linuxVars, xrdpVars, fwVars
  <2>2. CASE Enable
    BY <2>2 DEF LinuxInv, LinuxTypes, RunOK, Enable, Report, Works, Succeeded, StepNames, fwVars
  <2>3. CASE EnableFails
    BY <2>3 DEF LinuxInv, LinuxTypes, RunOK, EnableFails, Report, Breaks, Succeeded, StepNames, fwVars
  <2> QED
    BY <2>1, <2>2, <2>3
<1>2. exit # "ok" /\ cfg \in Configs
  BY <1>1 DEF LinuxInv, RunOK, LinuxTypes
<1>3. pc' = "enable" \/ (pc' = "firewall" /\ cfg.declared \notin Ports) \/ (pc' = "xrdpPort" /\ cfg.declared \in Ports)
  BY <1>1, <1>2 DEF AfterXrdp, Configs, Ports
<1>4. RunOK' /\ LinuxTypes'
  BY <1>1, <1>2, <1>3 DEF LinuxInv, RunOK, LinuxTypes, LinuxPoints, AfterService, AfterPort, OwnIsLegacy
<1>5. ServiceHolds'
  BY <1>1, <1>2, <1>3 DEF ServiceHolds, Past, Holds, AfterService, AfterPort, AfterFirewall
<1>6. CommandsFit' /\ FirewallHolds'
  BY <1>1, <1>2, <1>3 DEF CommandsFit, FirewallHolds, Past, AfterFirewall
<1> QED
  BY <1>4, <1>5, <1>6 DEF LinuxInv

\* xrdpPortSetupStep: the file is written before xrdp is restarted.
LEMMA PortKeeps == LinuxInv /\ (XrdpPortSetup \/ WriteIni \/ Restart \/ RestartFails) => LinuxInv'
<1> SUFFICES ASSUME LinuxInv, XrdpPortSetup \/ WriteIni \/ Restart \/ RestartFails PROVE LinuxInv'
  OBVIOUS
<1>0. /\ DOMAIN outcome = StepNames /\ pc \in {"xrdpPort", "writeIni", "restart"} /\ exit # "ok"
      /\ cfg.declared \in Ports /\ (pc = "restart" => ini = cfg.declared) /\ outcome["xrdpPort"] = "none"
      /\ Holds("xrdp", outcome["xrdpPort"] # "failed" => unit = "enabled" /\ active)
  BY DEF LinuxInv, RunOK, LinuxTypes, ServiceHolds, Past, AfterService,
      XrdpPortSetup, WriteIni, Restart, RestartFails
<1>1. /\ exit' = exit /\ cfg' = cfg /\ unit' = unit
      /\ UNCHANGED <<ufw, ufwRules, input, tsChain, ipUp, read, left>>
      /\ DOMAIN outcome' = StepNames /\ outcome'["xrdp"] = outcome["xrdp"]
      /\ pc' \in {"writeIni", "restart", "firewall"}
      /\ pc' # "firewall" => outcome' = outcome
      /\ pc' = "restart" => ini' = cfg.declared
      /\ outcome'["xrdpPort"] # "failed" => (active' = active \/ active' = TRUE)
      /\ pc' = "firewall" /\ outcome'["xrdpPort"] # "failed" => IniPort' = cfg.declared
      /\ pc' = "firewall" /\ outcome'["xrdpPort"] = "changed" => listens' = cfg.declared
  <2>1. CASE XrdpPortSetup
    <3>1. xrdpPortRead \in {"none", "ok"} => IniPort = cfg.declared
      BY <1>0 DEF xrdpPortRead, IniPort, Ports
    <3>2. xrdpPortRead \in {"none", "ok", "changed", "failed"}
      BY DEF xrdpPortRead
    <3>3. /\ exit' = exit /\ cfg' = cfg /\ unit' = unit /\ ini' = ini /\ active' = active
          /\ UNCHANGED <<ufw, ufwRules, input, tsChain, ipUp, read, left>>
          /\ \/ pc' = "writeIni" /\ outcome' = outcome
             \/ /\ pc' = "firewall" /\ xrdpPortRead # "changed"
                /\ outcome' = [outcome EXCEPT !["xrdpPort"] = xrdpPortRead]
      BY <2>1 DEF XrdpPortSetup, Report, Works, linuxVars, xrdpVars, fwVars
    <3>4. IniPort' = IniPort
      BY <3>3 DEF IniPort
    <3> QED
      BY <1>0, <3>1, <3>2, <3>3, <3>4 DEF StepNames
  <2>2. CASE WriteIni
    BY <1>0, <2>2 DEF WriteIni, Report, Works, Breaks, fwVars, StepNames
  <2>3. CASE Restart
    <3>1. IniPort' = cfg.declared
      BY <1>0, <2>3 DEF Restart, IniPort
    <3> QED
      BY <1>0, <2>3, <3>1 DEF Restart, Report, Works, fwVars, StepNames
  <2>4. CASE RestartFails
    BY <1>0, <2>4 DEF RestartFails, Report, Works, Breaks, fwVars, StepNames
  <2> QED
    BY <2>1, <2>2, <2>3, <2>4
<1>2. RunOK' /\ LinuxTypes'
  BY <1>0, <1>1 DEF LinuxInv, RunOK, LinuxTypes, LinuxPoints, AfterService, AfterPort, OwnIsLegacy
<1>3. ServiceHolds'
  BY <1>0, <1>1 DEF ServiceHolds, Past, Holds, AfterService, AfterPort, AfterFirewall
<1>4. CommandsFit' /\ FirewallHolds'
  BY <1>0, <1>1 DEF CommandsFit, FirewallHolds, Past, AfterFirewall
<1> QED
  BY <1>2, <1>3, <1>4 DEF LinuxInv

\* The steps after the port's leave the service alone.
LEMMA ServiceFrame ==
    ASSUME LinuxInv, pc \in AfterPort, pc' \in AfterPort, UNCHANGED <<xrdpVars, cfg, exit>>,
           outcome'["xrdp"] = outcome["xrdp"], outcome'["xrdpPort"] = outcome["xrdpPort"]
    PROVE  exit # "ok" /\ ServiceHolds'
<1>1. /\ exit # "ok" /\ pc \in AfterService /\ pc' \in AfterService
      /\ UNCHANGED <<unit, active, ini, listens, cfg>>
  BY DEF LinuxInv, RunOK, xrdpVars, AfterService, AfterPort, AfterFirewall
<1>2. IniPort' = IniPort
  BY <1>1 DEF IniPort
<1> QED
  BY <1>1, <1>2 DEF LinuxInv, ServiceHolds, Past, Holds

\* firewallSetupStep reads, and reports or goes on to a command.
LEMMA FirewallKeeps ==
    ASSUME LinuxInv, NEW iptOK \in BOOLEAN, FirewallSetup(iptOK)
    PROVE  LinuxInv'
<1>1. PICK r : r = readLinuxFirewall(iptOK)
  OBVIOUS
<1>2. /\ pc = "firewall" /\ exit' = exit /\ cfg' = cfg /\ read' = r /\ left' = r.copies
      /\ UNCHANGED xrdpVars /\ UNCHANGED fwVars /\ ipUp' = ipUp
      /\ IF FirewallPlan(r) \in Commands THEN pc' = FirewallPlan(r) /\ outcome' = outcome
         ELSE Report("firewall", FirewallPlan(r), "ip")
  BY <1>1 DEF FirewallSetup, Works, Breaks
<1>3. UNCHANGED <<ufw, ufwRules, hasIpt, input, tsChain, unreached>>
  BY <1>2 DEF fwVars
<1>4. /\ RunOK /\ input \in Seq(Rule) /\ tsChain \in Seq(Rule) /\ ufwRules \in Seq(Rule)
      /\ OwnIsLegacy(input) /\ cfg \in Configs
  BY DEF LinuxInv, LinuxTypes
<1>5. /\ r.state \in States
      /\ ufw # "absent" => r.backend = "ufw"
      /\ ufw = "absent" => ReadOK(r, input, tsChain) /\ r.backend = "iptables" /\ r.ufwInactive = FALSE
      /\ r.state # "unknown" => readLinuxFirewall(TRUE).state = r.state
      /\ ufw = "absent" /\ r.state # "unknown" => readLinuxFirewall(TRUE) = r
  <2>1. CASE ufw = "absent"
    BY <1>1, <1>4, <2>1, ReadsIptables DEF ReadOK, States
  <2>2. CASE ufw # "absent"
    BY <1>1, <1>4, <2>2, ReadsUfw DEF States
  <2> QED
    BY <2>1, <2>2
<1>6. CASE FirewallPlan(r) \in Commands
  <2>1. pc' \in Commands /\ outcome' = outcome
    BY <1>2, <1>6
  <2>2. pc' \in AfterPort /\ pc \in AfterPort
    BY <1>2, <2>1 DEF Commands, AfterPort
  <2>3. exit # "ok" /\ ServiceHolds'
    BY <1>2, <2>1, <2>2, ServiceFrame
  <2>4. RunOK' /\ LinuxTypes'
    BY <1>2, <1>3, <1>4, <2>1, <2>3 DEF RunOK, LinuxTypes, LinuxPoints, AfterService, AfterPort, Commands, OwnIsLegacy
  <2>5. FirewallHolds'
    BY <1>2, <2>1, <2>3 DEF FirewallHolds, Past, AfterFirewall, Commands
  <2>6. CASE ufw # "absent"
    <3>1. pc' = "ufwAllow"
      BY <1>2, <1>5, <1>6, <2>6 DEF FirewallPlan, Commands, iptLegacy, inactiveUFWDecides, States
    <3> QED
      BY <1>3, <2>3, <2>4, <2>5, <2>6, <3>1 DEF LinuxInv, CommandsFit
  <2>7. CASE ufw = "absent"
    <3>1. ReadOK(r, input, tsChain) /\ r.backend = "iptables" /\ r.ufwInactive = FALSE /\ ~inactiveUFWDecides(r)
      BY <1>5, <2>7 DEF inactiveUFWDecides
    <3>2. \/ iptLegacy(r) /\ FirewallPlan(r) = "delete" /\ r.scoped
          \/ iptLegacy(r) /\ FirewallPlan(r) = "append"
          \/ r.state = "absent" /\ FirewallPlan(r) = "append"
      BY <1>5, <1>6, <3>1 DEF FirewallPlan, Commands, iptLegacy, States
    <3>3. r.copies = iptLegacyCopies(input) /\ r.copies \in Nat /\ (r.foreign <=> Foreign(input))
      <4>1. r.state # "unknown"
        BY <3>2 DEF iptLegacy
      <4> QED
        BY <1>4, <3>1, <4>1, CopiesFacts DEF ReadOK
    <3>4. \/ iptLegacy(r) /\ (r.copies = 0 => r.foreign)
          \/ FirewallPlan(r) = "append" /\ r.state = "absent" /\ r.copies = 0 /\ ~r.foreign
      BY <3>1, <3>2, <3>3 DEF iptLegacy, ReadOK
    <3>5. FirewallPlan(r) = "delete" => HasJump(input) \/ Kept(input, tsChain)
      BY <3>1, <3>2 DEF ReadOK
    <3>6. CommandsFit'
      BY <1>2, <1>3, <1>6, <2>7, <3>1, <3>2, <3>3, <3>4, <3>5 DEF CommandsFit
    <3> QED
      BY <2>3, <2>4, <2>5, <3>6 DEF LinuxInv
  <2> QED
    BY <2>6, <2>7
<1>7. CASE FirewallPlan(r) \notin Commands
  <2>1. /\ pc' = "ip" /\ DOMAIN outcome' = StepNames /\ outcome'["firewall"] = FirewallPlan(r)
        /\ \A t \in StepNames : t # "firewall" => outcome'[t] = outcome[t]
    <3>1. Report("firewall", FirewallPlan(r), "ip") /\ "firewall" \in StepNames
      BY <1>2, <1>7 DEF StepNames
    <3> QED
      BY <1>4, <3>1, ReportFacts
  <2>2. pc' \in AfterPort /\ pc \in AfterPort
    BY <1>2, <2>1 DEF AfterPort, AfterFirewall
  <2>3. outcome'["xrdp"] = outcome["xrdp"] /\ outcome'["xrdpPort"] = outcome["xrdpPort"]
    BY <2>1 DEF StepNames
  <2>4. exit # "ok" /\ ServiceHolds'
    BY <1>2, <2>2, <2>3, ServiceFrame
  <2>5. RunOK' /\ LinuxTypes' /\ CommandsFit'
    BY <1>2, <1>3, <1>4, <2>1, <2>4 DEF RunOK, LinuxTypes, LinuxPoints, AfterService, AfterPort, AfterFirewall,
        OwnIsLegacy, CommandsFit
  <2>6. FirewallPlan(r) \in {"ok", "manual", "failed"}
    BY <1>7 DEF FirewallPlan, Commands
  <2>7. ASSUME FirewallPlan(r) = "ok" PROVE Settled
    <3>1. r.state = "present" /\ ~iptLegacy(r) /\ ~(r.copies > 0)
      BY <1>5, <2>7 DEF FirewallPlan, States
    <3>2. PICK all : all = readLinuxFirewall(TRUE)
      OBVIOUS
    <3>3. all.state = "present" /\ ~iptLegacy(all)
      <4>1. CASE ufw = "absent"
        BY <1>5, <3>1, <3>2, <4>1
      <4>2. CASE ufw # "absent"
        BY <1>4, <1>5, <3>1, <3>2, <4>2, ReadsUfw DEF iptLegacy
      <4> QED
        BY <4>1, <4>2
    <3>4. ~FirewallActs(all)
      BY <3>3, QuietRead DEF States
    <3>5. ASSUME ufw = "absent" PROVE iptLegacyCopies(input) = 0
      <4>1. r.copies = iptLegacyCopies(input)
        BY <1>5, <3>1, <3>5 DEF ReadOK
      <4>2. iptLegacyCopies(input) \in Nat
        BY <1>4, CopiesFacts
      <4> QED
        BY <3>1, <4>1, <4>2
    <3> QED
      BY <3>2, <3>4, <3>5 DEF Settled
  <2>8. Settled => Settled'
    BY <1>2, SettledStays
  <2>9. Holds("firewall", Settled)'
    BY <2>1, <2>6, <2>7, <2>8 DEF Holds, Succeeded
  <2>10. FirewallHolds'
    BY <1>2, <2>1, <2>4, <2>9 DEF FirewallHolds, Past
  <2> QED
    BY <2>4, <2>5, <2>10 DEF LinuxInv
<1> QED
  BY <1>6, <1>7

\* A command is the last of the firewall step, which reports o.
LEMMA CommandReports ==
    ASSUME LinuxInv, pc \in Commands, NEW o \in Outcomes, Report("firewall", o, "ip"),
           UNCHANGED <<xrdpVars, cfg, exit, tsChain>>,
           input' \in Seq(Rule), ufwRules' \in Seq(Rule), OwnIsLegacy(input'),
           Succeeded(o) => Settled'
    PROVE  LinuxInv'
<1>1. /\ pc' = "ip" /\ DOMAIN outcome' = StepNames /\ outcome'["firewall"] = o
      /\ \A t \in StepNames : t # "firewall" => outcome'[t] = outcome[t]
  <2>1. RunOK /\ "firewall" \in StepNames
    BY DEF LinuxInv, StepNames
  <2> QED
    BY <2>1, ReportFacts
<1>2. pc' \in AfterPort /\ pc \in AfterPort
  BY <1>1 DEF AfterPort, AfterFirewall, Commands
<1>3. outcome'["xrdp"] = outcome["xrdp"] /\ outcome'["xrdpPort"] = outcome["xrdpPort"]
  BY <1>1 DEF StepNames
<1>4. exit # "ok" /\ ServiceHolds'
  BY <1>2, <1>3, ServiceFrame
<1>5. RunOK' /\ LinuxTypes' /\ CommandsFit'
  BY <1>1, <1>4 DEF LinuxInv, RunOK, LinuxTypes, LinuxPoints, AfterService, AfterPort, AfterFirewall, CommandsFit
<1>6. Holds("firewall", Settled)'
  BY <1>1 DEF Holds, Outcomes
<1>7. FirewallHolds'
  BY <1>1, <1>4, <1>6 DEF FirewallHolds, Past
<1> QED
  BY <1>4, <1>5, <1>7 DEF LinuxInv

\* A command is done, and copies remain.
LEMMA CommandGoesOn ==
    ASSUME LinuxInv, pc \in {"append", "delete"}, pc' = "delete", outcome' = outcome,
           UNCHANGED <<xrdpVars, cfg, exit, ufw, ufwRules, tsChain, read>>,
           input' \in Seq(Rule), OwnIsLegacy(input'), left' = iptLegacyCopies(input'), left' > 0,
           Foreign(input') <=> Foreign(input), iptLegacy(read),
           HasJump(input') \/ Kept(input', tsChain)
    PROVE  LinuxInv'
<1>1. pc' \in AfterPort /\ pc \in AfterPort
  BY DEF AfterPort
<1>2. exit # "ok" /\ ServiceHolds'
  BY <1>1, ServiceFrame
<1>3. RunOK' /\ LinuxTypes'
  BY <1>2 DEF LinuxInv, RunOK, LinuxTypes, LinuxPoints, AfterService, AfterPort
<1>4. /\ ufw = "absent" /\ read.backend = "iptables" /\ (read.foreign <=> Foreign(input'))
      /\ read.ufwInactive = FALSE
  BY DEF LinuxInv, CommandsFit
<1>5. left' # 0
  OBVIOUS
<1>6. CommandsFit'
  BY <1>4, <1>5 DEF CommandsFit
<1>7. FirewallHolds'
  BY <1>2 DEF FirewallHolds, Past, AfterFirewall
<1> QED
  BY <1>2, <1>3, <1>6, <1>7 DEF LinuxInv

\* iptables -A: the scoped rule stands before the first copy goes.
LEMMA AppendKeeps == LinuxInv /\ AppendScoped => LinuxInv'
<1> SUFFICES ASSUME LinuxInv, AppendScoped PROVE LinuxInv'
  OBVIOUS
<1>1. /\ pc = "append" /\ input' = Append(input, iptablesAppend) /\ DeletesLeft(left)
      /\ UNCHANGED <<xrdpVars, cfg, exit, ufw, ufwRules, tsChain, read, left>>
  BY DEF AppendScoped, Works
<1>2. /\ input \in Seq(Rule) /\ tsChain \in Seq(Rule) /\ ufwRules \in Seq(Rule) /\ OwnIsLegacy(input)
      /\ ufw = "absent" /\ left = iptLegacyCopies(input)
      /\ (read.foreign <=> Foreign(input)) /\ read.ufwInactive = FALSE
      /\ \/ iptLegacy(read) /\ (left = 0 => read.foreign)
         \/ read.state = "absent" /\ left = 0 /\ ~read.foreign
  BY <1>1 DEF LinuxInv, LinuxTypes, CommandsFit
<1>3. /\ input' \in Seq(Rule) /\ OwnIsLegacy(input') /\ iptLegacyCopies(input') = iptLegacyCopies(input)
      /\ Foreign(input') <=> Foreign(input)
      /\ Kept(input', tsChain)
  BY <1>1, <1>2, AppendFacts
<1>4. CASE read.state = "present" /\ left > 0
  <2>1. pc' = "delete" /\ outcome' = outcome
    BY <1>1, <1>4 DEF DeletesLeft
  <2>2. iptLegacy(read)
    BY <1>2, <1>4
  <2> QED
    BY <1>1, <1>2, <1>3, <1>4, <2>1, <2>2, CommandGoesOn
<1>5. CASE ~(read.state = "present" /\ left > 0)
  <2>1. PICK o : o = FirewallDone(read)
    OBVIOUS
  <2>2. Report("firewall", o, "ip") /\ o \in Outcomes /\ pc \in Commands
    BY <1>1, <1>5, <2>1 DEF DeletesLeft, FirewallDone, Outcomes, Commands
  <2>3. left \in Nat
    BY <1>2, CopiesFacts
  <2>4. ASSUME Succeeded(o) PROVE Settled'
    <3>1. ~(iptLegacy(read) /\ read.foreign)
      BY <2>1, <2>4 DEF FirewallDone, Succeeded
    <3>2. left = 0 /\ ~read.foreign
      BY <1>2, <1>5, <2>3, <3>1 DEF iptLegacy
    <3> QED
      BY <1>1, <1>2, <1>3, <3>2, IptablesSettles
  <2> QED
    BY <1>1, <1>2, <1>3, <2>2, <2>4, CommandReports
<1> QED
  BY <1>4, <1>5

\* iptables -D, once for each copy the step counted.
LEMMA DeleteKeeps == LinuxInv /\ (NothingToDelete \/ DeleteCopy) => LinuxInv'
<1>1. ASSUME LinuxInv, NothingToDelete PROVE LinuxInv'
  <2>1. /\ pc = "delete" /\ left = 0 /\ Report("firewall", FirewallDone(read), "ip")
        /\ UNCHANGED <<xrdpVars, cfg, exit, ufwRules, tsChain, input>>
    BY <1>1 DEF NothingToDelete, Works, linuxVars, fwVars
  <2>2. FirewallDone(read) = "manual"
    BY <1>1, <2>1 DEF LinuxInv, CommandsFit, FirewallDone
  <2>3. /\ input' \in Seq(Rule) /\ ufwRules' \in Seq(Rule) /\ OwnIsLegacy(input')
        /\ pc \in Commands /\ "manual" \in Outcomes /\ ~Succeeded("manual")
    BY <1>1, <2>1 DEF LinuxInv, LinuxTypes, OwnIsLegacy, Commands, Outcomes, Succeeded
  <2> QED
    BY <1>1, <2>1, <2>2, <2>3, CommandReports
<1>2. ASSUME LinuxInv, DeleteCopy PROVE LinuxInv'
  <2>1. /\ pc = "delete" /\ left > 0 /\ input' = RemoveFirstMatch(input, LAMBDA r : r.own)
        /\ left' = left - 1 /\ DeletesLeft(left - 1)
        /\ UNCHANGED <<xrdpVars, cfg, exit, ufw, ufwRules, tsChain, read>>
    BY <1>2 DEF DeleteCopy, Works
  <2>2. /\ input \in Seq(Rule) /\ tsChain \in Seq(Rule) /\ ufwRules \in Seq(Rule) /\ OwnIsLegacy(input)
        /\ ufw = "absent" /\ left = iptLegacyCopies(input)
        /\ (read.foreign <=> Foreign(input)) /\ iptLegacy(read)
        /\ HasJump(input) \/ Kept(input, tsChain)
    BY <1>2, <2>1 DEF LinuxInv, LinuxTypes, CommandsFit
  <2>3. left \in Nat
    BY <2>2, CopiesFacts
  <2>4. PICK new : new = RemoveFirstMatch(input, LAMBDA r : r.own)
    OBVIOUS
  <2>5. /\ new \in Seq(Rule) /\ OwnIsLegacy(new) /\ iptLegacyCopies(new) = iptLegacyCopies(input) - 1
        /\ Foreign(new) <=> Foreign(input)
        /\ HasJump(new) \/ Kept(new, tsChain)
    BY <2>1, <2>2, <2>4, RemoveFacts
  <2>6. /\ input' \in Seq(Rule) /\ OwnIsLegacy(input') /\ left' = iptLegacyCopies(input')
        /\ Foreign(input') <=> Foreign(input)
        /\ HasJump(input') \/ Kept(input', tsChain)
    BY <2>1, <2>2, <2>4, <2>5
  <2>7. CASE left - 1 > 0
    <3>1. pc' = "delete" /\ outcome' = outcome
      BY <2>1, <2>2, <2>7 DEF DeletesLeft, iptLegacy
    <3> QED
      BY <1>2, <2>1, <2>2, <2>6, <2>7, <3>1, CommandGoesOn
  <2>8. CASE ~(left - 1 > 0)
    <3>1. PICK o : o = FirewallDone(read)
      OBVIOUS
    <3>2. Report("firewall", o, "ip") /\ o \in Outcomes /\ pc \in Commands
      BY <2>1, <2>8, <3>1 DEF DeletesLeft, FirewallDone, Outcomes, Commands
    <3>3. left' = 0
      BY <2>1, <2>3, <2>8
    <3>4. ASSUME Succeeded(o) PROVE Settled'
      <4>1. ~read.foreign
        BY <2>2, <3>1, <3>4 DEF FirewallDone, Succeeded
      <4> QED
        BY <2>1, <2>2, <2>6, <3>3, <4>1, IptablesSettles
    <3> QED
      BY <1>2, <2>1, <2>2, <2>6, <3>2, <3>4, CommandReports
  <2> QED
    BY <2>7, <2>8
<1> QED
  BY <1>1, <1>2

\* ufw allow, a command that fails, and tailscale ip.
LEMMA OthersKeep == LinuxInv /\ (UfwAllow \/ CommandFails \/ TailscaleIP) => LinuxInv'
<1>1. ASSUME LinuxInv, UfwAllow PROVE LinuxInv'
  <2>1. /\ pc = "ufwAllow" /\ ufwRules' = Append(ufwRules, ufwAllow) /\ Report("firewall", FirewallDone(read), "ip")
        /\ UNCHANGED <<xrdpVars, cfg, exit, ufw, tsChain, input>>
    BY <1>1 DEF UfwAllow, Works
  <2>2. /\ input \in Seq(Rule) /\ ufwRules \in Seq(Rule) /\ OwnIsLegacy(input') /\ ufw # "absent"
        /\ FirewallDone(read) \in Outcomes /\ pc \in Commands
    BY <1>1, <2>1 DEF LinuxInv, LinuxTypes, CommandsFit, OwnIsLegacy, FirewallDone, Outcomes, Commands
  <2>3. ufwAllow \in Rule /\ ufwDecides(ufwAllow)
    BY DEF ufwAllow, Accept, Rule, Targets, Matches, Scopes, ufwDecides
  <2>4. /\ ufwRules' \in Seq(Rule) /\ Len(ufwRules') \in 1 .. Len(ufwRules')
        /\ ufwRules'[Len(ufwRules')] = ufwAllow
    BY <2>1, <2>2, <2>3
  <2>5. Settled'
    BY <2>1, <2>2, <2>3, <2>4, UfwSettles
  <2> QED
    BY <1>1, <2>1, <2>2, <2>4, <2>5, CommandReports
<1>2. ASSUME LinuxInv, CommandFails PROVE LinuxInv'
  <2>1. /\ pc \in Commands /\ Report("firewall", "failed", "ip") /\ "failed" \in Outcomes /\ ~Succeeded("failed")
        /\ UNCHANGED <<xrdpVars, cfg, exit, tsChain, input, ufwRules>>
    BY <1>2 DEF CommandFails, Breaks, linuxVars, fwVars, Outcomes, Succeeded
  <2>2. input' \in Seq(Rule) /\ ufwRules' \in Seq(Rule) /\ OwnIsLegacy(input')
    BY <1>2, <2>1 DEF LinuxInv, LinuxTypes, OwnIsLegacy
  <2> QED
    BY <1>2, <2>1, <2>2, CommandReports
<1>3. ASSUME LinuxInv, TailscaleIP PROVE LinuxInv'
  <2>1. /\ pc = "ip" /\ Report("ip", IF ipUp THEN "ok" ELSE "failed", "done") /\ ipUp' = ipUp
        /\ UNCHANGED <<xrdpVars, cfg, exit>> /\ UNCHANGED fwVars
    BY <1>3 DEF TailscaleIP, Works, linuxVars
  <2>2. /\ pc' = "done" /\ DOMAIN outcome' = StepNames /\ outcome'["ip"] = IF ipUp THEN "ok" ELSE "failed"
        /\ \A t \in StepNames : t # "ip" => outcome'[t] = outcome[t]
    <3>1. RunOK /\ "ip" \in StepNames
      BY <1>3 DEF LinuxInv, StepNames
    <3> QED
      BY <2>1, <3>1, ReportFacts
  <2>3. /\ pc' \in AfterPort /\ pc \in AfterPort
        /\ outcome'["xrdp"] = outcome["xrdp"] /\ outcome'["xrdpPort"] = outcome["xrdpPort"]
        /\ outcome'["firewall"] = outcome["firewall"]
    BY <2>1, <2>2 DEF AfterPort, AfterFirewall, StepNames
  <2>4. exit # "ok" /\ ServiceHolds'
    BY <1>3, <2>1, <2>3, ServiceFrame
  <2>5. UNCHANGED <<input, tsChain, ufwRules>>
    BY <2>1 DEF fwVars
  <2>6. RunOK' /\ LinuxTypes' /\ CommandsFit'
    BY <1>3, <2>1, <2>2, <2>4, <2>5 DEF LinuxInv, RunOK, LinuxTypes, LinuxPoints, AfterService, AfterPort,
        AfterFirewall, OwnIsLegacy, CommandsFit
  <2>7. Holds("firewall", Settled)'
    <3>1. Holds("firewall", Settled)
      BY <1>3, <2>1 DEF LinuxInv, FirewallHolds, Past, AfterFirewall
    <3> QED
      BY <2>1, <2>3, <3>1, SettledStays DEF Holds
  <2>8. Holds("ip", ipUp)'
    BY <2>1, <2>2 DEF Holds, Succeeded
  <2>9. FirewallHolds'
    BY <2>7, <2>8 DEF FirewallHolds
  <2> QED
    BY <2>4, <2>6, <2>9 DEF LinuxInv
<1> QED
  BY <1>1, <1>2, <1>3

\* The run begins, ends, or is killed.
LEMMA LinuxFrame ==
    ASSUME LinuxInv, Begin("xrdp") \/ Finish \/ Killed, UNCHANGED linuxVars
    PROVE  LinuxInv'
<1>0. /\ UNCHANGED <<unit, active, ini, listens, input, tsChain, ufwRules, ipUp, cfg>>
      /\ UNCHANGED fwVars /\ IniPort' = IniPort
  BY DEF linuxVars, xrdpVars, fwVars, Begin, Finish, Killed, IniPort
<1>1. CASE Finish
  <2>1. pc = "done" /\ pc' = "off" /\ outcome' = outcome /\ exit # "ok"
    BY <1>1 DEF Finish, LinuxInv, RunOK
  <2>2. RunOK' /\ LinuxTypes' /\ CommandsFit'
    BY <1>0, <2>1 DEF LinuxInv, RunOK, LinuxTypes, LinuxPoints, CommandsFit, OwnIsLegacy
  <2>3. ServiceHolds'
    BY <1>0, <2>1 DEF LinuxInv, ServiceHolds, Past, Holds, AfterService, AfterPort, AfterFirewall
  <2>4. Holds("firewall", Settled)'
    <3>1. Holds("firewall", Settled)
      BY <2>1 DEF LinuxInv, FirewallHolds, Past, AfterFirewall
    <3> QED
      BY <1>0, <2>1, <3>1, SettledStays DEF Holds
  <2>5. FirewallHolds'
    BY <1>0, <2>1, <2>4 DEF LinuxInv, FirewallHolds, Past, Holds
  <2> QED
    BY <2>2, <2>3, <2>5 DEF LinuxInv
<1>2. CASE Begin("xrdp") \/ Killed
  <2>1. pc' \in {"off", "xrdp"} /\ exit' \in {"none", "killed"} /\ outcome' = NoSteps
    BY <1>2 DEF Begin, Killed
  <2>2. RunOK' /\ LinuxTypes' /\ CommandsFit'
    BY <1>0, <2>1 DEF LinuxInv, RunOK, LinuxTypes, LinuxPoints, CommandsFit, OwnIsLegacy, NoSteps, StepNames
  <2>3. ServiceHolds' /\ FirewallHolds'
    BY <2>1 DEF ServiceHolds, FirewallHolds, Past, AfterService, AfterPort, AfterFirewall
  <2> QED
    BY <2>2, <2>3 DEF LinuxInv
<1> QED
  BY <1>1, <1>2

----------------------------------------------------------------------------
(***************************************************************************)
(* Both.                                                                   *)
(***************************************************************************)
HostInv ==
    \/ goos = "linux" /\ LinuxInv
    \/ goos = "windows" /\ WindowsInv

\* The first run may find any of the hosts.
LEMMA HostInit == Init => HostInv
<1> SUFFICES ASSUME Init PROVE HostInv
  OBVIOUS
<1>1. RunOK /\ pc = "off" /\ exit = "none"
  BY DEF Init, RunInit, RunOK, NoSteps
<1>2. CASE goos = "linux"
  <2>1. PICK h \in LinuxHosts : LinuxInit(h) /\ cfg = h.cfg
    BY <1>2 DEF Init
  <2>2. input \in Seq(Rule) /\ tsChain \in Seq(Rule) /\ ufwRules \in Seq(Rule) /\ OwnIsLegacy(input) /\ cfg \in Configs
    BY <2>1, HostsAssumption DEF LinuxInit, OwnIsLegacy
  <2>3. LinuxTypes /\ CommandsFit
    BY <1>1, <2>2 DEF LinuxTypes, LinuxPoints, CommandsFit
  <2>4. ServiceHolds /\ FirewallHolds
    BY <1>1 DEF ServiceHolds, FirewallHolds, Past, AfterService, AfterPort, AfterFirewall
  <2> QED
    BY <1>1, <1>2, <2>3, <2>4 DEF HostInv, LinuxInv
<1>3. CASE goos = "windows"
  <2>1. PICK h \in WindowsHosts : WindowsInit(h) /\ cfg = h.cfg
    BY <1>3 DEF Init
  <2>4. silent \in BOOLEAN
    BY <2>1 DEF WindowsInit
  <2>2. WindowsTypes
    BY <1>1, <2>1, <2>4, HostsAssumption DEF WindowsInit, WindowsTypes, WindowsPoints
  <2>3. ServedSoFar /\ AwakeSoFar /\ WindowsSteps
    BY <1>1 DEF ServedSoFar, AwakeSoFar, WindowsSteps, Past, AfterUnattended, AfterServices, AfterProfile,
        AfterRDP, RuleDone
  <2> QED
    BY <1>1, <1>3, <2>2, <2>3 DEF HostInv, WindowsInv
<1> QED
  BY <1>2, <1>3 DEF Init

\* Every step of every run keeps the invariant.
LEMMA HostStep == HostInv /\ [Next]_vars => HostInv'
<1> SUFFICES ASSUME HostInv, [Next]_vars PROVE HostInv'
  OBVIOUS
<1>1. CASE goos = "linux" /\ LinuxInv
  <2>1. ASSUME UNCHANGED vars PROVE HostInv'
    <3>1. UNCHANGED <<goos, cfg, pc, outcome, exit, ipUp, read, left>> /\ UNCHANGED xrdpVars /\ UNCHANGED fwVars
      BY <2>1 DEF vars, runVars, linuxVars
    <3>2. UNCHANGED <<unit, active, ini, listens, ufw, ufwRules, input, tsChain>> /\ IniPort' = IniPort
      BY <3>1 DEF xrdpVars, fwVars, IniPort
    <3>3. RunOK' /\ LinuxTypes' /\ ServiceHolds'
      BY <1>1, <3>1, <3>2 DEF LinuxInv, RunOK, LinuxTypes, ServiceHolds, Past, Holds, OwnIsLegacy
    <3>4. CommandsFit'
      BY <1>1, <3>1, <3>2 DEF LinuxInv, CommandsFit
    <3>5. FirewallHolds'
      BY <1>1, <3>1, SettledStays DEF LinuxInv, FirewallHolds, Past, Holds
    <3> QED
      BY <1>1, <3>1, <3>3, <3>4, <3>5 DEF HostInv, LinuxInv
  <2>2. ASSUME (Begin(FirstStep) \/ Finish \/ Killed) /\ UNCHANGED <<linuxVars, windowsVars>> PROVE HostInv'
    <3>1. Begin("xrdp") \/ Finish \/ Killed
      BY <1>1, <2>2 DEF FirstStep
    <3>2. LinuxInv'
      BY <1>1, <2>2, <3>1, LinuxFrame
    <3>3. goos' = goos
      BY <3>1 DEF Begin, Finish, Killed
    <3> QED
      BY <1>1, <3>2, <3>3 DEF HostInv
  <2>3. ASSUME LinuxStep PROVE HostInv'
    <3>1. goos' = goos
      BY <2>3 DEF LinuxStep, XrdpSetup, Enable, EnableFails, XrdpPortSetup, WriteIni, Restart, RestartFails,
          FirewallSetup, CommandFails, UfwAllow, AppendScoped, NothingToDelete, DeleteCopy, TailscaleIP, Works, Breaks
    <3>2. LinuxInv'
      BY <1>1, <2>3, XrdpKeeps, PortKeeps, FirewallKeeps, AppendKeeps, DeleteKeeps, OthersKeep DEF LinuxStep
    <3> QED
      BY <1>1, <3>1, <3>2 DEF HostInv
  <2>4. ~WindowsStep
    BY <1>1 DEF LinuxInv, LinuxTypes, LinuxPoints, AfterService, AfterPort, AfterFirewall,
        WindowsStep, Unattended, ServiceReads, ServiceConfig, ServiceStarts, ServiceFails, NetworkProfile,
        RDPReads, RDPUnread, EnableRDP, RDPSilent, RuleKept, RuleRecreated, RuleFails, Power, PowerFails, PowerDone
  <2> QED
    BY <2>1, <2>2, <2>3, <2>4 DEF Next, setupFor
<1>2. CASE goos = "windows" /\ WindowsInv
  <2>1. ASSUME UNCHANGED vars PROVE HostInv'
    <3>1. /\ UNCHANGED <<goos, cfg, pc, outcome, exit, at, rdpPort, silent>>
          /\ UNCHANGED <<forced, auto, running, profile, deny, regPort, rule, rulePort, awake>>
      BY <2>1 DEF vars, runVars, windowsVars, hostVars
    <3>2. ListenerDeclared' = ListenerDeclared
      BY <3>1 DEF ListenerDeclared
    <3>3. RunOK' /\ WindowsTypes' /\ ServedSoFar' /\ AwakeSoFar'
      BY <1>2, <3>1 DEF WindowsInv, RunOK, WindowsTypes, ServedSoFar, AwakeSoFar
    <3>4. WindowsSteps'
      BY <1>2, <3>1, <3>2 DEF WindowsInv, WindowsSteps, Past, Holds
    <3> QED
      BY <1>2, <3>1, <3>3, <3>4 DEF HostInv, WindowsInv
  <2>2. ASSUME (Begin(FirstStep) \/ Finish \/ Killed) /\ UNCHANGED <<linuxVars, windowsVars>> PROVE HostInv'
    <3>1. Begin("unattended") \/ Finish \/ Killed
      BY <1>2, <2>2 DEF FirstStep
    <3>2. WindowsInv'
      BY <1>2, <2>2, <3>1, WindowsFrame
    <3>3. goos' = goos
      BY <3>1 DEF Begin, Finish, Killed
    <3> QED
      BY <1>2, <3>2, <3>3 DEF HostInv
  <2>3. ASSUME WindowsStep PROVE HostInv'
    <3>1. goos' = goos
      BY <2>3 DEF WindowsStep, Unattended, ServiceReads, ServiceConfig, ServiceStarts, ServiceFails, NetworkProfile,
          RDPReads, RDPUnread, EnableRDP, RDPSilent, RuleKept, RuleRecreated, RuleFails, Power, PowerFails, PowerDone, Works, Breaks
    <3>2. WindowsInv'
      BY <1>2, <2>3, UnattendedKeeps, ServicesKeep, ListenerKeeps, RuleKeeps, PowerKeeps DEF WindowsStep
    <3> QED
      BY <1>2, <3>1, <3>2 DEF HostInv
  <2>4. ~LinuxStep
    BY <1>2 DEF WindowsInv, WindowsTypes, WindowsPoints, AfterUnattended,
        LinuxStep, XrdpSetup, Enable, EnableFails, XrdpPortSetup, WriteIni, Restart, RestartFails,
        FirewallSetup, CommandFails, Commands, UfwAllow, AppendScoped, NothingToDelete, DeleteCopy, TailscaleIP
  <2> QED
    BY <2>1, <2>2, <2>3, <2>4 DEF Next, setupFor
<1> QED
  BY <1>1, <1>2 DEF HostInv

\* What a step has reported stands for what the host is (setupFor, one step per
\* declared piece of state), at every point of every run.
THEOREM ReportsHold == Spec => []HostInv
<1>1. Init => HostInv
  BY HostInit
<1>2. HostInv /\ [Next]_vars => HostInv'
  BY HostStep
<1> QED
  BY <1>1, <1>2, PTL DEF Spec

\* A converged Linux host: every step's fact.
LEMMA LinuxConverged ==
    ASSUME LinuxInv, Converged
    PROVE  /\ unit = "enabled" /\ active /\ ipUp /\ Settled /\ cfg \in Configs
           /\ cfg.declared # "undeclared" => IniPort = cfg.declared
           /\ outcome["xrdpPort"] = "changed" => listens = cfg.declared
<1>1. exit = "ok" /\ \A s \in StepNames : outcome[s] # "none" => Succeeded(outcome[s])
  BY DEF Converged, Reported
<1>2. outcome["xrdpPort"] # "failed"
  BY <1>1 DEF StepNames, Succeeded
<1>3. cfg \in Configs /\ (cfg.declared # "undeclared" => cfg.declared \in Ports)
  BY DEF LinuxInv, LinuxTypes, Configs
<1>4. /\ Holds("xrdp", outcome["xrdpPort"] # "failed" => unit = "enabled" /\ active)
      /\ Holds("firewall", Settled) /\ Holds("ip", ipUp)
      /\ cfg.declared \in Ports => IniPort = cfg.declared
      /\ outcome["xrdpPort"] = "changed" => listens = cfg.declared
  BY <1>1, <1>2 DEF LinuxInv, ServiceHolds, FirewallHolds, Past
<1> QED
  BY <1>1, <1>2, <1>3, <1>4 DEF Holds, StepNames

\* ConvergedMeansDeclared, for every host, however many runs failed or were killed before.
THEOREM ConvergedIsDeclared == Spec => []ConvergedMeansDeclared
<1>1. HostInv => ConvergedMeansDeclared
  <2> SUFFICES ASSUME HostInv, Converged PROVE ConvergedMeansDeclared
    BY DEF ConvergedMeansDeclared
  <2>1. CASE goos = "linux" /\ LinuxInv
    BY <2>1, LinuxConverged DEF ConvergedMeansDeclared, Settled
  <2>2. CASE goos = "windows" /\ WindowsInv
    BY <2>2, WindowsConverged DEF ConvergedMeansDeclared
  <2> QED
    BY <2>1, <2>2 DEF HostInv
<1> QED
  BY <1>1, ReportsHold, PTL

\* SecondRunIsQuiet: setupFor is idempotent on a converged host, for every host.
THEOREM SetupIsIdempotent == Spec => []SecondRunIsQuiet
<1>1. HostInv => SecondRunIsQuiet
  <2> SUFFICES ASSUME HostInv, Converged PROVE ~WouldAct
    BY DEF SecondRunIsQuiet
  <2>1. CASE goos = "linux" /\ LinuxInv
    <3>1. /\ unit = "enabled" /\ active /\ Settled
          /\ cfg.declared # "undeclared" => IniPort = cfg.declared
      BY <2>1, LinuxConverged
    <3>2. XrdpPlan # "enable"
      BY <3>1 DEF XrdpPlan
    <3>3. cfg.declared # "undeclared" => xrdpPortRead # "changed"
      BY <3>1 DEF xrdpPortRead
    <3> QED
      BY <2>1, <3>1, <3>2, <3>3 DEF WouldAct, Settled
  <2>2. CASE goos = "windows" /\ WindowsInv
    <3>1. /\ forced /\ ServiceSet \subseteq auto \cap running
          /\ cfg.noSleep \/ TimeoutSet \subseteq awake
          /\ ~silent => profile = "private" /\ ~Denied(deny) /\ rule = "good" /\ rulePort = regPort
      BY <2>2, WindowsConverged
    <3>2. ~silent => RDPPlan(deny) # "enableRDP" /\ windowsFirewallRuleOK(regPort)
      BY <3>1 DEF RDPPlan, windowsFirewallRuleOK
    <3> QED
      BY <2>2, <3>1, <3>2 DEF WouldAct
  <2> QED
    BY <2>1, <2>2 DEF HostInv
<1> QED
  BY <1>1, ReportsHold, PTL

\* firewallCheckStep says of a read what firewallSetupStep makes of it.
LEMMA FirewallForeseen ==
    ASSUME LinuxInv, NEW o \in {"ok", "changed"}, NEW r, r = readLinuxFirewall(TRUE)
    PROVE  firewallCheckStep(r) = o <=>
             (IF FirewallPlan(r) \in Commands THEN FirewallDone(r) ELSE FirewallPlan(r)) = o
<1>1. r.state \in States /\ (r.state = "absent" => r.copies = 0)
  <2>1. CASE ufw = "absent"
    BY <2>1, ReadsIptables DEF LinuxInv, LinuxTypes, ReadOK, States
  <2>2. CASE ufw # "absent"
    BY <2>2, ReadsUfw DEF LinuxInv, LinuxTypes
  <2> QED
    BY <2>1, <2>2
<1>2. CASE r.state = "unknown"
  BY <1>2 DEF firewallCheckStep, FirewallPlan, inactiveUFWDecides, Commands
<1>3. CASE r.state # "unknown" /\ inactiveUFWDecides(r)
  <2>1. firewallCheckStep(r) = "manual"
    BY <1>3 DEF firewallCheckStep
  <2>2. FirewallPlan(r) \in {"ufwAllow", "manual"} /\ FirewallDone(r) = "manual"
    BY <1>3 DEF FirewallPlan, FirewallDone
  <2> QED
    BY <2>1, <2>2
<1>4. CASE r.state = "present" /\ ~inactiveUFWDecides(r)
  <2>1. CASE iptLegacy(r)
    <3>1. FirewallPlan(r) \in Commands
      BY <1>4, <2>1 DEF FirewallPlan, Commands
    <3>2. firewallCheckStep(r) = IF r.foreign THEN "manual" ELSE "changed"
      BY <1>4, <2>1 DEF firewallCheckStep
    <3>3. FirewallDone(r) = IF r.foreign THEN "manual" ELSE "changed"
      BY <1>4, <2>1 DEF FirewallDone
    <3> QED
      BY <3>1, <3>2, <3>3
  <2>2. CASE ~iptLegacy(r)
    <3>1. FirewallPlan(r) = IF r.copies > 0 THEN "manual" ELSE "ok"
      BY <1>4, <2>2 DEF FirewallPlan
    <3>2. firewallCheckStep(r) = IF r.copies > 0 THEN "manual" ELSE "ok"
      BY <1>4, <2>2 DEF firewallCheckStep
    <3> QED
      BY <3>1, <3>2 DEF Commands
  <2> QED
    BY <2>1, <2>2
<1>5. CASE r.state = "blocked" /\ ~inactiveUFWDecides(r)
  BY <1>5 DEF firewallCheckStep, FirewallPlan, Commands
<1>6. CASE r.state = "absent" /\ ~inactiveUFWDecides(r)
  <2>1. FirewallPlan(r) \in Commands /\ FirewallDone(r) = "changed"
    BY <1>6 DEF FirewallPlan, FirewallDone, Commands, iptLegacy
  <2>2. firewallCheckStep(r) = "changed"
    <3>1. ~iptLegacy(r) /\ r.state # "present"
      BY <1>6 DEF iptLegacy
    <3>2. ~(r.copies > 0)
      <4>1. r.copies = 0
        BY <1>1, <1>6
      <4>2. \A c : c = 0 => ~(c > 0)
        OBVIOUS
      <4> QED
        BY <4>1, <4>2, Zenon
    <3> QED
      BY <1>6, <3>1, <3>2 DEF firewallCheckStep
  <2> QED
    BY <2>1, <2>2
<1> QED
  BY <1>1, <1>2, <1>3, <1>4, <1>5, <1>6 DEF States

----------------------------------------------------------------------------
(***************************************************************************)
(* The check before the run: what it said of a step still to come is what  *)
(* the step will read, and what it said of a step that is past came true.  *)
(***************************************************************************)
BeforeFirewall == {"xrdp", "enable", "xrdpPort", "writeIni", "restart", "firewall"}
LinuxChecks == {"xrdp", "xrdpPort", "firewall", "ip"}

LinuxForeseen ==
    /\ DOMAIN foreseen = LinuxChecks
    /\ pc \in {"xrdp", "enable"} => foreseen["xrdp"] = xrdpCheckStep
    /\ pc = "enable" => XrdpPlan = "enable"
    /\ pc \in AfterService \cup {"off"} => AsForeseen("xrdp")
    /\ pc \in {"xrdp", "enable", "xrdpPort"} =>
         foreseen["xrdpPort"] = IF cfg.declared = "undeclared" THEN "none" ELSE xrdpPortRead
    /\ pc \in {"writeIni", "restart"} => foreseen["xrdpPort"] = "changed"
    /\ pc \in AfterPort \cup {"off"} => AsForeseen("xrdpPort")
    /\ pc \in BeforeFirewall => foreseen["firewall"] = firewallCheckStep(readLinuxFirewall(TRUE))
    /\ pc \in Commands =>
         /\ foreseen["firewall"] \notin {"none", "ok"}
         /\ foreseen["firewall"] = "changed" <=> FirewallDone(read) = "changed"
    /\ pc \in AfterFirewall \cup {"off"} => AsForeseen("firewall")
    /\ pc \notin {"done", "off"} => foreseen["ip"] = IF ipUp THEN "ok" ELSE "failed"
    /\ pc \in {"done", "off"} => AsForeseen("ip")

\* A step that is past stays as foreseen.
LEMMA StaysForeseen ==
    ASSUME NEW s, AsForeseen(s), foreseen' = foreseen, outcome'[s] = outcome[s],
           s = "xrdpPort" => unit' = unit
    PROVE  AsForeseen(s)'
<1>1. s = "xrdpPort" => (Startable <=> Startable')
  BY DEF Startable
<1> QED
  BY <1>1 DEF AsForeseen

\* A step whose check said what it reports is as foreseen.
LEMMA ForeseenReports ==
    ASSUME NEW s, foreseen[s] = outcome[s]
    PROVE  AsForeseen(s)
  BY DEF AsForeseen

\* A command that fails is counted.
LEMMA BreaksCounts ==
    ASSUME faults \in Nat, Breaks
    PROVE  faults' # faults /\ faults' \in Nat
  BY DEF Breaks

\* The check of a service reads what its setup does.
LEMMA XrdpForeseen ==
    /\ xrdpCheckStep # "none" /\ XrdpPlan \in {"failed", "ok", "enable"}
    /\ xrdpCheckStep = "ok" <=> XrdpPlan = "ok"
    /\ xrdpCheckStep = "changed" <=> XrdpPlan = "enable"
  BY DEF xrdpCheckStep, XrdpPlan, xrdpUnmet

\* The reads of the same firewall agree.
LEMMA SameRead == UNCHANGED fwVars => readLinuxFirewall(TRUE)' = readLinuxFirewall(TRUE)
  BY DEF fwVars, readLinuxFirewall, readUFW, IptRead

\* So does what the check says of them.
LEMMA SameCheck ==
    UNCHANGED fwVars =>
        firewallCheckStep(readLinuxFirewall(TRUE))' = firewallCheckStep(readLinuxFirewall(TRUE))
<1> SUFFICES ASSUME UNCHANGED fwVars
             PROVE  firewallCheckStep(readLinuxFirewall(TRUE)') = firewallCheckStep(readLinuxFirewall(TRUE))
  OBVIOUS
<1>1. readLinuxFirewall(TRUE)' = readLinuxFirewall(TRUE)
  BY SameRead
<1> QED
  BY <1>1

\* xrdpSetupStep, undisturbed.
LEMMA XrdpAsForeseen ==
    ASSUME LinuxInv, LinuxForeseen, XrdpSetup \/ Enable \/ EnableFails,
           faults \in Nat, faults' = faults, foreseen' = foreseen
    PROVE  LinuxForeseen'
<1>1. /\ pc \in {"xrdp", "enable"} /\ DOMAIN outcome = StepNames /\ outcome["xrdpPort"] = "none"
      /\ foreseen["xrdp"] = xrdpCheckStep /\ (pc = "enable" => XrdpPlan = "enable")
      /\ cfg \in Configs
  BY DEF LinuxInv, RunOK, LinuxTypes, LinuxForeseen, XrdpSetup, Enable, EnableFails
<1>2. ~Breaks
  BY BreaksCounts
<1>3. /\ cfg' = cfg /\ UNCHANGED <<ini, ipUp, read>> /\ UNCHANGED fwVars
      /\ \/ pc = "xrdp" /\ pc' = "enable" /\ XrdpPlan = "enable" /\ outcome' = outcome /\ unit' = unit /\ active' = active
         \/ Report("xrdp", XrdpPlan, AfterXrdp) /\ pc = "xrdp" /\ XrdpPlan # "enable"
         \/ Report("xrdp", "changed", AfterXrdp) /\ pc = "enable"
  <2>1. CASE XrdpSetup
    BY <1>2, <2>1 DEF XrdpSetup, Works, linuxVars, xrdpVars
  <2>2. CASE Enable
    BY <2>2 DEF Enable, Works
  <2>3. CASE EnableFails
    BY <1>2, <2>3 DEF EnableFails
  <2> QED
    BY <2>1, <2>2, <2>3
<1>5. xrdpPortRead' = xrdpPortRead
  BY <1>3 DEF xrdpPortRead, IniPort
<1>6. firewallCheckStep(readLinuxFirewall(TRUE))' = firewallCheckStep(readLinuxFirewall(TRUE))
  BY <1>3, SameCheck
<1>7. /\ foreseen["xrdpPort"] = IF cfg.declared = "undeclared" THEN "none" ELSE xrdpPortRead
      /\ foreseen["firewall"] = firewallCheckStep(readLinuxFirewall(TRUE))
      /\ foreseen["ip"] = IF ipUp THEN "ok" ELSE "failed"
      /\ DOMAIN foreseen = LinuxChecks
  BY <1>1 DEF LinuxForeseen, BeforeFirewall
<1>8. CASE pc' = "enable" /\ XrdpPlan = "enable" /\ outcome' = outcome /\ unit' = unit /\ active' = active
  <2>1. xrdpCheckStep' = xrdpCheckStep /\ XrdpPlan' = XrdpPlan
    BY <1>8 DEF xrdpCheckStep, XrdpPlan, xrdpUnmet
  <2> QED
    BY <1>1, <1>3, <1>5, <1>6, <1>7, <1>8, <2>1
      DEF LinuxForeseen, AfterService, AfterPort, AfterFirewall, BeforeFirewall, Commands
<1>9. CASE pc' # "enable"
  <2>1. PICK o : /\ Report("xrdp", o, AfterXrdp) /\ o \in {"failed", "ok", "changed"}
                 /\ o = "ok" <=> xrdpCheckStep = "ok"
                 /\ o = "changed" <=> xrdpCheckStep = "changed"
    BY <1>1, <1>3, <1>9, XrdpForeseen
  <2>2. /\ pc' = AfterXrdp /\ outcome'["xrdp"] = o /\ outcome'["xrdpPort"] = "none"
    BY <1>1, <2>1 DEF Report, StepNames
  <2>3. AsForeseen("xrdp")'
    BY <1>1, <2>1, <2>2, XrdpForeseen DEF AsForeseen
  <2>4. CASE cfg.declared = "undeclared"
    <3>1. pc' = "firewall" /\ foreseen'["xrdpPort"] = outcome'["xrdpPort"]
      BY <1>7, <2>2, <2>4 DEF AfterXrdp
    <3>2. AsForeseen("xrdpPort")'
      BY <3>1, ForeseenReports DEF AsForeseen
    <3> QED
      BY <1>3, <1>6, <1>7, <2>3, <3>1, <3>2
        DEF LinuxForeseen, AfterService, AfterPort, AfterFirewall, BeforeFirewall, Commands
  <2>5. CASE cfg.declared # "undeclared"
    <3>1. pc' = "xrdpPort"
      BY <2>2, <2>5 DEF AfterXrdp
    <3> QED
      BY <1>3, <1>5, <1>6, <1>7, <2>3, <2>5, <3>1
        DEF LinuxForeseen, AfterService, AfterPort, AfterFirewall, BeforeFirewall, Commands
  <2> QED
    BY <2>4, <2>5
<1> QED
  BY <1>3, <1>8, <1>9 DEF Report, AfterXrdp

\* xrdpPortSetupStep, undisturbed: the restart of a unit that cannot be started is refused.
LEMMA PortAsForeseen ==
    ASSUME LinuxInv, LinuxForeseen, XrdpPortSetup \/ WriteIni \/ Restart \/ RestartFails,
           faults \in Nat, faults' = faults, foreseen' = foreseen
    PROVE  LinuxForeseen'
<1>1. /\ pc \in {"xrdpPort", "writeIni", "restart"} /\ DOMAIN outcome = StepNames /\ cfg.declared \in Ports
      /\ pc = "xrdpPort" => foreseen["xrdpPort"] = xrdpPortRead
      /\ pc # "xrdpPort" => foreseen["xrdpPort"] = "changed"
      /\ AsForeseen("xrdp") /\ DOMAIN foreseen = LinuxChecks
      /\ foreseen["firewall"] = firewallCheckStep(readLinuxFirewall(TRUE))
      /\ foreseen["ip"] = IF ipUp THEN "ok" ELSE "failed"
  <2>1. pc \in {"xrdpPort", "writeIni", "restart"}
    BY DEF XrdpPortSetup, WriteIni, Restart, RestartFails
  <2> QED
    BY <2>1 DEF LinuxInv, RunOK, LinuxTypes, LinuxForeseen, Ports, AfterService, BeforeFirewall
<1>2. ~Breaks
  BY BreaksCounts
<1>3. /\ cfg' = cfg /\ UNCHANGED <<unit, ipUp, read>> /\ UNCHANGED fwVars
      /\ \/ pc' \in {"writeIni", "restart"} /\ outcome' = outcome /\ (pc = "xrdpPort" => xrdpPortRead = "changed")
         \/ Report("xrdpPort", xrdpPortRead, "firewall") /\ pc = "xrdpPort" /\ xrdpPortRead # "changed"
         \/ Report("xrdpPort", "changed", "firewall") /\ pc = "restart"
         \/ Report("xrdpPort", "failed", "firewall") /\ pc = "restart" /\ ~Startable
  <2>1. CASE XrdpPortSetup
    BY <2>1 DEF XrdpPortSetup, Works, linuxVars, xrdpVars
  <2>2. CASE WriteIni
    BY <1>2, <2>2 DEF WriteIni, Works
  <2>3. CASE Restart
    BY <2>3 DEF Restart, Works
  <2>4. CASE RestartFails
    BY <1>2, <2>4 DEF RestartFails, Works
  <2> QED
    BY <2>1, <2>2, <2>3, <2>4
<1>5. firewallCheckStep(readLinuxFirewall(TRUE))' = firewallCheckStep(readLinuxFirewall(TRUE))
  BY <1>3, SameCheck
<1>6. outcome'["xrdp"] = outcome["xrdp"]
  BY <1>1, <1>3 DEF Report, StepNames
<1>7. AsForeseen("xrdp")'
  BY <1>1, <1>6, StaysForeseen
<1>8. CASE pc' \in {"writeIni", "restart"} /\ (pc = "xrdpPort" => xrdpPortRead = "changed")
  <2>1. foreseen'["xrdpPort"] = "changed"
    BY <1>1, <1>8
  <2> QED
    BY <1>1, <1>3, <1>5, <1>7, <1>8, <2>1
      DEF LinuxForeseen, AfterService, AfterPort, AfterFirewall, BeforeFirewall, Commands
<1>9. CASE pc' \notin {"writeIni", "restart"}
  <2>1. pc' = "firewall"
    BY <1>3, <1>9 DEF Report
  <2>2. Startable' <=> Startable
    BY <1>3 DEF Startable
  <2>3. xrdpPortRead \in {"none", "ok", "changed", "failed"}
    BY DEF xrdpPortRead
  <2>4. \/ outcome'["xrdpPort"] = foreseen["xrdpPort"]
        \/ foreseen["xrdpPort"] = "changed" /\ outcome'["xrdpPort"] = "failed" /\ ~Startable
    BY <1>1, <1>3, <1>9 DEF Report, StepNames
  <2>5. AsForeseen("xrdpPort")'
    BY <2>2, <2>4 DEF AsForeseen
  <2> QED
    BY <1>1, <1>3, <1>5, <1>7, <2>1, <2>5
      DEF LinuxForeseen, AfterService, AfterPort, AfterFirewall, BeforeFirewall, Commands
<1> QED
  BY <1>3, <1>8, <1>9 DEF Report

\* firewallSetupStep reads, undisturbed.
LEMMA FirewallAsForeseen ==
    ASSUME LinuxInv, LinuxForeseen, NEW iptOK \in BOOLEAN, FirewallSetup(iptOK),
           faults \in Nat, faults' = faults, foreseen' = foreseen
    PROVE  LinuxForeseen'
<1>1. iptOK = TRUE
  BY BreaksCounts DEF FirewallSetup
<1>2. PICK r : r = readLinuxFirewall(TRUE)
  OBVIOUS
<1>3. PICK plan : plan = FirewallPlan(r)
  OBVIOUS
<1>4. /\ pc = "firewall" /\ read' = r /\ UNCHANGED <<xrdpVars, ipUp>>
      /\ IF plan \in Commands THEN pc' = plan /\ UNCHANGED outcome ELSE Report("firewall", plan, "ip")
  BY <1>1, <1>2, <1>3 DEF FirewallSetup
<1>5. /\ foreseen["firewall"] = firewallCheckStep(r) /\ DOMAIN foreseen = LinuxChecks
      /\ AsForeseen("xrdp") /\ AsForeseen("xrdpPort")
      /\ foreseen["ip"] = IF ipUp THEN "ok" ELSE "failed"
  BY <1>2, <1>4 DEF LinuxForeseen, AfterService, AfterPort, BeforeFirewall
<1>6. /\ outcome'["xrdp"] = outcome["xrdp"] /\ outcome'["xrdpPort"] = outcome["xrdpPort"]
      /\ plan \notin Commands => outcome'["firewall"] = plan
      /\ pc' = IF plan \in Commands THEN plan ELSE "ip"
  BY <1>4 DEF Report, LinuxInv, RunOK, StepNames
<1>7. AsForeseen("xrdp")' /\ AsForeseen("xrdpPort")'
  <2>1. unit' = unit
    BY <1>4 DEF xrdpVars
  <2>2. AsForeseen("xrdp")'
    BY <1>5, <1>6, StaysForeseen
  <2>3. AsForeseen("xrdpPort")'
    BY <1>5, <1>6, <2>1, StaysForeseen
  <2> QED
    BY <2>2, <2>3
<1>8. firewallCheckStep(r) # "none" /\ plan # "none"
  BY <1>3 DEF firewallCheckStep, FirewallPlan
<1>9. CASE plan \in Commands
  <2>1. \A o \in {"ok", "changed"} : firewallCheckStep(r) = o <=> FirewallDone(r) = o
    BY <1>2, <1>3, <1>9, FirewallForeseen
  <2>2. FirewallDone(r) # "ok"
    BY DEF FirewallDone
  <2>3. /\ foreseen'["firewall"] \notin {"none", "ok"}
        /\ foreseen'["firewall"] = "changed" <=> FirewallDone(read') = "changed"
    BY <1>4, <1>5, <1>8, <2>1, <2>2
  <2> QED
    BY <1>4, <1>5, <1>6, <1>7, <1>9, <2>3
      DEF LinuxForeseen, AfterService, AfterPort, AfterFirewall, BeforeFirewall, Commands
<1>10. CASE plan \notin Commands
  <2>1. \A o \in {"ok", "changed"} : firewallCheckStep(r) = o <=> plan = o
    BY <1>2, <1>3, <1>10, FirewallForeseen
  <2>2. plan # "changed"
    BY <1>3, <1>10 DEF FirewallPlan, Commands
  <2>3. AsForeseen("firewall")'
    BY <1>5, <1>6, <1>8, <1>10, <2>1, <2>2 DEF AsForeseen
  <2> QED
    BY <1>4, <1>5, <1>6, <1>7, <1>10, <2>3
      DEF LinuxForeseen, AfterService, AfterPort, AfterFirewall, BeforeFirewall, Commands
<1> QED
  BY <1>9, <1>10

\* The firewall's commands and tailscale ip, undisturbed.
LEMMA CommandsAsForeseen ==
    ASSUME LinuxInv, LinuxForeseen,
           CommandFails \/ UfwAllow \/ AppendScoped \/ NothingToDelete \/ DeleteCopy \/ TailscaleIP,
           faults \in Nat, faults' = faults, foreseen' = foreseen
    PROVE  LinuxForeseen'
<1>1. ~Breaks
  BY BreaksCounts
<1>2. /\ UNCHANGED <<unit, ipUp, read>>
      /\ \/ /\ pc \in Commands
            /\ \/ pc' = "delete" /\ outcome' = outcome
               \/ Report("firewall", FirewallDone(read), "ip")
         \/ pc = "ip" /\ Report("ip", IF ipUp THEN "ok" ELSE "failed", "done")
  <2>1. CASE CommandFails
    BY <1>1, <2>1 DEF CommandFails
  <2>2. CASE UfwAllow
    BY <2>2 DEF UfwAllow, xrdpVars, Commands
  <2>3. CASE AppendScoped
    BY <2>3 DEF AppendScoped, xrdpVars, Commands, DeletesLeft
  <2>4. CASE NothingToDelete
    BY <2>4 DEF NothingToDelete, linuxVars, xrdpVars, Commands
  <2>5. CASE DeleteCopy
    BY <2>5 DEF DeleteCopy, xrdpVars, Commands, DeletesLeft
  <2>6. CASE TailscaleIP
    BY <2>6 DEF TailscaleIP, linuxVars, xrdpVars
  <2> QED
    BY <2>1, <2>2, <2>3, <2>4, <2>5, <2>6
<1>3. /\ outcome'["xrdp"] = outcome["xrdp"] /\ outcome'["xrdpPort"] = outcome["xrdpPort"]
      /\ pc \in AfterPort /\ pc \in AfterService /\ pc' \in {"delete", "ip", "done"}
      /\ DOMAIN outcome = StepNames
  BY <1>2 DEF Report, LinuxInv, RunOK, StepNames, AfterService, AfterPort, AfterFirewall, Commands
<1>4. AsForeseen("xrdp")' /\ AsForeseen("xrdpPort")'
  <2>1. AsForeseen("xrdp")'
    BY <1>3, StaysForeseen DEF LinuxForeseen
  <2>2. AsForeseen("xrdpPort")'
    BY <1>2, <1>3, StaysForeseen DEF LinuxForeseen
  <2> QED
    BY <2>1, <2>2
<1>5. CASE pc \in Commands
  <2>1. /\ foreseen["firewall"] \notin {"none", "ok"}
        /\ foreseen["firewall"] = "changed" <=> FirewallDone(read) = "changed"
        /\ foreseen["ip"] = IF ipUp THEN "ok" ELSE "failed"
        /\ DOMAIN foreseen = LinuxChecks
    BY <1>5 DEF LinuxForeseen, Commands
  <2>2. FirewallDone(read') = FirewallDone(read) /\ FirewallDone(read) \in {"manual", "changed"}
    <3>1. FirewallDone(read) \in {"manual", "changed"}
      BY DEF FirewallDone
    <3> QED
      BY <1>2, <3>1
  <2>3. CASE pc' = "delete"
    BY <1>2, <1>4, <2>1, <2>2, <2>3
      DEF LinuxForeseen, AfterService, AfterPort, AfterFirewall, BeforeFirewall, Commands
  <2>4. CASE pc' # "delete"
    <3>1. pc' = "ip" /\ outcome'["firewall"] = FirewallDone(read)
      BY <1>2, <1>3, <1>5, <2>4 DEF Report, StepNames, Commands
    <3>2. AsForeseen("firewall")'
      BY <2>1, <2>2, <3>1 DEF AsForeseen
    <3> QED
      BY <1>2, <1>4, <2>1, <3>1, <3>2
        DEF LinuxForeseen, AfterService, AfterPort, AfterFirewall, BeforeFirewall, Commands
  <2> QED
    BY <2>3, <2>4
<1>6. CASE pc = "ip"
  <2>1. /\ pc' = "done" /\ outcome'["ip"] = foreseen'["ip"] /\ outcome'["firewall"] = outcome["firewall"]
        /\ DOMAIN foreseen = LinuxChecks
    BY <1>2, <1>3, <1>6 DEF Report, StepNames, LinuxForeseen, Commands
  <2>2. AsForeseen("ip")'
    BY <2>1 DEF AsForeseen
  <2>3. AsForeseen("firewall")'
    BY <1>6, <2>1, StaysForeseen DEF LinuxForeseen, AfterFirewall
  <2> QED
    BY <1>4, <2>1, <2>2, <2>3
      DEF LinuxForeseen, AfterService, AfterPort, AfterFirewall, BeforeFirewall, Commands
<1> QED
  BY <1>2, <1>5, <1>6

WindowsChecks == {"rdp", "rule", "power"}
BeforeRDP == {"unattended", "service", "config", "configStart", "netStart", "profile", "rdp"}

WindowsForeseen ==
    /\ DOMAIN foreseen = WindowsChecks
    /\ pc \in BeforeRDP => foreseen["rdp"] = rdpCheckStep
    /\ pc \in AfterRDP \cup {"off"} => AsForeseen("rdp")
    /\ pc \in BeforeRDP \cup {"rule"} =>
         /\ foreseen["rule"] = windowsFirewallCheckStep
         /\ outcome["power"] = "none"
         /\ foreseen["power"] = IF cfg.noSleep THEN "none" ELSE powerCheckStep
    /\ pc = "rule" => rdpPort = regPort
    /\ pc \in RuleDone \cup {"off"} => AsForeseen("rule")
    /\ pc = "power" =>
         \/ foreseen["power"] = "ok" /\ outcome["power"] = "none" /\ awake = TimeoutSet
         \/ foreseen["power"] = "changed" /\ outcome["power"] = "none" /\ awake # TimeoutSet
         \/ foreseen["power"] = "changed" /\ outcome["power"] = "changed"
    /\ pc \in {"done", "off"} => AsForeseen("power")

\* The steps before the listener's leave alone what host check reads.
LEMMA EarlyAsForeseen ==
    ASSUME WindowsInv, WindowsForeseen, foreseen' = foreseen,
           Unattended \/ ServiceReads \/ ServiceConfig \/ ServiceStarts \/ ServiceFails \/ NetworkProfile
    PROVE  WindowsForeseen'
<1>0. DOMAIN outcome = StepNames
  BY DEF WindowsInv, RunOK
<1>1. /\ pc \in BeforeRDP /\ pc' \in BeforeRDP /\ outcome'["power"] = outcome["power"]
      /\ UNCHANGED <<cfg, deny, regPort, rule, rulePort, awake>>
  <2>1. CASE Unattended
    BY <1>0, <2>1 DEF Unattended, Report, Works, Breaks, BeforeRDP, StepNames
  <2>2. CASE ServiceReads
    BY <1>0, <2>2 DEF ServiceReads, ServiceReports, Report, Works, Breaks, BeforeRDP, StepNames, hostVars
  <2>3. CASE ServiceConfig \/ ServiceStarts \/ ServiceFails
    BY <1>0, <2>3 DEF ServiceConfig, ServiceStarts, ServiceFails, ServiceReports, Report, Works, Breaks,
        BeforeRDP, StepNames, hostVars
  <2>4. CASE NetworkProfile
    BY <1>0, <2>4 DEF NetworkProfile, Report, Works, Breaks, BeforeRDP, StepNames
  <2> QED
    BY <2>1, <2>2, <2>3, <2>4
<1>2. /\ rdpCheckStep' = rdpCheckStep /\ windowsFirewallCheckStep' = windowsFirewallCheckStep
      /\ powerCheckStep' = powerCheckStep
  BY <1>1 DEF rdpCheckStep, declaredRDPPort, Denied, ByPolicy, windowsFirewallCheckStep, windowsFirewallRuleOK, powerCheckStep
<1>3. /\ foreseen["rdp"] = rdpCheckStep /\ foreseen["rule"] = windowsFirewallCheckStep
      /\ outcome["power"] = "none" /\ foreseen["power"] = IF cfg.noSleep THEN "none" ELSE powerCheckStep
      /\ DOMAIN foreseen = WindowsChecks
  BY <1>1 DEF WindowsForeseen
<1> QED
  BY <1>1, <1>2, <1>3 DEF WindowsForeseen, BeforeRDP, AfterRDP, RuleDone

\* rdpSetupStep, undisturbed.
LEMMA ListenerAsForeseen ==
    ASSUME WindowsInv, WindowsForeseen, faults \in Nat, faults' = faults, foreseen' = foreseen,
           RDPReads \/ RDPUnread \/ EnableRDP \/ RDPSilent
    PROVE  WindowsForeseen'
<1>0. DOMAIN outcome = StepNames /\ ~Breaks
  BY BreaksCounts DEF WindowsInv, RunOK
<1>1. /\ pc = "rdp" /\ rdpPort' = regPort /\ Report("rdp", rdpCheckStep, "rule")
      /\ UNCHANGED <<cfg, regPort, rule, rulePort, awake>>
  <2>1. CASE RDPReads
    <3>1. declaredRDPPort(RDPPlan(deny), regPort) = rdpCheckStep
      BY <2>1 DEF RDPReads, RDPPlan, rdpCheckStep
    <3> QED
      BY <2>1, <3>1 DEF RDPReads, Works, hostVars
  <2>2. CASE EnableRDP
    <3>1. declaredRDPPort("changed", regPort) = rdpCheckStep
      BY <2>2 DEF EnableRDP, RDPPlan, rdpCheckStep
    <3> QED
      BY <1>0, <2>2, <3>1 DEF EnableRDP, Works
  <2> QED
    BY <1>0, <2>1, <2>2 DEF RDPUnread, RDPSilent
<1>2. /\ pc' = "rule" /\ outcome'["rdp"] = rdpCheckStep /\ outcome'["power"] = outcome["power"]
  BY <1>0, <1>1 DEF Report, StepNames
<1>3. /\ windowsFirewallCheckStep' = windowsFirewallCheckStep /\ powerCheckStep' = powerCheckStep
      /\ rdpPort' = regPort'
  BY <1>1 DEF windowsFirewallCheckStep, windowsFirewallRuleOK, powerCheckStep
<1>4. /\ foreseen["rdp"] = rdpCheckStep /\ foreseen["rule"] = windowsFirewallCheckStep
      /\ outcome["power"] = "none" /\ foreseen["power"] = IF cfg.noSleep THEN "none" ELSE powerCheckStep
      /\ DOMAIN foreseen = WindowsChecks
  BY <1>1 DEF WindowsForeseen, BeforeRDP
<1>5. AsForeseen("rdp")'
  BY <1>2, <1>4 DEF AsForeseen
<1> QED
  BY <1>1, <1>2, <1>3, <1>4, <1>5 DEF WindowsForeseen, BeforeRDP, AfterRDP, RuleDone

\* windowsFirewallSetupStep, undisturbed.
LEMMA RuleAsForeseen ==
    ASSUME WindowsInv, WindowsForeseen, faults \in Nat, faults' = faults, foreseen' = foreseen,
           RuleKept \/ RuleRecreated \/ RuleFails
    PROVE  WindowsForeseen'
<1>0. DOMAIN outcome = StepNames /\ ~Breaks /\ awake \subseteq TimeoutSet
  BY BreaksCounts DEF WindowsInv, RunOK, WindowsTypes
<1>1. /\ pc = "rule" /\ UNCHANGED <<cfg, awake>>
      /\ Report("rule", IF windowsFirewallRuleOK(rdpPort) THEN "ok" ELSE "changed", AfterRule)
  <2>1. CASE RuleKept
    BY <2>1 DEF RuleKept, Works, hostVars
  <2>2. CASE RuleRecreated
    BY <2>2 DEF RuleRecreated, Works
  <2>3. ~RuleFails
    BY <1>0 DEF RuleFails
  <2> QED
    BY <2>1, <2>2, <2>3
<1>2. /\ foreseen["rule"] = windowsFirewallCheckStep /\ rdpPort = regPort /\ AsForeseen("rdp")
      /\ outcome["power"] = "none" /\ foreseen["power"] = IF cfg.noSleep THEN "none" ELSE powerCheckStep
      /\ DOMAIN foreseen = WindowsChecks
  BY <1>1 DEF WindowsForeseen, AfterRDP
<1>3. /\ pc' = AfterRule /\ outcome'["rdp"] = outcome["rdp"] /\ outcome'["power"] = "none"
      /\ outcome'["rule"] = foreseen'["rule"]
  BY <1>0, <1>1, <1>2 DEF Report, StepNames, windowsFirewallCheckStep
<1>4. AsForeseen("rule")' /\ AsForeseen("rdp")'
  <2>1. AsForeseen("rule")'
    BY <1>3 DEF AsForeseen
  <2>2. AsForeseen("rdp")'
    BY <1>2, <1>3, StaysForeseen
  <2> QED
    BY <2>1, <2>2
<1>5. CASE cfg.noSleep
  <2>1. pc' = "done" /\ foreseen'["power"] = outcome'["power"]
    BY <1>2, <1>3, <1>5 DEF AfterRule
  <2>2. AsForeseen("power")'
    BY <2>1 DEF AsForeseen
  <2> QED
    BY <1>2, <1>4, <2>1, <2>2 DEF WindowsForeseen, BeforeRDP, AfterRDP, RuleDone
<1>6. CASE ~cfg.noSleep
  <2>1. pc' = "power" /\ foreseen["power"] = powerCheckStep
    BY <1>2, <1>3, <1>6 DEF AfterRule
  <2>2. \/ foreseen'["power"] = "ok" /\ awake' = TimeoutSet
        \/ foreseen'["power"] = "changed" /\ awake' # TimeoutSet
    BY <1>1, <2>1 DEF powerCheckStep
  <2> QED
    BY <1>2, <1>3, <1>4, <2>1, <2>2 DEF WindowsForeseen, BeforeRDP, AfterRDP, RuleDone
<1> QED
  BY <1>5, <1>6

\* powerStep, undisturbed: it reports a change exactly when a timeout was not 0.
LEMMA PowerAsForeseen ==
    ASSUME WindowsInv, WindowsForeseen, faults \in Nat, faults' = faults, foreseen' = foreseen,
           Power \/ PowerFails \/ PowerDone
    PROVE  WindowsForeseen'
<1>0. /\ DOMAIN outcome = StepNames /\ ~Breaks /\ awake \subseteq TimeoutSet /\ at \in Nat \ {0}
      /\ pc = "power" /\ Len(Timeouts) \in Nat
      /\ \A j \in 1 .. Len(Timeouts) : j < at => Timeouts[j] \in awake
  BY BreaksCounts, WindowsLists DEF WindowsInv, RunOK, WindowsTypes, AwakeSoFar, Power, PowerFails, PowerDone
<1>1. /\ AsForeseen("rdp") /\ AsForeseen("rule") /\ DOMAIN foreseen = WindowsChecks
      /\ \/ foreseen["power"] = "ok" /\ outcome["power"] = "none" /\ awake = TimeoutSet
         \/ foreseen["power"] = "changed" /\ outcome["power"] = "none" /\ awake # TimeoutSet
         \/ foreseen["power"] = "changed" /\ outcome["power"] = "changed"
  BY <1>0 DEF WindowsForeseen, AfterRDP, RuleDone
<1>2. outcome'["rdp"] = outcome["rdp"] /\ outcome'["rule"] = outcome["rule"]
  BY <1>0 DEF Power, PowerFails, PowerDone, Report, StepNames
<1>3. AsForeseen("rdp")' /\ AsForeseen("rule")'
  <2>1. AsForeseen("rdp")'
    BY <1>1, <1>2, StaysForeseen
  <2>2. AsForeseen("rule")'
    BY <1>1, <1>2, StaysForeseen
  <2> QED
    BY <2>1, <2>2
<1>4. CASE Power
  <2>1. Timeouts[at] \in TimeoutSet /\ pc' = "power"
    BY <1>0, <1>4 DEF Power, TimeoutSet
  <2>2. \/ UNCHANGED <<outcome, awake>>
        \/ outcome'["power"] = "changed" /\ Timeouts[at] \notin awake
    BY <1>0, <1>4 DEF Power, StepNames
  <2>3. \/ foreseen'["power"] = "ok" /\ outcome'["power"] = "none" /\ awake' = TimeoutSet
        \/ foreseen'["power"] = "changed" /\ outcome'["power"] = "none" /\ awake' # TimeoutSet
        \/ foreseen'["power"] = "changed" /\ outcome'["power"] = "changed"
    BY <1>1, <2>1, <2>2
  <2> QED
    BY <1>1, <1>3, <2>1, <2>3 DEF WindowsForeseen, BeforeRDP, AfterRDP, RuleDone
<1>5. CASE PowerFails
  BY <1>0, <1>5 DEF PowerFails
<1>6. CASE PowerDone
  <2>1. TimeoutSet \subseteq awake
    BY <1>0, <1>6 DEF PowerDone, TimeoutSet
  <2>2. awake = TimeoutSet
    BY <1>0, <2>1
  <2>3. pc' = "done" /\ outcome'["power"] = Worst("power", "ok")
    BY <1>0, <1>6 DEF PowerDone, Report, StepNames
  <2>4. outcome'["power"] = foreseen'["power"]
    BY <1>1, <2>2, <2>3 DEF Worst
  <2>5. AsForeseen("power")'
    BY <2>4 DEF AsForeseen
  <2> QED
    BY <1>1, <1>3, <2>3, <2>5 DEF WindowsForeseen, BeforeRDP, AfterRDP, RuleDone
<1> QED
  BY <1>4, <1>5, <1>6

ForeseenInv ==
    /\ faults \in Nat
    /\ \/ DOMAIN foreseen = {}
       \/ goos = "linux" /\ LinuxForeseen
       \/ goos = "windows" /\ WindowsForeseen

\* The run begins: the check is of the host as it is.
LEMMA BeginForesees ==
    ASSUME HostInv, Begin(FirstStep), UNCHANGED <<linuxVars, windowsVars>>, Foresees
    PROVE  (goos = "linux" /\ LinuxForeseen)' \/ (goos = "windows" /\ WindowsForeseen)'
<1>1. pc = "off" /\ pc' = FirstStep /\ outcome' = NoSteps /\ goos' = goos /\ cfg' = cfg /\ foreseen' = checkFor
  BY DEF Begin, Foresees
<1>2. CASE goos = "linux"
  <2>1. /\ UNCHANGED <<unit, active, ini, ipUp>> /\ UNCHANGED fwVars /\ pc' = "xrdp"
    BY <1>1, <1>2 DEF linuxVars, xrdpVars, FirstStep
  <2>2. xrdpCheckStep' = xrdpCheckStep /\ xrdpPortRead' = xrdpPortRead
    BY <1>1, <2>1 DEF xrdpCheckStep, xrdpPortRead, IniPort
  <2>3. firewallCheckStep(readLinuxFirewall(TRUE))' = firewallCheckStep(readLinuxFirewall(TRUE))
    BY <2>1, SameCheck
  <2>4. PICK f : f = firewallCheckStep(readLinuxFirewall(TRUE))
    OBVIOUS
  <2>5. /\ DOMAIN foreseen' = LinuxChecks /\ foreseen'["xrdp"] = xrdpCheckStep
        /\ foreseen'["xrdpPort"] = IF cfg.declared = "undeclared" THEN "none" ELSE xrdpPortRead
        /\ foreseen'["firewall"] = f /\ foreseen'["ip"] = IF ipUp THEN "ok" ELSE "failed"
    BY <1>1, <1>2, <2>4 DEF checkFor, LinuxChecks
  <2>6. LinuxForeseen'
    BY <1>1, <2>1, <2>2, <2>3, <2>4, <2>5
      DEF LinuxForeseen, AfterService, AfterPort, AfterFirewall, BeforeFirewall, Commands
  <2> QED
    BY <1>1, <1>2, <2>6
<1>3. CASE goos = "windows"
  <2>1. /\ UNCHANGED <<deny, regPort, rule, rulePort, awake>> /\ pc' = "unattended"
    BY <1>1, <1>3 DEF windowsVars, hostVars, FirstStep
  <2>2. /\ rdpCheckStep' = rdpCheckStep /\ windowsFirewallCheckStep' = windowsFirewallCheckStep
        /\ powerCheckStep' = powerCheckStep
    BY <1>1, <2>1 DEF rdpCheckStep, declaredRDPPort, Denied, ByPolicy, windowsFirewallCheckStep, windowsFirewallRuleOK,
        powerCheckStep
  <2>3. /\ DOMAIN foreseen' = WindowsChecks /\ foreseen'["rdp"] = rdpCheckStep
        /\ foreseen'["rule"] = windowsFirewallCheckStep
        /\ foreseen'["power"] = IF cfg.noSleep THEN "none" ELSE powerCheckStep
    BY <1>1, <1>3 DEF checkFor, WindowsChecks
  <2>4. outcome'["power"] = "none"
    BY <1>1 DEF NoSteps, StepNames
  <2>5. WindowsForeseen'
    BY <1>1, <2>1, <2>2, <2>3, <2>4 DEF WindowsForeseen, BeforeRDP, AfterRDP, RuleDone
  <2> QED
    BY <1>1, <1>3, <2>5
<1> QED
  BY <1>2, <1>3 DEF HostInv

\* The run ends.
LEMMA FinishAsForeseen ==
    ASSUME HostInv, ForeseenInv, Finish, UNCHANGED <<linuxVars, windowsVars>>, foreseen' = foreseen
    PROVE  ForeseenInv'
<1>1. pc = "done" /\ pc' = "off" /\ outcome' = outcome /\ goos' = goos /\ cfg' = cfg /\ faults' = faults
  BY DEF Finish
<1>2. unit' = unit
  BY DEF linuxVars, xrdpVars
<1>3. CASE DOMAIN foreseen = {}
  BY <1>1, <1>3 DEF ForeseenInv
<1>4. CASE goos = "linux" /\ LinuxForeseen
  <2>1. AsForeseen("xrdp") /\ AsForeseen("xrdpPort") /\ AsForeseen("firewall") /\ AsForeseen("ip")
    BY <1>1, <1>4 DEF LinuxForeseen, AfterService, AfterPort, AfterFirewall
  <2>2. AsForeseen("xrdp")' /\ AsForeseen("xrdpPort")' /\ AsForeseen("firewall")' /\ AsForeseen("ip")'
    BY <1>1, <1>2, <2>1, StaysForeseen
  <2>3. LinuxForeseen'
    BY <1>1, <1>4, <2>2 DEF LinuxForeseen, BeforeFirewall, Commands
  <2> QED
    BY <1>1, <1>4, <2>3 DEF ForeseenInv
<1>5. CASE goos = "windows" /\ WindowsForeseen
  <2>1. AsForeseen("rdp") /\ AsForeseen("rule") /\ AsForeseen("power")
    BY <1>1, <1>5 DEF WindowsForeseen, AfterRDP, RuleDone
  <2>2. AsForeseen("rdp")' /\ AsForeseen("rule")' /\ AsForeseen("power")'
    BY <1>1, <1>2, <2>1, StaysForeseen
  <2>3. WindowsForeseen'
    BY <1>1, <1>5, <2>2 DEF WindowsForeseen, BeforeRDP
  <2> QED
    BY <1>1, <1>5, <2>3 DEF ForeseenInv
<1> QED
  BY <1>3, <1>4, <1>5 DEF ForeseenInv

\* Nothing happens.
LEMMA StutterForeseen == ForeseenInv /\ UNCHANGED vars => ForeseenInv'
<1> SUFFICES ASSUME ForeseenInv, UNCHANGED vars PROVE ForeseenInv'
  OBVIOUS
<1>1. UNCHANGED <<foreseen, goos, cfg, pc, outcome, faults, ipUp, read>> /\ UNCHANGED fwVars
  BY DEF vars, runVars, linuxVars
<1>2. UNCHANGED <<unit, active, ini, deny, regPort, rule, rulePort, awake, rdpPort>>
  BY DEF vars, linuxVars, xrdpVars, windowsVars, hostVars
<1>3. CASE DOMAIN foreseen = {}
  BY <1>1, <1>3 DEF ForeseenInv
<1>4. CASE goos = "linux" /\ LinuxForeseen
  <2>1. firewallCheckStep(readLinuxFirewall(TRUE))' = firewallCheckStep(readLinuxFirewall(TRUE))
    BY <1>1, SameCheck
  <2>2. xrdpCheckStep' = xrdpCheckStep /\ xrdpPortRead' = xrdpPortRead /\ XrdpPlan' = XrdpPlan
    BY <1>1, <1>2 DEF xrdpCheckStep, xrdpPortRead, IniPort, XrdpPlan, xrdpUnmet
  <2>3. \A t \in LinuxChecks : AsForeseen(t)' <=> AsForeseen(t)
    BY <1>1, <1>2 DEF AsForeseen, Startable
  <2>4. FirewallDone(read)' = FirewallDone(read)
    BY <1>1 DEF FirewallDone, iptLegacy, inactiveUFWDecides
  <2>5. LinuxForeseen'
    BY <1>1, <1>2, <1>4, <2>1, <2>2, <2>3, <2>4, ZenonT(60) DEF LinuxForeseen, LinuxChecks
  <2> QED
    BY <1>1, <1>4, <2>5 DEF ForeseenInv
<1>5. CASE goos = "windows" /\ WindowsForeseen
  <2>1. /\ rdpCheckStep' = rdpCheckStep /\ windowsFirewallCheckStep' = windowsFirewallCheckStep
        /\ powerCheckStep' = powerCheckStep
    BY <1>1, <1>2 DEF rdpCheckStep, declaredRDPPort, Denied, ByPolicy, windowsFirewallCheckStep, windowsFirewallRuleOK,
        powerCheckStep
  <2>2. \A t \in WindowsChecks : AsForeseen(t)' <=> AsForeseen(t)
    BY <1>1, <1>2 DEF AsForeseen, Startable
  <2>3. WindowsForeseen'
    BY <1>1, <1>2, <1>5, <2>1, <2>2 DEF WindowsForeseen, WindowsChecks
  <2> QED
    BY <1>1, <1>5, <2>3 DEF ForeseenInv
<1> QED
  BY <1>3, <1>4, <1>5 DEF ForeseenInv

\* A disturbed run has no check to compare with.
LEMMA EmptyDomain == DOMAIN <<>> = {}
  OBVIOUS

\* Every step keeps it.
LEMMA ForeseenStep == HostInv /\ ForeseenInv /\ [Next]_vars => ForeseenInv'
<1> SUFFICES ASSUME HostInv, ForeseenInv, Next PROVE ForeseenInv'
  BY StutterForeseen
<1>1. CASE (Begin(FirstStep) \/ Finish \/ Killed) /\ UNCHANGED <<linuxVars, windowsVars>>
  <2>1. CASE Begin(FirstStep)
    <3>1. faults' = faults
      BY <2>1 DEF Begin
    <3>2. (goos = "linux" /\ LinuxForeseen)' \/ (goos = "windows" /\ WindowsForeseen)'
      BY <1>1, <2>1, BeginForesees DEF Next
    <3> QED
      BY <3>1, <3>2 DEF ForeseenInv
  <2>2. CASE Finish
    <3>1. foreseen' = foreseen
      BY <2>2 DEF Finish, Next, Foresees
    <3> QED
      BY <1>1, <2>2, <3>1, FinishAsForeseen
  <2>3. CASE Killed
    <3>1. pc # "off" /\ faults' = faults + 1
      BY <2>3 DEF Killed
    <3>2. faults' # faults /\ faults' \in Nat
      BY <3>1 DEF ForeseenInv
    <3>3. DOMAIN foreseen' = {}
      BY <3>1, <3>2, EmptyDomain DEF Next, Foresees
    <3> QED
      BY <3>2, <3>3 DEF ForeseenInv
  <2> QED
    BY <1>1, <2>1, <2>2, <2>3
<1>2. ASSUME LinuxStep \/ WindowsStep PROVE ForeseenInv'
  <2>1. /\ goos' = goos /\ (Works \/ Breaks) /\ pc # "off"
    <3>1. CASE LinuxStep
      BY <3>1 DEF LinuxStep, XrdpSetup, Enable, EnableFails, XrdpPortSetup, WriteIni, Restart, RestartFails,
          FirewallSetup, CommandFails, Commands, UfwAllow, AppendScoped, NothingToDelete, DeleteCopy, TailscaleIP, Works, Breaks
    <3>2. CASE WindowsStep
      BY <3>2 DEF WindowsStep, Unattended, ServiceReads, ServiceConfig, ServiceStarts, ServiceFails, NetworkProfile,
          RDPReads, RDPUnread, EnableRDP, RDPSilent, RuleKept, RuleRecreated, RuleFails, Power, PowerFails, PowerDone, Works, Breaks
    <3> QED
      BY <1>2, <3>1, <3>2
  <2>2. faults' \in Nat
    BY <2>1 DEF ForeseenInv, Works, Breaks
  <2>3. CASE faults' # faults
    <3>1. DOMAIN foreseen' = {}
      BY <2>1, <2>3, EmptyDomain DEF Next, Foresees
    <3> QED
      BY <2>2, <3>1 DEF ForeseenInv
  <2>4. CASE faults' = faults
    <3>1. foreseen' = foreseen
      BY <2>1, <2>4 DEF Next, Foresees
    <3>2. CASE DOMAIN foreseen = {}
      BY <2>2, <3>1, <3>2 DEF ForeseenInv
    <3>3. CASE goos = "linux" /\ LinuxForeseen
      <4>1. LinuxInv
        BY <3>3 DEF HostInv
      <4>2. ~WindowsStep
        BY <4>1 DEF LinuxInv, LinuxTypes, LinuxPoints, AfterService, AfterPort, AfterFirewall,
            WindowsStep, Unattended, ServiceReads, ServiceConfig, ServiceStarts, ServiceFails, NetworkProfile,
            RDPReads, RDPUnread, EnableRDP, RDPSilent, RuleKept, RuleRecreated, RuleFails, Power, PowerFails, PowerDone
      <4>3. faults \in Nat
        BY DEF ForeseenInv
      <4>4. ASSUME XrdpSetup \/ Enable \/ EnableFails PROVE LinuxForeseen'
        BY <2>4, <3>1, <3>3, <4>1, <4>3, <4>4, XrdpAsForeseen
      <4>5. ASSUME XrdpPortSetup \/ WriteIni \/ Restart \/ RestartFails PROVE LinuxForeseen'
        BY <2>4, <3>1, <3>3, <4>1, <4>3, <4>5, PortAsForeseen
      <4>6. ASSUME \E iptOK \in BOOLEAN : FirewallSetup(iptOK) PROVE LinuxForeseen'
        BY <2>4, <3>1, <3>3, <4>1, <4>3, <4>6, FirewallAsForeseen
      <4>7. ASSUME CommandFails \/ UfwAllow \/ AppendScoped \/ NothingToDelete \/ DeleteCopy \/ TailscaleIP PROVE LinuxForeseen'
        BY <2>4, <3>1, <3>3, <4>1, <4>3, <4>7, CommandsAsForeseen
      <4>8. LinuxForeseen'
        BY <1>2, <4>2, <4>4, <4>5, <4>6, <4>7 DEF LinuxStep
      <4> QED
        BY <2>1, <2>2, <3>3, <4>8 DEF ForeseenInv
    <3>4. CASE goos = "windows" /\ WindowsForeseen
      <4>1. WindowsInv
        BY <3>4 DEF HostInv
      <4>2. ~LinuxStep
        BY <4>1 DEF WindowsInv, WindowsTypes, WindowsPoints, AfterUnattended,
            LinuxStep, XrdpSetup, Enable, EnableFails, XrdpPortSetup, WriteIni, Restart, RestartFails,
            FirewallSetup, CommandFails, Commands, UfwAllow, AppendScoped, NothingToDelete, DeleteCopy, TailscaleIP
      <4>3. faults \in Nat
        BY DEF ForeseenInv
      <4>4. ASSUME Unattended \/ ServiceReads \/ ServiceConfig \/ ServiceStarts \/ ServiceFails \/ NetworkProfile PROVE WindowsForeseen'
        BY <3>1, <3>4, <4>1, <4>4, EarlyAsForeseen
      <4>5. ASSUME RDPReads \/ RDPUnread \/ EnableRDP \/ RDPSilent PROVE WindowsForeseen'
        BY <2>4, <3>1, <3>4, <4>1, <4>3, <4>5, ListenerAsForeseen
      <4>6. ASSUME RuleKept \/ RuleRecreated \/ RuleFails PROVE WindowsForeseen'
        BY <2>4, <3>1, <3>4, <4>1, <4>3, <4>6, RuleAsForeseen
      <4>7. ASSUME Power \/ PowerFails \/ PowerDone PROVE WindowsForeseen'
        BY <2>4, <3>1, <3>4, <4>1, <4>3, <4>7, PowerAsForeseen
      <4>8. WindowsForeseen'
        BY <1>2, <4>2, <4>4, <4>5, <4>6, <4>7 DEF WindowsStep
      <4> QED
        BY <2>1, <2>2, <3>4, <4>8 DEF ForeseenInv
    <3> QED
      BY <3>2, <3>3, <3>4 DEF ForeseenInv
  <2> QED
    BY <2>3, <2>4
<1> QED
  BY <1>1, <1>2 DEF Next, setupFor

\* CheckForeseesSetup, for every host: the check steps and the setup steps, code of their
\* own, agree on what is in order and on what a run changes that no failure disturbs.
THEOREM CheckIsSetup == Spec => []CheckForeseesSetup
<1>1. Init => ForeseenInv
  BY EmptyDomain DEF Init, RunInit, ForeseenInv
<1>2. HostInv /\ ForeseenInv /\ [Next]_vars => ForeseenInv'
  BY ForeseenStep
<1>3. HostInv /\ ForeseenInv => CheckForeseesSetup
  <2> SUFFICES ASSUME ForeseenInv, pc = "off", NEW s \in DOMAIN foreseen PROVE AsForeseen(s)
    BY DEF CheckForeseesSetup
  <2>1. CASE LinuxForeseen
    BY <2>1 DEF LinuxForeseen, LinuxChecks
  <2>2. CASE WindowsForeseen
    BY <2>2 DEF WindowsForeseen, WindowsChecks
  <2> QED
    BY <2>1, <2>2 DEF ForeseenInv
<1> QED
  BY <1>1, <1>2, <1>3, ReportsHold, PTL DEF Spec

----------------------------------------------------------------------------
(***************************************************************************)
(* What a command does to the rules of others.  Others replaces each rule  *)
(* of a chain by none or by itself, so it goes over a concatenation.       *)
(***************************************************************************)
\* The first n elements are the same.
SameTo(s, t, n) == \A i \in 1 .. n : s[i] = t[i]

\* Two functions that flatten the same sequences agree.
LEMMA FlattenAgrees ==
    ASSUME NEW s, NEW t, NEW n \in Nat, NEW m \in Nat, n <= m, NEW f, NEW g,
           Flattens(f, n, s), Flattens(g, m, t), SameTo(s, t, n)
    PROVE  SameTo(f, g, n)
<1>1. PICK T : T = {k \in 1 .. n : f[k] # g[k]}
  OBVIOUS
<1> SUFFICES ASSUME T # {} PROVE FALSE
  BY <1>1 DEF SameTo
<1>2. T \subseteq Nat
  BY <1>1
<1>3. PICK k \in T : \A j \in Nat : j < k => j \notin T
  BY <1>2, LeastExists
<1>4. k \in 1 .. n /\ k \in 1 .. m /\ s[k] = t[k] /\ f[k] # g[k]
  BY <1>1, <1>3 DEF SameTo
<1>5. f[k] = IF k = 1 THEN s[k] ELSE f[k - 1] \o s[k]
  <2>1. f = [i \in 1 .. n |-> IF i = 1 THEN s[i] ELSE f[i - 1] \o s[i]]
    BY DEF Flattens
  <2> QED
    BY <1>4, <2>1, Zenon
<1>6. g[k] = IF k = 1 THEN t[k] ELSE g[k - 1] \o t[k]
  <2>1. g = [i \in 1 .. m |-> IF i = 1 THEN t[i] ELSE g[i - 1] \o t[i]]
    BY DEF Flattens
  <2> QED
    BY <1>4, <2>1, Zenon
<1>7. k # 1 => f[k - 1] = g[k - 1]
  <2> SUFFICES ASSUME k # 1 PROVE f[k - 1] = g[k - 1]
    OBVIOUS
  <2>1. k - 1 \in 1 .. n /\ k - 1 \in Nat /\ k - 1 < k
    BY <1>4
  <2> QED
    BY <1>1, <1>3, <2>1
<1> QED
  BY <1>4, <1>5, <1>6, <1>7, Zenon

\* FlattenSeq is what such a function ends with.
LEMMA FlattenIs ==
    ASSUME NEW s, NEW n \in Nat, n = Len(s), n > 0
    PROVE  \E f : Flattens(f, n, s) /\ FlattenSeq(s) = f[n]
<1>1. PICK f : f = CHOOSE x : x = [i \in 1 .. Len(s) |-> IF i = 1 THEN s[i] ELSE x[i - 1] \o s[i]]
  OBVIOUS
<1>2. \E x : x = [i \in 1 .. Len(s) |-> IF i = 1 THEN s[i] ELSE x[i - 1] \o s[i]]
  BY FlattenDefined DEF Flattens
<1>3. f = [i \in 1 .. Len(s) |-> IF i = 1 THEN s[i] ELSE f[i - 1] \o s[i]]
  BY <1>1, <1>2, Zenon
<1>4. FlattenSeq(s) = f[Len(s)]
  <2>1. Len(s) # 0
    OBVIOUS
  <2> QED
    BY <1>1, <2>1 DEF FlattenSeq
<1>5. Flattens(f, n, s)
  BY <1>3, Zenon DEF Flattens
<1> QED
  BY <1>4, <1>5

\* One more sequence at the end.
LEMMA FlattenAppend ==
    ASSUME NEW S, NEW s \in Seq(Seq(S)), NEW p \in Seq(S)
    PROVE  FlattenSeq(Append(s, p)) = FlattenSeq(s) \o p
<1>1. PICK t : t = Append(s, p)
  OBVIOUS
<1>2. PICK n : n = Len(s) /\ n \in Nat
  OBVIOUS
<1>3. t \in Seq(Seq(S)) /\ Len(t) = n + 1 /\ t[n + 1] = p /\ \A i \in 1 .. n : s[i] = t[i]
  BY <1>1, <1>2
<1>4. n + 1 \in Nat /\ n + 1 > 0 /\ n <= n + 1 /\ n + 1 \in 1 .. n + 1
  BY <1>2
<1>5. PICK g : Flattens(g, n + 1, t) /\ FlattenSeq(t) = g[n + 1]
  BY <1>3, <1>4, FlattenIs
<1>6. g[n + 1] = IF n + 1 = 1 THEN t[n + 1] ELSE g[(n + 1) - 1] \o t[n + 1]
  <2>1. g = [i \in 1 .. n + 1 |-> IF i = 1 THEN t[i] ELSE g[i - 1] \o t[i]]
    BY <1>5 DEF Flattens
  <2> QED
    BY <1>4, <2>1, Zenon
<1>7. CASE n = 0
  <2>1. g[n + 1] = p
    BY <1>3, <1>6, <1>7
  <2>2. FlattenSeq(s) = <<>>
    <3>1. Len(s) = 0
      BY <1>2, <1>7
    <3>2. s = <<>>
      BY <3>1
    <3> QED
      BY <3>1, <3>2 DEF FlattenSeq
  <2>3. <<>> \o p = p
    OBVIOUS
  <2> QED
    BY <1>1, <1>5, <2>1, <2>2, <2>3, Zenon
<1>8. CASE n > 0
  <2>1. PICK f : Flattens(f, n, s) /\ FlattenSeq(s) = f[n]
    BY <1>2, <1>8, FlattenIs, Zenon
  <2>2. SameTo(f, g, n)
    <3>1. n \in Nat /\ n + 1 \in Nat /\ n <= n + 1 /\ Flattens(f, n, s) /\ Flattens(g, n + 1, t)
      BY <1>2, <1>4, <1>5, <2>1
    <3>2. SameTo(s, t, n)
      BY <1>3 DEF SameTo
    <3> QED
      BY <3>1, <3>2, FlattenAgrees, Zenon
  <2>3. n \in 1 .. n /\ n + 1 # 1 /\ (n + 1) - 1 = n
    BY <1>2, <1>8
  <2>4. f[n] = g[n]
    BY <2>2, <2>3 DEF SameTo
  <2>5. g[n + 1] = g[n] \o p
    BY <1>3, <1>6, <2>3, Zenon
  <2> QED
    BY <1>1, <1>5, <2>1, <2>4, <2>5, Zenon
<1> QED
  BY <1>2, <1>7, <1>8

\* The sequence of a sequence and one more element.
LEMMA AppendIs ==
    ASSUME NEW S, NEW a \in Seq(S), NEW x \in S
    PROVE  /\ Append(a, x) \in Seq(S) /\ Len(Append(a, x)) = Len(a) + 1 /\ Append(a, x)[Len(a) + 1] = x
           /\ \A i \in 1 .. Len(a) : Append(a, x)[i] = a[i]
  OBVIOUS

\* An element put behind the second of two sequences.
LEMMA ConcatAppend ==
    ASSUME NEW S, NEW a \in Seq(S), NEW b \in Seq(S), NEW x \in S
    PROVE  a \o Append(b, x) = Append(a \o b, x)
  OBVIOUS

\* A prefix, and the element behind it.
LEMMA PrefixAppend ==
    ASSUME NEW S, NEW b \in Seq(S), NEW k \in 1 .. Len(b)
    PROVE  /\ SubSeq(b, 1, k) = Append(SubSeq(b, 1, k - 1), b[k])
           /\ SubSeq(b, 1, k - 1) \in Seq(S)
  OBVIOUS

\* Every element of s replaced by a sequence.
FlatMap(P, s) == FlattenSeq([i \in 1 .. Len(s) |-> P[s[i]]])

\* One more element at the end.
LEMMA FlatMapAppend ==
    ASSUME NEW S, NEW P \in [S -> Seq(S)], NEW s \in Seq(S), NEW x \in S
    PROVE  FlatMap(P, s) \in Seq(S) /\ FlatMap(P, Append(s, x)) = FlatMap(P, s) \o P[x]
<1>1. PICK a : a = [i \in 1 .. Len(s) |-> P[s[i]]]
  OBVIOUS
<1>2. PICK n : n = Len(s) /\ n \in Nat
  OBVIOUS
<1>3. a \in Seq(Seq(S)) /\ Len(a) = n /\ \A i \in 1 .. n : a[i] = P[s[i]]
  <2>1. a \in [1 .. n -> Seq(S)]
    BY <1>1, <1>2
  <2> QED
    BY <1>1, <1>2, <2>1
<1>4. PICK t : t = Append(s, x)
  OBVIOUS
<1>5. t \in Seq(S) /\ Len(t) = n + 1 /\ t[n + 1] = x /\ \A i \in 1 .. n : t[i] = s[i]
  BY <1>2, <1>4
<1>6. PICK b : b = [i \in 1 .. Len(t) |-> P[t[i]]]
  OBVIOUS
<1>7. b = Append(a, P[x])
  <2>1. PICK c : c = Append(a, P[x])
    OBVIOUS
  <2>2. c \in Seq(Seq(S)) /\ Len(c) = n + 1 /\ c[n + 1] = P[x] /\ \A i \in 1 .. n : c[i] = P[s[i]]
    <3>1. P[x] \in Seq(S)
      OBVIOUS
    <3>2. /\ c \in Seq(Seq(S)) /\ Len(c) = Len(a) + 1 /\ c[Len(a) + 1] = P[x]
          /\ \A i \in 1 .. Len(a) : c[i] = a[i]
      BY <1>3, <2>1, <3>1, AppendIs
    <3> QED
      BY <1>2, <1>3, <3>2
  <2>3. \A i \in 1 .. n + 1 : i \in 1 .. n \/ i = n + 1
    BY <1>2
  <2>4. \A i \in 1 .. n + 1 : c[i] = P[t[i]]
    BY <1>5, <2>2, <2>3
  <2>5. c = [i \in 1 .. n + 1 |-> P[t[i]]]
    <3>1. c \in [1 .. n + 1 -> Seq(S)]
      BY <2>2
    <3> QED
      BY <2>4, <3>1
  <2> QED
    BY <1>5, <1>6, <2>1, <2>5
<1>8. FlattenSeq(b) = FlattenSeq(a) \o P[x]
  BY <1>3, <1>7, FlattenAppend
<1>9. FlattenSeq(a) \in Seq(S)
  BY <1>3, FlattenFacts
<1> QED
  BY <1>1, <1>4, <1>6, <1>8, <1>9 DEF FlatMap

\* Two sequences: by their elements, the last first.
LEMMA FlatMapConcat ==
    ASSUME NEW S, NEW P \in [S -> Seq(S)], NEW a \in Seq(S), NEW b \in Seq(S)
    PROVE  FlatMap(P, a \o b) = FlatMap(P, a) \o FlatMap(P, b)
<1>1. PICK T : T = {k \in 0 .. Len(b) : FlatMap(P, a \o SubSeq(b, 1, k)) # FlatMap(P, a) \o FlatMap(P, SubSeq(b, 1, k))}
  OBVIOUS
<1>2. ASSUME T # {} PROVE FALSE
  <2>1. T \subseteq Nat
    BY <1>1
  <2>2. PICK k \in T : \A j \in Nat : j < k => j \notin T
    BY <1>2, <2>1, LeastExists
  <2>3. k \in 0 .. Len(b) /\ FlatMap(P, a \o SubSeq(b, 1, k)) # FlatMap(P, a) \o FlatMap(P, SubSeq(b, 1, k))
    BY <1>1, <2>2
  <2>4. FlatMap(P, a) \in Seq(S)
    <3>1. CASE S = {}
      <4>1. a = <<>>
        BY <3>1
      <4>2. [i \in 1 .. Len(a) |-> P[a[i]]] = <<>>
        BY <4>1
      <4>3. FlattenSeq(<<>>) = <<>>
        BY DEF FlattenSeq
      <4> QED
        BY <4>2, <4>3, SMTT(30) DEF FlatMap
    <3>2. CASE S # {}
      BY <3>2, FlatMapAppend
    <3> QED
      BY <3>1, <3>2
  <2>5. CASE k = 0
    <3>1. SubSeq(b, 1, k) = <<>>
      BY <2>5
    <3>2. a \o <<>> = a /\ FlatMap(P, a) \o <<>> = FlatMap(P, a)
      BY <2>4
    <3>3. FlatMap(P, <<>>) = <<>>
      BY DEF FlatMap, FlattenSeq
    <3> QED
      BY <2>3, <3>1, <3>2, <3>3
  <2>6. CASE k # 0
    <3>1. k \in 1 .. Len(b) /\ k - 1 \in 0 .. Len(b) /\ k - 1 \in Nat /\ k - 1 < k
      BY <2>3, <2>6
    <3>2. PICK c : c = SubSeq(b, 1, k - 1)
      OBVIOUS
    <3>3. PICK x : x = b[k] /\ x \in S
      BY <3>1
    <3>4. SubSeq(b, 1, k) = Append(c, x) /\ c \in Seq(S)
      BY <3>1, <3>2, <3>3, PrefixAppend
    <3>5. FlatMap(P, a \o c) = FlatMap(P, a) \o FlatMap(P, c)
      BY <1>1, <2>2, <3>1, <3>2
    <3>6. a \o Append(c, x) = Append(a \o c, x) /\ a \o c \in Seq(S)
      BY <3>3, <3>4, ConcatAppend
    <3>7. FlatMap(P, Append(a \o c, x)) = FlatMap(P, a \o c) \o P[x]
      BY <3>3, <3>6, FlatMapAppend
    <3>8. FlatMap(P, Append(c, x)) = FlatMap(P, c) \o P[x] /\ FlatMap(P, c) \in Seq(S)
      BY <3>3, <3>4, FlatMapAppend
    <3>9. (FlatMap(P, a) \o FlatMap(P, c)) \o P[x] = FlatMap(P, a) \o (FlatMap(P, c) \o P[x])
      <4>1. P[x] \in Seq(S) /\ FlatMap(P, c) \in Seq(S)
        BY <3>3, <3>8
      <4>2. PICK u, v, w : u = FlatMap(P, a) /\ v = FlatMap(P, c) /\ w = P[x]
        OBVIOUS
      <4>3. u \in Seq(S) /\ v \in Seq(S) /\ w \in Seq(S)
        BY <2>4, <4>1, <4>2
      <4>4. (u \o v) \o w = u \o (v \o w)
        BY <4>3, SMTT(30)
      <4> QED
        BY <4>2, <4>4, Zenon
    <3>10. FlatMap(P, a \o SubSeq(b, 1, k)) = FlatMap(P, a) \o FlatMap(P, SubSeq(b, 1, k))
      BY <3>4, <3>5, <3>6, <3>7, <3>8, <3>9, Zenon
    <3> QED
      BY <2>3, <3>10
  <2> QED
    BY <2>5, <2>6
<1>3. SubSeq(b, 1, Len(b)) = b /\ Len(b) \in 0 .. Len(b)
  OBVIOUS
<1> QED
  BY <1>1, <1>2, <1>3

\* What a rule adds to the rules of others.
NotOwn == [r \in Rule |-> IF r.own THEN <<>> ELSE <<r>>]

\* Others as such a map.
LEMMA OthersIs ==
    /\ NotOwn \in [Rule -> Seq(Rule)]
    /\ \A chain \in Seq(Rule) : Others(chain) = FlatMap(NotOwn, chain)
<1>1. NotOwn \in [Rule -> Seq(Rule)]
  BY DEF NotOwn
<1>2. ASSUME NEW chain \in Seq(Rule) PROVE Others(chain) = FlatMap(NotOwn, chain)
  <2>1. \A i \in 1 .. Len(chain) : NotOwn[chain[i]] = IF chain[i].own THEN <<>> ELSE <<chain[i]>>
    BY DEF NotOwn
  <2>2. [i \in 1 .. Len(chain) |-> NotOwn[chain[i]]] =
            [i \in 1 .. Len(chain) |-> IF chain[i].own THEN <<>> ELSE <<chain[i]>>]
    BY <2>1, Zenon
  <2> QED
    BY <2>2 DEF Others, FlatMap
<1> QED
  BY <1>1, <1>2

\* What is put at the end leaves the sequence before it.
LEMMA ConcatPrefix ==
    ASSUME NEW S, NEW a \in Seq(S), NEW b \in Seq(S)
    PROVE  IsPrefix(a, a \o b)
<1>1. PICK c : c = a \o b
  OBVIOUS
<1>2. c \in Seq(S) /\ Len(c) = Len(a) + Len(b) /\ \A i \in 1 .. Len(a) : c[i] = a[i]
  BY <1>1
<1>3. Len(a) \in Nat /\ Len(b) \in Nat /\ Len(a) <= Len(c)
  BY <1>2
<1>4. SubSeq(a, 1, Len(a)) = SubSeq(c, 1, Len(a))
  BY <1>2, <1>3
<1> QED
  BY <1>1, <1>3, <1>4 DEF IsPrefix

\* The scoped rule goes behind the rules of others.
LEMMA AppendKeepsOthers ==
    ASSUME NEW rules \in Seq(Rule)
    PROVE  IsPrefix(Others(rules), Others(Append(rules, iptablesAppend)))
<1>1. iptablesAppend \in Rule
  BY DEF iptablesAppend, Accept, Rule, Targets, Matches, Scopes
<1>2. PICK new : new = Append(rules, iptablesAppend)
  OBVIOUS
<1>2a. new \in Seq(Rule)
  BY <1>1, <1>2, AppendIs
<1>3. /\ FlatMap(NotOwn, rules) \in Seq(Rule)
      /\ FlatMap(NotOwn, new) = FlatMap(NotOwn, rules) \o NotOwn[iptablesAppend]
  BY <1>1, <1>2, OthersIs, FlatMapAppend
<1>4. NotOwn[iptablesAppend] \in Seq(Rule)
  BY <1>1, OthersIs
<1>5. Others(rules) = FlatMap(NotOwn, rules) /\ Others(new) = FlatMap(NotOwn, new)
  BY <1>2a, OthersIs
<1>6. IsPrefix(FlatMap(NotOwn, rules), FlatMap(NotOwn, rules) \o NotOwn[iptablesAppend])
  BY <1>3, <1>4, ConcatPrefix
<1> QED
  BY <1>2, <1>3, <1>5, <1>6

\* RemoveFirstMatch takes one copy out.
LEMMA RemoveShape ==
    ASSUME NEW rules \in Seq(Rule), NEW k \in 1 .. Len(rules), rules[k].own
    PROVE  \E p \in 1 .. Len(rules) :
             /\ rules[p].own
             /\ RemoveFirstMatch(rules, LAMBDA r : r.own) =
                    SubSeq(rules, 1, p - 1) \o SubSeq(rules, p + 1, Len(rules))
<1>1. PICK O : O = {i \in 1 .. Len(rules) : rules[i].own}
  OBVIOUS
<1>2. PICK p : p = Min(O)
  OBVIOUS
<1>3. O \subseteq Nat /\ O # {}
  BY <1>1
<1>4. p \in 1 .. Len(rules) /\ rules[p].own
  BY <1>1, <1>2, <1>3, MinIsLeast
<1>5. SelectInSeq(rules, LAMBDA r : r.own) = p
  BY <1>1, <1>2, <1>3 DEF SelectInSeq
<1>6. RemoveFirstMatch(rules, LAMBDA r : r.own) = SubSeq(rules, 1, p - 1) \o SubSeq(rules, p + 1, Len(rules))
  BY <1>4, <1>5 DEF RemoveFirstMatch, RemoveAt
<1> QED
  BY <1>4, <1>6

\* A sequence around one of its elements.
LEMMA SplitAt ==
    ASSUME NEW S, NEW s \in Seq(S), NEW p \in 1 .. Len(s)
    PROVE  /\ SubSeq(s, 1, p - 1) \in Seq(S) /\ SubSeq(s, p + 1, Len(s)) \in Seq(S)
           /\ s = Append(SubSeq(s, 1, p - 1), s[p]) \o SubSeq(s, p + 1, Len(s))
<1>1. PICK n : n = Len(s) /\ n \in Nat
  OBVIOUS
<1>2. PICK a : a = SubSeq(s, 1, p - 1)
  OBVIOUS
<1>3. PICK b : b = SubSeq(s, p + 1, n)
  OBVIOUS
<1>4. p \in Nat /\ 1 <= p /\ p <= n /\ s[p] \in S
  BY <1>1
<1>5. a \in Seq(S) /\ Len(a) = p - 1 /\ \A i \in 1 .. p - 1 : a[i] = s[i]
  BY <1>1, <1>2, <1>4
<1>6. b \in Seq(S) /\ Len(b) = n - p /\ \A i \in 1 .. n - p : b[i] = s[p + i]
  BY <1>1, <1>3, <1>4
<1>7. PICK c : c = Append(a, s[p])
  OBVIOUS
<1>8. c \in Seq(S) /\ Len(c) = p /\ c[p] = s[p] /\ \A i \in 1 .. p - 1 : c[i] = s[i]
  <2>1. /\ c \in Seq(S) /\ Len(c) = Len(a) + 1 /\ c[Len(a) + 1] = s[p]
        /\ \A i \in 1 .. Len(a) : c[i] = a[i]
    BY <1>4, <1>5, <1>7, AppendIs
  <2> QED
    BY <1>4, <1>5, <2>1
<1>9. PICK t : t = c \o b
  OBVIOUS
<1>10. /\ t \in Seq(S) /\ Len(t) = n
       /\ \A i \in 1 .. n : t[i] = IF i <= p THEN c[i] ELSE b[i - p]
  <2>1. /\ t \in Seq(S) /\ Len(t) = Len(c) + Len(b)
        /\ \A i \in 1 .. Len(c) + Len(b) : t[i] = IF i <= Len(c) THEN c[i] ELSE b[i - Len(c)]
    BY <1>6, <1>8, <1>9, ConcatFacts
  <2> QED
    BY <1>1, <1>4, <1>6, <1>8, <2>1
<1>11. ASSUME NEW i \in 1 .. n PROVE t[i] = s[i]
  <2>1. CASE i < p
    BY <1>1, <1>4, <1>8, <1>10, <2>1
  <2>2. CASE i = p
    BY <1>1, <1>4, <1>8, <1>10, <2>2
  <2>3. CASE i > p
    <3>1. i - p \in 1 .. n - p /\ p + (i - p) = i /\ ~(i <= p)
      BY <1>1, <1>4, <2>3
    <3> QED
      BY <1>6, <1>10, <3>1
  <2> QED
    BY <1>1, <1>4, <2>1, <2>2, <2>3
<1>12. t = s
  BY <1>1, <1>10, <1>11
<1> QED
  BY <1>1, <1>2, <1>3, <1>5, <1>6, <1>7, <1>9, <1>12

\* A deleted copy leaves the rules of others.
LEMMA RemoveKeepsOthers ==
    ASSUME NEW rules \in Seq(Rule), NEW k \in 1 .. Len(rules), rules[k].own
    PROVE  Others(RemoveFirstMatch(rules, LAMBDA r : r.own)) = Others(rules)
<1>1. PICK new : new = RemoveFirstMatch(rules, LAMBDA r : r.own)
  OBVIOUS
<1>2. PICK p \in 1 .. Len(rules) :
        rules[p].own /\ new = SubSeq(rules, 1, p - 1) \o SubSeq(rules, p + 1, Len(rules))
  BY <1>1, RemoveShape
<1>3. PICK a, b, x : a = SubSeq(rules, 1, p - 1) /\ b = SubSeq(rules, p + 1, Len(rules)) /\ x = rules[p]
  OBVIOUS
<1>4. a \in Seq(Rule) /\ b \in Seq(Rule) /\ x \in Rule /\ x.own /\ rules = Append(a, x) \o b /\ new = a \o b
  <2>1. a \in Seq(Rule) /\ b \in Seq(Rule) /\ rules = Append(a, x) \o b
    BY <1>3, SplitAt
  <2>2. x \in Rule /\ x.own /\ new = a \o b
    BY <1>2, <1>3
  <2> QED
    BY <2>1, <2>2
<1>5. NotOwn \in [Rule -> Seq(Rule)] /\ NotOwn[x] = <<>>
  BY <1>4, OthersIs DEF NotOwn
<1>6. FlatMap(NotOwn, a) \in Seq(Rule) /\ FlatMap(NotOwn, Append(a, x)) = FlatMap(NotOwn, a) \o <<>>
  <2>1. FlatMap(NotOwn, a) \in Seq(Rule) /\ FlatMap(NotOwn, Append(a, x)) = FlatMap(NotOwn, a) \o NotOwn[x]
    <3>1. a \in Seq(Rule) /\ x \in Rule /\ NotOwn \in [Rule -> Seq(Rule)]
      BY <1>4, <1>5
    <3> QED
      BY <3>1, FlatMapAppend, Zenon
  <2> QED
    BY <1>5, <2>1
<1>7. FlatMap(NotOwn, a) \o <<>> = FlatMap(NotOwn, a)
  BY <1>6
<1>8. Append(a, x) \in Seq(Rule) /\ new \in Seq(Rule)
  BY <1>4
<1>9. FlatMap(NotOwn, rules) = FlatMap(NotOwn, Append(a, x)) \o FlatMap(NotOwn, b)
  BY <1>4, <1>5, <1>8, FlatMapConcat
<1>10. FlatMap(NotOwn, new) = FlatMap(NotOwn, a) \o FlatMap(NotOwn, b)
  BY <1>4, <1>5, FlatMapConcat
<1>11. Others(new) = FlatMap(NotOwn, new) /\ Others(rules) = FlatMap(NotOwn, rules)
  BY <1>8, OthersIs
<1> QED
  BY <1>1, <1>6, <1>7, <1>9, <1>10, <1>11

\* No rule changes: nothing to show.
LEMMA StillOthers ==
    ASSUME NEW a \in Seq(Rule), NEW b \in Seq(Rule), b = a
    PROVE  IsPrefix(a, b)
<1>1. Len(a) \in Nat
  OBVIOUS
<1> QED
  BY <1>1 DEF IsPrefix

\* The steps that run no command on the firewall leave its rules.
LEMMA RulesUntouched ==
    ASSUME [Next]_vars, ~UfwAllow, ~AppendScoped, ~DeleteCopy
    PROVE  ~RulesChange
<1>1. CASE UNCHANGED vars
  BY <1>1 DEF vars, linuxVars, fwVars, RulesChange
<1>2. CASE UNCHANGED linuxVars
  BY <1>2 DEF linuxVars, fwVars, RulesChange
<1>3. CASE LinuxStep
  <2>1. UNCHANGED fwVars
    BY <1>3 DEF LinuxStep, XrdpSetup, Enable, EnableFails, XrdpPortSetup, WriteIni, Restart, RestartFails,
        FirewallSetup, CommandFails, NothingToDelete, TailscaleIP, linuxVars
  <2> QED
    BY <2>1 DEF fwVars, RulesChange
<1> QED
  BY <1>1, <1>2, <1>3 DEF Next, setupFor

\* One step: the commands of iptLegacySetupStep and of ufw add behind, or take a copy out.
LEMMA StepKeepsOthers ==
    ASSUME HostInv, [Next]_vars, RulesChange
    PROVE  IsPrefix(Others(input), Others(input')) /\ IsPrefix(ufwRules, ufwRules')
<1>1. UfwAllow \/ AppendScoped \/ DeleteCopy
  BY RulesUntouched
<1>2. LinuxInv
  <2>1. pc \in {"ufwAllow", "append", "delete"}
    BY <1>1 DEF UfwAllow, AppendScoped, DeleteCopy
  <2> QED
    BY <2>1 DEF HostInv, WindowsInv, WindowsTypes, WindowsPoints, AfterUnattended
<1>3. input \in Seq(Rule) /\ ufwRules \in Seq(Rule)
  BY <1>2 DEF LinuxInv, LinuxTypes
<1>4. Others(input) \in Seq(Rule)
  <2>1. NotOwn \in [Rule -> Seq(Rule)] /\ Others(input) = FlatMap(NotOwn, input) /\ ufwAllow \in Rule
    BY <1>3, OthersIs DEF ufwAllow, Accept, Rule, Targets, Matches, Scopes
  <2> QED
    BY <1>3, <2>1, FlatMapAppend
<1>5. CASE UfwAllow
  <2>1. input' = input /\ ufwRules' = Append(ufwRules, ufwAllow)
    BY <1>5 DEF UfwAllow
  <2>2. ufwAllow \in Rule
    BY DEF ufwAllow, Accept, Rule, Targets, Matches, Scopes
  <2>3. Append(ufwRules, ufwAllow) = ufwRules \o <<ufwAllow>> /\ <<ufwAllow>> \in Seq(Rule)
    BY <1>3, <2>2
  <2>4. IsPrefix(ufwRules, ufwRules')
    BY <1>3, <2>1, <2>3, ConcatPrefix
  <2> QED
    BY <1>4, <2>1, <2>4, StillOthers
<1>6. CASE AppendScoped
  <2>1. input' = Append(input, iptablesAppend) /\ ufwRules' = ufwRules
    BY <1>6 DEF AppendScoped
  <2>2. IsPrefix(Others(input), Others(Append(input, iptablesAppend)))
    BY <1>3, AppendKeepsOthers
  <2> QED
    BY <1>3, <2>1, <2>2, StillOthers
<1>7. CASE DeleteCopy
  <2>1. input' = RemoveFirstMatch(input, LAMBDA r : r.own) /\ ufwRules' = ufwRules
    BY <1>7 DEF DeleteCopy
  <2>2. CASE \E k \in 1 .. Len(input) : input[k].own
    <3>1. Others(RemoveFirstMatch(input, LAMBDA r : r.own)) = Others(input)
      BY <1>3, <2>2, RemoveKeepsOthers
    <3>2. Others(input') = Others(input)
      BY <2>1, <3>1
    <3> QED
      BY <1>3, <1>4, <2>1, <3>2, StillOthers
  <2>3. CASE ~\E k \in 1 .. Len(input) : input[k].own
    <3>1. input' = input
      BY <2>1, <2>3 DEF RemoveFirstMatch
    <3> QED
      BY <1>3, <1>4, <2>1, <3>1, StillOthers
  <2> QED
    BY <2>2, <2>3
<1> QED
  BY <1>1, <1>5, <1>6, <1>7

\* OperatorRulesStay, for every chain: a rule setup did not write is neither deleted nor
\* moved by iptLegacySetupStep's deletions, and nothing is inserted before it.
THEOREM OperatorsRulesAreKept == Spec => OperatorRulesStay
<1>1. HostInv /\ [Next]_vars =>
        [ RulesChange =>
            IsPrefix(Others(input), Others(input')) /\ IsPrefix(ufwRules, ufwRules') ]_vars
  BY StepKeepsOthers
<1> QED
  BY <1>1, ReportsHold, PTL DEF Spec, OperatorRulesStay

----------------------------------------------------------------------------
(***************************************************************************)
(* What a command does to the packets let in.  A chain's verdict goes over *)
(* a concatenation too: the second chain stands where the policy stood.    *)
(***************************************************************************)
\* A packet meets a rule that applies to it.
Meets(s, p) == \E i \in 1 .. Len(s) : Applies(s[i], p)

\* The first rule of s that applies to p is the i-th.
FirstAt(s, p, i) == /\ i \in 1 .. Len(s) /\ Applies(s[i], p)
                    /\ \A j \in 1 .. Len(s) : j < i => ~Applies(s[j], p)

\* The kernel's verdict on a packet.
LEMMA VerdictFacts ==
    ASSUME NEW s \in Seq(Rule), NEW p, NEW pol
    PROVE  /\ ~Meets(s, p) => Verdict(s, pol, p) = pol
           /\ Meets(s, p) => \E i : FirstAt(s, p, i)
           /\ \A i : FirstAt(s, p, i) => Verdict(s, pol, p) = s[i].target
<1>1. PICK I : I = {i \in 1 .. Len(s) : Applies(s[i], p)}
  OBVIOUS
<1>2. PICK m : m = IF I # {} THEN Min(I) ELSE 0
  OBVIOUS
<1>3. SelectInSeq(s, LAMBDA r : Applies(r, p)) = m
  BY <1>1, <1>2 DEF SelectInSeq
<1>4. Verdict(s, pol, p) = IF m = 0 THEN pol ELSE s[m].target
  BY <1>3 DEF Verdict
<1>5. CASE I = {}
  <2>1. ~Meets(s, p) /\ m = 0 /\ \A i : ~FirstAt(s, p, i)
    BY <1>1, <1>2, <1>5 DEF Meets, FirstAt
  <2> QED
    BY <1>4, <2>1
<1>6. CASE I # {}
  <2>1. I \subseteq Nat
    BY <1>1
  <2>2. m \in I /\ \A j \in I : m <= j
    BY <1>2, <1>6, <2>1, MinIsLeast
  <2>3. m \in 1 .. Len(s) /\ Applies(s[m], p) /\ \A j \in 1 .. Len(s) : Applies(s[j], p) => m <= j
    BY <1>1, <2>2
  <2>4. m # 0 /\ Meets(s, p) /\ FirstAt(s, p, m)
    BY <2>3 DEF Meets, FirstAt
  <2>5. ASSUME NEW i, FirstAt(s, p, i) PROVE i = m
    <3>1. i \in 1 .. Len(s) /\ Applies(s[i], p) /\ ~(m < i) /\ m <= i
      BY <2>3, <2>5 DEF FirstAt
    <3> QED
      BY <2>3, <3>1
  <2> QED
    BY <1>4, <2>4, <2>5
<1> QED
  BY <1>5, <1>6

\* Two chains one after the other: the second stands where the policy stood.
LEMMA VerdictConcat ==
    ASSUME NEW a \in Seq(Rule), NEW b \in Seq(Rule), NEW p, NEW pol
    PROVE  Verdict(a \o b, pol, p) = Verdict(a, Verdict(b, pol, p), p)
<1>1. PICK s : s = a \o b
  OBVIOUS
<1>2. PICK n, m : n = Len(a) /\ n \in Nat /\ m = Len(b) /\ m \in Nat
  OBVIOUS
<1>3. /\ s \in Seq(Rule) /\ Len(s) = n + m
      /\ \A k \in 1 .. n + m : s[k] = IF k <= n THEN a[k] ELSE b[k - n]
  BY <1>1, <1>2, ConcatFacts
<1>4. CASE Meets(a, p)
  <2>1. PICK i : FirstAt(a, p, i)
    BY <1>4, VerdictFacts
  <2>2. i \in 1 .. n /\ Applies(a[i], p) /\ \A j \in 1 .. n : j < i => ~Applies(a[j], p)
    BY <1>2, <2>1 DEF FirstAt
  <2>3. \A j \in 1 .. n + m : j <= i => j \in 1 .. n /\ s[j] = a[j]
    BY <1>2, <1>3, <2>2
  <2>4. i \in 1 .. n + m /\ i <= i
    BY <1>2, <2>2
  <2>5. s[i] = a[i]
    BY <2>3, <2>4
  <2>6. \A j \in 1 .. n + m : j < i => ~Applies(s[j], p)
    <3> SUFFICES ASSUME NEW j \in 1 .. n + m, j < i PROVE ~Applies(s[j], p)
      OBVIOUS
    <3>1. j <= i
      BY <1>2, <2>2
    <3> QED
      BY <2>2, <2>3, <3>1
  <2>7. FirstAt(s, p, i)
    BY <1>3, <2>2, <2>4, <2>5, <2>6 DEF FirstAt
  <2>8. PICK v : v = Verdict(b, pol, p)
    OBVIOUS
  <2>9. Verdict(s, pol, p) = s[i].target
    BY <1>3, <2>7, VerdictFacts
  <2>10. Verdict(a, v, p) = a[i].target
    BY <2>1, VerdictFacts
  <2> QED
    BY <1>1, <2>5, <2>8, <2>9, <2>10
<1>5. CASE ~Meets(a, p)
  <2>1. \A j \in 1 .. n : ~Applies(a[j], p)
    BY <1>2, <1>5 DEF Meets
  <2>2. Verdict(a, Verdict(b, pol, p), p) = Verdict(b, pol, p)
    BY <1>5, VerdictFacts
  <2>3. CASE Meets(b, p)
    <3>1. PICK i : FirstAt(b, p, i)
      BY <2>3, VerdictFacts
    <3>2. i \in 1 .. m /\ Applies(b[i], p) /\ \A j \in 1 .. m : j < i => ~Applies(b[j], p)
      BY <1>2, <3>1 DEF FirstAt
    <3>3. n + i \in 1 .. n + m /\ (n + i) - n = i /\ ~(n + i <= n)
      BY <1>2, <3>2
    <3>4. s[n + i] = b[i]
      BY <1>3, <3>3
    <3>5. \A j \in 1 .. n + m : j < n + i => ~Applies(s[j], p)
      <4> SUFFICES ASSUME NEW j \in 1 .. n + m, j < n + i PROVE ~Applies(s[j], p)
        OBVIOUS
      <4>1. CASE j <= n
        <5>1. j \in 1 .. n /\ s[j] = a[j]
          BY <1>2, <1>3, <4>1
        <5> QED
          BY <2>1, <5>1
      <4>2. CASE ~(j <= n)
        <5>1. j - n \in 1 .. m /\ j - n < i
          BY <1>2, <3>2, <4>2
        <5>2. s[j] = b[j - n]
          BY <1>3, <4>2
        <5> QED
          BY <3>2, <5>1, <5>2
      <4> QED
        BY <4>1, <4>2
    <3>6. FirstAt(s, p, n + i)
      BY <1>3, <3>2, <3>3, <3>4, <3>5 DEF FirstAt
    <3>7. Verdict(s, pol, p) = s[n + i].target /\ Verdict(b, pol, p) = b[i].target
      BY <1>3, <3>1, <3>6, VerdictFacts
    <3> QED
      BY <1>1, <2>2, <3>4, <3>7
  <2>4. CASE ~Meets(b, p)
    <3>1. \A j \in 1 .. m : ~Applies(b[j], p)
      BY <1>2, <2>4 DEF Meets
    <3>2. \A j \in 1 .. n + m : ~Applies(s[j], p)
      <4> SUFFICES ASSUME NEW j \in 1 .. n + m PROVE ~Applies(s[j], p)
        OBVIOUS
      <4>1. CASE j <= n
        <5>1. j \in 1 .. n /\ s[j] = a[j]
          BY <1>2, <1>3, <4>1
        <5> QED
          BY <2>1, <5>1
      <4>2. CASE ~(j <= n)
        <5>1. j - n \in 1 .. m
          BY <1>2, <4>2
        <5>2. s[j] = b[j - n]
          BY <1>3, <4>2
        <5> QED
          BY <3>1, <5>1, <5>2
      <4> QED
        BY <4>1, <4>2
    <3>3. ~Meets(s, p)
      BY <1>3, <3>2 DEF Meets
    <3>4. Verdict(s, pol, p) = pol /\ Verdict(b, pol, p) = pol
      BY <1>3, <2>4, <3>3, VerdictFacts
    <3> QED
      BY <1>1, <2>2, <3>4
  <2> QED
    BY <2>3, <2>4
<1> QED
  BY <1>4, <1>5

\* One rule.
LEMMA VerdictOne ==
    ASSUME NEW r \in Rule, NEW p, NEW pol
    PROVE  Verdict(<<r>>, pol, p) = IF Applies(r, p) THEN r.target ELSE pol
<1>1. PICK s : s = <<r>>
  OBVIOUS
<1>2. s \in Seq(Rule) /\ Len(s) = 1 /\ s[1] = r /\ 1 \in 1 .. 1 /\ \A j \in 1 .. 1 : j = 1
  BY <1>1
<1>3. ASSUME Applies(r, p) PROVE Verdict(s, pol, p) = r.target
  <2>1. FirstAt(s, p, 1)
    BY <1>2, <1>3 DEF FirstAt
  <2> QED
    BY <1>2, <2>1, VerdictFacts
<1>4. ASSUME ~Applies(r, p) PROVE Verdict(s, pol, p) = pol
  <2>1. ~Meets(s, p)
    BY <1>2, <1>4 DEF Meets
  <2> QED
    BY <1>2, <2>1, VerdictFacts
<1> QED
  BY <1>1, <1>3, <1>4

\* A packet the policy lets through, or a rule does, is let through under ACCEPT too.
LEMMA VerdictMonotone ==
    ASSUME NEW s \in Seq(Rule), NEW p, NEW pol
    PROVE  /\ Verdict(s, pol, p) = "ACCEPT" => Verdict(s, "ACCEPT", p) = "ACCEPT"
           /\ Verdict(s, "ACCEPT", p) # "ACCEPT" => Verdict(s, pol, p) = Verdict(s, "ACCEPT", p)
<1>1. CASE Meets(s, p)
  <2>1. PICK i : FirstAt(s, p, i)
    BY <1>1, VerdictFacts
  <2>2. Verdict(s, pol, p) = s[i].target /\ Verdict(s, "ACCEPT", p) = s[i].target
    BY <2>1, VerdictFacts
  <2> QED
    BY <2>2
<1>2. CASE ~Meets(s, p)
  <2>1. Verdict(s, "ACCEPT", p) = "ACCEPT"
    BY <1>2, VerdictFacts
  <2> QED
    BY <2>1
<1> QED
  BY <1>1, <1>2

\* Where every rule that applies lets the packet in, or none does.
LEMMA VerdictUnanimous ==
    ASSUME NEW s \in Seq(Rule), NEW p, NEW pol
    PROVE  /\ Meets(s, p) /\ (\A r : In(r, s) /\ Applies(r, p) => r.target = "ACCEPT") =>
                Verdict(s, pol, p) = "ACCEPT"
           /\ pol # "ACCEPT" /\ (\A r : In(r, s) /\ Applies(r, p) => r.target # "ACCEPT") =>
                Verdict(s, pol, p) # "ACCEPT"
<1>1. CASE Meets(s, p)
  <2>1. PICK i : FirstAt(s, p, i)
    BY <1>1, VerdictFacts
  <2>2. Verdict(s, pol, p) = s[i].target /\ In(s[i], s) /\ Applies(s[i], p)
    BY <2>1, VerdictFacts DEF FirstAt, In
  <2> QED
    BY <2>2
<1>2. CASE ~Meets(s, p)
  BY <1>2, VerdictFacts
<1> QED
  BY <1>1, <1>2

\* What a packet meets for a rule of INPUT: ts-input's rules, ufw's, or the rule itself.
Passes(chain, list) ==
    [r \in Rule |-> IF r.target \in {"tsInput", "tsInputQualified"} THEN chain
                   ELSE IF r.target = "ufw" THEN list ELSE <<r>>]

\* Traversed as such a map.
LEMMA TraversedIs ==
    ASSUME NEW chain \in Seq(Rule), NEW list \in Seq(Rule)
    PROVE  /\ Passes(chain, list) \in [Rule -> Seq(Rule)]
           /\ \A s \in Seq(Rule) : Traversed(s, chain, list) = FlatMap(Passes(chain, list), s)
<1>1. PICK P : P = Passes(chain, list)
  OBVIOUS
<1>2. P \in [Rule -> Seq(Rule)]
  <2>1. \A r \in Rule : <<r>> \in Seq(Rule)
    OBVIOUS
  <2> QED
    BY <1>1, <2>1 DEF Passes
<1>3. ASSUME NEW s \in Seq(Rule) PROVE Traversed(s, chain, list) = FlatMap(P, s)
  <2>1. \A i \in 1 .. Len(s) :
          P[s[i]] = CASE s[i].target \in {"tsInput", "tsInputQualified"} -> chain
                      [] s[i].target = "ufw" -> list
                      [] OTHER -> <<s[i]>>
    BY <1>1 DEF Passes
  <2>2. [i \in 1 .. Len(s) |-> P[s[i]]] =
        [i \in 1 .. Len(s) |->
            CASE s[i].target \in {"tsInput", "tsInputQualified"} -> chain
              [] s[i].target = "ufw" -> list
              [] OTHER -> <<s[i]>>]
    BY <2>1, Zenon
  <2> QED
    BY <2>2 DEF Traversed, FlatMap
<1> QED
  BY <1>1, <1>2, <1>3

\* The rules of such a map.
LEMMA FlatMapIn ==
    ASSUME NEW P \in [Rule -> Seq(Rule)], NEW s \in Seq(Rule)
    PROVE  /\ FlatMap(P, s) \in Seq(Rule)
           /\ \A r : In(r, FlatMap(P, s)) <=> \E x : In(x, s) /\ In(r, P[x])
<1>1. PICK a : a = [i \in 1 .. Len(s) |-> P[s[i]]]
  OBVIOUS
<1>2. a \in [1 .. Len(s) -> Seq(Rule)]
  BY <1>1
<1>3. a \in Seq(Seq(Rule)) /\ Len(a) = Len(s) /\ \A i \in 1 .. Len(s) : a[i] = P[s[i]]
  BY <1>1, <1>2
<1>4. FlattenSeq(a) \in Seq(Rule) /\ \A r : In(r, FlattenSeq(a)) <=> \E i \in 1 .. Len(a) : In(r, a[i])
  BY <1>3, FlattenFacts
<1>5. FlatMap(P, s) = FlattenSeq(a)
  BY <1>1 DEF FlatMap
<1>6. ASSUME NEW r
      PROVE  (\E i \in 1 .. Len(s) : In(r, P[s[i]])) <=> \E x : In(x, s) /\ In(r, P[x])
  <2>1. ASSUME NEW i \in 1 .. Len(s), In(r, P[s[i]]) PROVE \E x : In(x, s) /\ In(r, P[x])
    <3>1. In(s[i], s)
      BY DEF In
    <3> QED
      BY <2>1, <3>1
  <2>2. ASSUME NEW x, In(x, s), In(r, P[x]) PROVE \E i \in 1 .. Len(s) : In(r, P[s[i]])
    <3>1. PICK i \in 1 .. Len(s) : s[i] = x
      BY <2>2 DEF In
    <3> QED
      BY <2>2, <3>1
  <2> QED
    BY <2>1, <2>2
<1>7. ASSUME NEW r PROVE In(r, FlattenSeq(a)) <=> \E i \in 1 .. Len(s) : In(r, P[s[i]])
  BY <1>3, <1>4
<1> QED
  BY <1>4, <1>5, <1>6, <1>7

\* ufw allow puts its rule behind every list of ufw's: what was let in still is.
LEMMA AllowLetsIn ==
    ASSUME NEW chain \in Seq(Rule), NEW list \in Seq(Rule), NEW more, more = Append(list, ufwAllow),
           NEW s \in Seq(Rule), NEW p, NEW pol, Verdict(Traversed(s, chain, list), pol, p) = "ACCEPT"
    PROVE  Verdict(Traversed(s, chain, more), pol, p) = "ACCEPT"
<1>1. ufwAllow \in Rule /\ ufwAllow.target = "ACCEPT" /\ Applies(ufwAllow, p)
  BY DEF ufwAllow, Accept, Rule, Targets, Matches, Scopes, Applies
<1>2. more \in Seq(Rule) /\ more = list \o <<ufwAllow>> /\ <<ufwAllow>> \in Seq(Rule)
  BY <1>1
<1>3. PICK P : P = Passes(chain, list)
  OBVIOUS
<1>4. PICK Q : Q = Passes(chain, more)
  OBVIOUS
<1>5. /\ P \in [Rule -> Seq(Rule)] /\ Traversed(s, chain, list) = FlatMap(P, s)
      /\ Q \in [Rule -> Seq(Rule)] /\ Traversed(s, chain, more) = FlatMap(Q, s)
  BY <1>2, <1>3, <1>4, TraversedIs
<1>6. ASSUME NEW x \in Rule, NEW q
      PROVE  \/ Verdict(Q[x], q, p) = Verdict(P[x], q, p)
             \/ Verdict(P[x], q, p) = q /\ Verdict(Q[x], q, p) = "ACCEPT"
  <2>1. CASE x.target # "ufw"
    <3>1. Q[x] = P[x]
      BY <1>3, <1>4, <2>1 DEF Passes
    <3> QED
      BY <3>1
  <2>2. CASE x.target = "ufw"
    <3>1. P[x] = list /\ Q[x] = more
      BY <1>3, <1>4, <2>2 DEF Passes
    <3>2. Verdict(<<ufwAllow>>, q, p) = "ACCEPT"
      BY <1>1, VerdictOne
    <3>3. Verdict(more, q, p) = Verdict(list, "ACCEPT", p)
      <4>1. Verdict(list \o <<ufwAllow>>, q, p) = Verdict(list, Verdict(<<ufwAllow>>, q, p), p)
        <5>1. PICK u : u = <<ufwAllow>>
          OBVIOUS
        <5>1a. u \in Seq(Rule)
          BY <1>2, <5>1
        <5>2. Verdict(list \o u, q, p) = Verdict(list, Verdict(u, q, p), p)
          BY <5>1a, VerdictConcat
        <5> QED
          BY <5>1, <5>2
      <4> QED
        BY <1>2, <3>2, <4>1
    <3>4. CASE Meets(list, p)
      <4>1. PICK i : FirstAt(list, p, i)
        BY <3>4, VerdictFacts
      <4>2. Verdict(list, q, p) = list[i].target /\ Verdict(list, "ACCEPT", p) = list[i].target
        BY <4>1, VerdictFacts
      <4> QED
        BY <3>1, <3>3, <4>2
    <3>5. CASE ~Meets(list, p)
      <4>1. Verdict(list, q, p) = q /\ Verdict(list, "ACCEPT", p) = "ACCEPT"
        BY <3>5, VerdictFacts
      <4> QED
        BY <3>1, <3>3, <4>1
    <3> QED
      BY <3>4, <3>5
  <2> QED
    BY <2>1, <2>2
<1>7. PICK T : T = {k \in 0 .. Len(s) : ~\A q : Verdict(FlatMap(P, SubSeq(s, 1, k)), q, p) = "ACCEPT" =>
                                               Verdict(FlatMap(Q, SubSeq(s, 1, k)), q, p) = "ACCEPT"}
  OBVIOUS
<1>8. ASSUME T # {} PROVE FALSE
  <2>1. T \subseteq Nat
    BY <1>7
  <2>2. PICK k \in T : \A j \in Nat : j < k => j \notin T
    BY <1>8, <2>1, LeastExists
  <2>3. k \in 0 .. Len(s)
    BY <1>7, <2>2
  <2>4. PICK q : /\ Verdict(FlatMap(P, SubSeq(s, 1, k)), q, p) = "ACCEPT"
                 /\ Verdict(FlatMap(Q, SubSeq(s, 1, k)), q, p) # "ACCEPT"
    BY <1>7, <2>2
  <2>5. CASE k = 0
    <3>1. SubSeq(s, 1, k) = <<>>
      BY <2>5
    <3>2. FlatMap(P, <<>>) = <<>> /\ FlatMap(Q, <<>>) = <<>>
      BY DEF FlatMap, FlattenSeq
    <3> QED
      BY <2>4, <3>1, <3>2
  <2>6. CASE k # 0
    <3>1. k \in 1 .. Len(s) /\ k - 1 \in 0 .. Len(s) /\ k - 1 \in Nat /\ k - 1 < k
      BY <2>3, <2>6
    <3>2. PICK c : c = SubSeq(s, 1, k - 1)
      OBVIOUS
    <3>3. PICK x : x = s[k]
      OBVIOUS
    <3>4. x \in Rule /\ SubSeq(s, 1, k) = Append(c, x) /\ c \in Seq(Rule)
      BY <3>1, <3>2, <3>3, PrefixAppend
    <3>5. \A q0 : Verdict(FlatMap(P, c), q0, p) = "ACCEPT" => Verdict(FlatMap(Q, c), q0, p) = "ACCEPT"
      BY <1>7, <2>2, <3>1, <3>2
    <3>6. /\ FlatMap(P, c) \in Seq(Rule) /\ FlatMap(P, Append(c, x)) = FlatMap(P, c) \o P[x]
          /\ FlatMap(Q, c) \in Seq(Rule) /\ FlatMap(Q, Append(c, x)) = FlatMap(Q, c) \o Q[x]
          /\ P[x] \in Seq(Rule) /\ Q[x] \in Seq(Rule)
      BY <1>5, <3>4, FlatMapAppend, ZenonT(60)
    <3>7. PICK y, z : y = Verdict(P[x], q, p) /\ z = Verdict(Q[x], q, p)
      OBVIOUS
    <3>8. Verdict(FlatMap(P, c) \o P[x], q, p) = Verdict(FlatMap(P, c), y, p)
      <4>1. PICK u, w : u = FlatMap(P, c) /\ w = P[x]
        OBVIOUS
      <4>2. u \in Seq(Rule) /\ w \in Seq(Rule)
        BY <3>6, <4>1
      <4>3. Verdict(u \o w, q, p) = Verdict(u, Verdict(w, q, p), p)
        BY <4>2, VerdictConcat
      <4> QED
        BY <3>7, <4>1, <4>3
    <3>9. Verdict(FlatMap(Q, c) \o Q[x], q, p) = Verdict(FlatMap(Q, c), z, p)
      <4>1. PICK u, w : u = FlatMap(Q, c) /\ w = Q[x]
        OBVIOUS
      <4>2. u \in Seq(Rule) /\ w \in Seq(Rule)
        BY <3>6, <4>1
      <4>3. Verdict(u \o w, q, p) = Verdict(u, Verdict(w, q, p), p)
        BY <4>2, VerdictConcat
      <4> QED
        BY <3>7, <4>1, <4>3
    <3>10. Verdict(FlatMap(P, c), y, p) = "ACCEPT" /\ Verdict(FlatMap(Q, c), z, p) # "ACCEPT"
      BY <2>4, <3>4, <3>6, <3>8, <3>9
    <3>11. z = y \/ z = "ACCEPT"
      BY <1>6, <3>4, <3>7
    <3>12. Verdict(FlatMap(P, c), "ACCEPT", p) = "ACCEPT"
      BY <3>6, <3>10, VerdictMonotone
    <3> QED
      BY <3>5, <3>10, <3>11, <3>12
  <2> QED
    BY <2>5, <2>6
<1>9. SubSeq(s, 1, Len(s)) = s /\ Len(s) \in 0 .. Len(s)
  OBVIOUS
<1>10. Verdict(FlatMap(P, s), pol, p) = "ACCEPT" => Verdict(FlatMap(Q, s), pol, p) = "ACCEPT"
  BY <1>7, <1>8, <1>9
<1> QED
  BY <1>5, <1>10

\* An allow that a new connection from the tailnet meets, conntrack aside.
LetsTailnetIn(r) ==
    /\ r.target = "ACCEPT" /\ r.match \in {"port", "portNarrowed", "every"}
    /\ r.scope \in {"none", "tailnet", "notInterface"}

\* Such a rule stays in INPUT, or in ts-input behind a plain jump, when setup's own copies go.
TailnetKept(rules, chain) ==
    \E x : /\ In(x, rules)
           /\ IF x.target = "tsInput" THEN \E r : In(r, chain) /\ LetsTailnetIn(r)
              ELSE LetsTailnetIn(x) /\ ~x.own

\* What the commands of the firewall step start from, as the kernel sees it: the copies
\* are deleted behind a rule that lets the tailnet in, and ufw's rule is added where
\* no rule the walks see lets it in.
FilterInv ==
    /\ pc = "delete" => TailnetKept(input, tsChain)
    /\ pc = "ufwAllow" =>
         /\ \A i \in 1 .. Len(ufwRules) : ~ufwDecides(ufwRules[i])
         /\ hasIpt => ~HasJump(input) /\ ~Kept(input, tsChain) /\ iptLegacyCopies(input) = 0

\* The walk of iptUnscopedRead ends on an allow.
LEMMA ScopedAllow ==
    ASSUME NEW rules \in Seq(Rule), Answer(rules, SelectInSeq(rules, DecidesTailnet)) = "present"
    PROVE  \E r : In(r, rules) /\ LetsTailnetIn(r)
<1>1. PICK I : I = {i \in 1 .. Len(rules) : DecidesTailnet(rules[i])}
  OBVIOUS
<1>2. PICK m : m = IF I # {} THEN Min(I) ELSE 0
  OBVIOUS
<1>3. SelectInSeq(rules, DecidesTailnet) = m
  BY <1>1, <1>2 DEF SelectInSeq
<1>4. m # 0 /\ I # {}
  BY <1>2, <1>3 DEF Answer
<1>5. I \subseteq Nat
  BY <1>1
<1>6. m \in I
  BY <1>2, <1>4, <1>5, MinIsLeast
<1>7. m \in 1 .. Len(rules) /\ DecidesTailnet(rules[m]) /\ m > 0
  BY <1>1, <1>6
<1>8. rules[m].target = "ACCEPT"
  BY <1>3, <1>7 DEF Answer
<1>9. LetsTailnetIn(rules[m])
  <2>1. rules[m] \in Rule
    BY <1>7
  <2> QED
    BY <1>7, <1>8, <2>1 DEF LetsTailnetIn, DecidesTailnet, Decides, iptMatchesPort, iptAcceptOffTailnet, Rule, Scopes
<1> QED
  BY <1>7, <1>9 DEF In

\* iptBeforeQualifiedJump drops rules, and adds none.
LEMMA CutIn ==
    ASSUME NEW rules \in Seq(Rule), NEW i \in 1 .. Len(iptBeforeQualifiedJump(rules))
    PROVE  In(iptBeforeQualifiedJump(rules)[i], rules)
<1>1. PICK I : I = {j \in 1 .. Len(rules) : QualifiedJump(rules[j])}
  OBVIOUS
<1>2. PICK m : m = IF I # {} THEN Min(I) ELSE 0
  OBVIOUS
<1>3. PICK cut : cut = iptBeforeQualifiedJump(rules)
  OBVIOUS
<1>4. cut = IF m = 0 THEN rules ELSE SubSeq(rules, 1, m - 1)
  BY <1>1, <1>2, <1>3 DEF iptBeforeQualifiedJump, SelectInSeq
<1>5. CASE m = 0
  BY <1>3, <1>4, <1>5 DEF In
<1>6. CASE m # 0
  <2>1. I \subseteq Nat /\ I # {}
    BY <1>1, <1>2, <1>6
  <2>2. m \in 1 .. Len(rules)
    BY <1>1, <1>2, <2>1, MinIsLeast
  <2>3. cut = SubSeq(rules, 1, m - 1) /\ m - 1 \in 0 .. Len(rules)
    BY <1>4, <1>6, <2>2
  <2>4. Len(cut) = m - 1 /\ \A j \in 1 .. m - 1 : cut[j] = rules[j]
    BY <2>3
  <2>5. i \in 1 .. m - 1 /\ i \in 1 .. Len(rules) /\ cut[i] = rules[i]
    BY <1>3, <2>2, <2>4
  <2> QED
    BY <1>3, <2>5 DEF In
<1> QED
  BY <1>5, <1>6

\* A scoped read: the tailnet is let in by a rule that is not one of the copies.
LEMMA ScopedRead ==
    ASSUME NEW rules \in Seq(Rule), NEW chain \in Seq(Rule), OwnIsLegacy(rules), NEW hidden,
           readIptables(rules, chain, hidden).scoped
    PROVE  TailnetKept(rules, chain)
<1>1. PICK cut : cut = iptBeforeQualifiedJump(rules)
  OBVIOUS
<1>2. PICK bare : bare = WithoutUnscoped(cut)
  OBVIOUS
<1>3. PICK rest : rest = iptInlineChain(bare, chain)
  OBVIOUS
<1>4. cut \in Seq(Rule) /\ \A i \in 1 .. Len(cut) : In(cut[i], rules)
  BY <1>1, CutFacts, CutIn
<1>5. /\ bare \in Seq(Rule) /\ Len(bare) = Len(cut)
      /\ \A i \in 1 .. Len(cut) :
           bare[i] = IF iptUnscoped(cut[i]) THEN Accept("nothing", "none") ELSE cut[i]
  <2>1. bare = [i \in 1 .. Len(cut) |-> IF iptUnscoped(cut[i]) THEN Accept("nothing", "none") ELSE cut[i]]
    BY <1>2 DEF WithoutUnscoped
  <2>2. Accept("nothing", "none") \in Rule
    BY DEF Accept, Rule, Targets, Matches, Scopes
  <2>3. bare \in [1 .. Len(cut) -> Rule]
    BY <1>4, <2>1, <2>2
  <2> QED
    BY <1>4, <2>1, <2>3
<1>6. rest \in Seq(Rule) /\ \A x : In(x, rest) <=> \E i \in 1 .. Len(bare) : Yields(bare[i], chain, x)
  BY <1>3, <1>5, InlineFacts
<1>7. Answer(rest, SelectInSeq(rest, DecidesTailnet)) = "present"
  BY <1>1, <1>2, <1>3 DEF readIptables, Unread
<1>8. PICK r : In(r, rest) /\ LetsTailnetIn(r)
  BY <1>6, <1>7, ScopedAllow
<1>9. PICK i \in 1 .. Len(cut) : Yields(bare[i], chain, r)
  BY <1>5, <1>6, <1>8
<1>10. In(cut[i], rules)
  BY <1>4
<1>11. CASE bare[i].target = "tsInput"
  <2>1. cut[i].target = "tsInput"
    BY <1>5, <1>11 DEF Accept
  <2>2. In(r, chain)
    BY <1>9, <1>11 DEF Yields
  <2> QED
    BY <1>8, <1>10, <2>1, <2>2 DEF TailnetKept
<1>12. CASE bare[i].target # "tsInput"
  <2>1. LetsTailnetIn(bare[i])
    BY <1>8, <1>9, <1>12 DEF Yields
  <2>2. ~iptUnscoped(cut[i]) /\ bare[i] = cut[i]
    BY <1>5, <2>1 DEF Accept, LetsTailnetIn
  <2>3. PICK k \in 1 .. Len(rules) : rules[k] = cut[i]
    BY <1>10 DEF In
  <2>4. ~cut[i].own
    BY <2>2, <2>3 DEF OwnIsLegacy, iptablesLegacy, Accept, iptUnscoped, iptPortCovers
  <2> QED
    BY <1>10, <1>12, <2>1, <2>2, <2>4 DEF TailnetKept
<1> QED
  BY <1>11, <1>12

\* iptables -A puts such a rule there.
LEMMA AppendTailnet ==
    ASSUME NEW rules \in Seq(Rule), NEW chain
    PROVE  TailnetKept(Append(rules, iptablesAppend), chain)
<1>1. PICK x : x = iptablesAppend
  OBVIOUS
<1>2. x \in Rule /\ x.target = "ACCEPT" /\ LetsTailnetIn(x) /\ ~x.own
  BY <1>1 DEF iptablesAppend, Accept, Rule, Targets, Matches, Scopes, LetsTailnetIn
<1>3. PICK s : s = Append(rules, x)
  OBVIOUS
<1>4. Len(s) = Len(rules) + 1 /\ s[Len(rules) + 1] = x /\ Len(rules) + 1 \in 1 .. Len(s)
  BY <1>2, <1>3
<1>5. In(x, s)
  BY <1>4 DEF In
<1> QED
  BY <1>1, <1>2, <1>3, <1>5 DEF TailnetKept

\* INPUT around the copy iptables -D takes out.
LEMMA RemoveSplits ==
    ASSUME NEW rules \in Seq(Rule), OwnIsLegacy(rules), NEW k \in 1 .. Len(rules), rules[k].own
    PROVE  \E a, b \in Seq(Rule) :
             /\ rules = Append(a, iptablesLegacy) \o b
             /\ RemoveFirstMatch(rules, LAMBDA r : r.own) = a \o b
<1>1. PICK p \in 1 .. Len(rules) :
        /\ rules[p].own
        /\ RemoveFirstMatch(rules, LAMBDA r : r.own) = SubSeq(rules, 1, p - 1) \o SubSeq(rules, p + 1, Len(rules))
  BY RemoveShape
<1>2. PICK a, b : a = SubSeq(rules, 1, p - 1) /\ b = SubSeq(rules, p + 1, Len(rules))
  OBVIOUS
<1>3. rules[p] = iptablesLegacy
  BY <1>1 DEF OwnIsLegacy
<1>4. a \in Seq(Rule) /\ b \in Seq(Rule) /\ rules = Append(a, iptablesLegacy) \o b
  BY <1>2, <1>3, SplitAt
<1> QED
  BY <1>1, <1>2, <1>4

\* iptables -D leaves it there.
LEMMA RemoveTailnet ==
    ASSUME NEW a \in Seq(Rule), NEW b \in Seq(Rule), NEW chain,
           TailnetKept(Append(a, iptablesLegacy) \o b, chain)
    PROVE  TailnetKept(a \o b, chain)
<1>1. PICK l : l = iptablesLegacy
  OBVIOUS
<1>2. l \in Rule /\ l.own /\ l.target = "ACCEPT"
  BY <1>1 DEF iptablesLegacy, Accept, Rule, Targets, Matches, Scopes
<1>3. PICK u : u = <<l>>
  OBVIOUS
<1>4. u \in Seq(Rule) /\ Append(a, l) = a \o u /\ Len(u) = 1 /\ u[1] = l
  BY <1>2, <1>3
<1>5. PICK x : /\ In(x, Append(a, l) \o b)
               /\ IF x.target = "tsInput" THEN \E r : In(r, chain) /\ LetsTailnetIn(r)
                  ELSE LetsTailnetIn(x) /\ ~x.own
  BY <1>1 DEF TailnetKept
<1>6. x # l
  BY <1>2, <1>5
<1>7. PICK c : c = a \o u
  OBVIOUS
<1>8. c \in Seq(Rule) /\ (In(x, c) <=> In(x, a) \/ In(x, u))
  BY <1>4, <1>7, InConcat
<1>9. In(x, c \o b) <=> In(x, c) \/ In(x, b)
  BY <1>8, InConcat
<1>10. ~In(x, u)
  BY <1>4, <1>6 DEF In
<1>11. In(x, a) \/ In(x, b)
  BY <1>4, <1>5, <1>7, <1>8, <1>9, <1>10
<1>12. In(x, a \o b)
  BY <1>11, InConcat
<1> QED
  BY <1>5, <1>12 DEF TailnetKept

\* The firewall step decides on a command: what the read says is what the kernel does.
LEMMA SetupFilters ==
    ASSUME LinuxInv, NEW iptOK \in BOOLEAN, FirewallSetup(iptOK)
    PROVE  FilterInv'
<1>1. PICK r : r = readLinuxFirewall(iptOK)
  OBVIOUS
<1>2. /\ UNCHANGED <<ufwRules, hasIpt, input, tsChain>>
      /\ IF FirewallPlan(r) \in Commands THEN pc' = FirewallPlan(r)
         ELSE pc' = "ip"
  BY <1>1 DEF FirewallSetup, Report, fwVars
<1>3. /\ input \in Seq(Rule) /\ tsChain \in Seq(Rule) /\ ufwRules \in Seq(Rule) /\ OwnIsLegacy(input)
  BY DEF LinuxInv, LinuxTypes
<1>4. PICK q : q = IF hasIpt /\ iptOK THEN readIptables(input, tsChain, unreached) ELSE Unread
  OBVIOUS
<1>5. ASSUME pc' = "delete" PROVE TailnetKept(input, tsChain)
  <2>1. r.scoped
    BY <1>2, <1>5 DEF FirewallPlan, Commands
  <2>2. ufw = "absent"
    BY <1>1, <2>1 DEF readLinuxFirewall, readUFW
  <2>3. r.scoped = q.scoped
    BY <1>1, <1>4, <2>2 DEF readLinuxFirewall, IptRead
  <2>4. q.scoped /\ hasIpt /\ iptOK
    BY <1>4, <2>1, <2>3 DEF Unread
  <2> QED
    BY <1>3, <1>4, <2>4, ScopedRead
<1>6. ASSUME pc' = "ufwAllow"
      PROVE  /\ \A i \in 1 .. Len(ufwRules) : ~ufwDecides(ufwRules[i])
             /\ hasIpt => ~HasJump(input) /\ ~Kept(input, tsChain) /\ iptLegacyCopies(input) = 0
  <2>1. r.state \in States
    <3>1. CASE ufw = "absent"
      BY <1>1, <1>3, <3>1, ReadsIptables DEF ReadOK, States
    <3>2. CASE ufw # "absent"
      BY <1>1, <1>3, <3>2, ReadsUfw
    <3> QED
      BY <3>1, <3>2
  <2>2. FirewallPlan(r) = "ufwAllow"
    BY <1>2, <1>6
  <2>3. r.state = "absent" /\ (r.backend = "ufw" \/ r.ufwInactive)
    BY <2>1, <2>2 DEF FirewallPlan, States, inactiveUFWDecides
  <2>4. ufw # "absent"
    BY <1>1, <2>3 DEF readLinuxFirewall
  <2>5. PICK own : own = IF ufw = "broken" THEN "unknown" ELSE ufwDecide(ufwRules)
    OBVIOUS
  <2>6. r.state = IF own = "absent" /\ hasIpt THEN q.state ELSE own
    <3>1. r = readUFW(iptOK)
      BY <1>1, <2>4 DEF readLinuxFirewall
    <3> QED
      BY <1>4, <2>5, <3>1 DEF readUFW, IptRead
  <2>7. own = "absent" /\ (hasIpt => q.state = "absent")
    BY <2>3, <2>6
  <2>8. \A i \in 1 .. Len(ufwRules) : ~ufwDecides(ufwRules[i])
    BY <1>3, <2>5, <2>7, DecideFacts
  <2>9. ASSUME hasIpt PROVE ~HasJump(input) /\ ~Kept(input, tsChain) /\ iptLegacyCopies(input) = 0
    <3>1. q = readIptables(input, tsChain, unreached) /\ q.state = "absent"
      BY <1>4, <2>7, <2>9 DEF Unread
    <3>2. ReadOK(q, input, tsChain)
      BY <1>3, <3>1, ReadFacts
    <3> QED
      BY <3>1, <3>2 DEF ReadOK
  <2> QED
    BY <2>8, <2>9
<1> QED
  BY <1>2, <1>5, <1>6 DEF FilterInv, HasJump, Kept, TailnetKept, In, iptLegacyCopies

\* The copies iptables -D counts are there.
LEMMA CopyIsThere ==
    ASSUME LinuxInv, DeleteCopy
    PROVE  /\ input \in Seq(Rule) /\ OwnIsLegacy(input) /\ ufw = "absent"
           /\ \E k \in 1 .. Len(input) : input[k].own
<1>1. /\ input \in Seq(Rule) /\ OwnIsLegacy(input) /\ ufw = "absent"
      /\ left > 0 /\ left = iptLegacyCopies(input)
  BY DEF LinuxInv, LinuxTypes, CommandsFit, DeleteCopy
<1>2. iptLegacyCopies(input) # 0
  BY <1>1
<1> QED
  BY <1>1, <1>2, CopiesFacts

\* The invariant is kept by every step.
LEMMA FilterStep == HostInv /\ HostInv' /\ FilterInv /\ [Next]_vars => FilterInv'
<1> SUFFICES ASSUME HostInv, HostInv', FilterInv, [Next]_vars PROVE FilterInv'
  OBVIOUS
<1>1. CASE goos' = "windows" /\ WindowsInv'
  BY <1>1 DEF WindowsInv, WindowsTypes, WindowsPoints, AfterUnattended, FilterInv
<1>2. CASE goos' = "linux" /\ LinuxInv'
  <2>1. ASSUME UNCHANGED vars PROVE FilterInv'
    <3>1. UNCHANGED <<pc, ufwRules, hasIpt, input, tsChain>>
      BY <2>1 DEF vars, runVars, linuxVars, fwVars
    <3> QED
      BY <3>1 DEF FilterInv, HasJump, Kept, TailnetKept, iptLegacyCopies
  <2>2. ASSUME (Begin(FirstStep) \/ Finish \/ Killed) /\ UNCHANGED <<linuxVars, windowsVars>> PROVE FilterInv'
    <3>1. pc' \in {"off", "xrdp", "unattended"}
      BY <2>2 DEF Begin, Finish, Killed, FirstStep
    <3> QED
      BY <3>1 DEF FilterInv
  <2>3. ASSUME LinuxStep PROVE FilterInv'
    <3>1. LinuxInv
      BY <2>3 DEF HostInv, WindowsInv, WindowsTypes, WindowsPoints, AfterUnattended,
        LinuxStep, XrdpSetup, Enable, EnableFails, XrdpPortSetup, WriteIni, Restart, RestartFails,
        FirewallSetup, CommandFails, Commands, UfwAllow, AppendScoped, NothingToDelete, DeleteCopy, TailscaleIP
    <3>2. CASE \E iptOK \in BOOLEAN : FirewallSetup(iptOK)
      BY <3>1, <3>2, SetupFilters
    <3>3. CASE AppendScoped
      <4>1. /\ input' = Append(input, iptablesAppend) /\ tsChain' = tsChain
            /\ pc' \in {"delete", "ip"} /\ input \in Seq(Rule)
        BY <3>1, <3>3 DEF AppendScoped, DeletesLeft, Report, LinuxInv, LinuxTypes
      <4>2. TailnetKept(input', tsChain')
        BY <4>1, AppendTailnet
      <4> QED
        BY <4>1, <4>2 DEF FilterInv
    <3>4. CASE DeleteCopy
      <4>1. /\ pc = "delete" /\ input' = RemoveFirstMatch(input, LAMBDA r : r.own) /\ tsChain' = tsChain
            /\ pc' \in {"delete", "ip"}
        BY <3>4 DEF DeleteCopy, DeletesLeft, Report
      <4>2. PICK a, b \in Seq(Rule) : input = Append(a, iptablesLegacy) \o b /\ input' = a \o b
        <5>1. \E a, b \in Seq(Rule) :
                /\ input = Append(a, iptablesLegacy) \o b
                /\ RemoveFirstMatch(input, LAMBDA r : r.own) = a \o b
          BY <3>1, <3>4, CopyIsThere, RemoveSplits
        <5> QED
          BY <4>1, <5>1
      <4>3. TailnetKept(Append(a, iptablesLegacy) \o b, tsChain)
        BY <4>1, <4>2 DEF FilterInv
      <4>4. TailnetKept(a \o b, tsChain)
        BY <4>3, RemoveTailnet
      <4>5. TailnetKept(input', tsChain')
        BY <4>1, <4>2, <4>4
      <4> QED
        BY <4>1, <4>5 DEF FilterInv
    <3>5. CASE XrdpSetup \/ Enable \/ EnableFails \/ XrdpPortSetup \/ WriteIni \/ Restart \/ RestartFails
      <4>1. pc' \in {"enable", "firewall", "xrdpPort", "writeIni", "restart"}
        BY <3>5 DEF XrdpSetup, Enable, EnableFails, XrdpPortSetup, WriteIni, Restart, RestartFails, Report, AfterXrdp
      <4> QED
        BY <4>1 DEF FilterInv
    <3>6. CASE CommandFails \/ UfwAllow \/ NothingToDelete \/ TailscaleIP
      <4>1. pc' \in {"ip", "done"}
        BY <3>6 DEF CommandFails, UfwAllow, NothingToDelete, TailscaleIP, Report
      <4> QED
        BY <4>1 DEF FilterInv
    <3> QED
      BY <2>3, <3>2, <3>3, <3>4, <3>5, <3>6 DEF LinuxStep
  <2>4. ASSUME WindowsStep PROVE FilterInv'
    <3>1. goos = "windows"
      BY <2>4 DEF HostInv, LinuxInv, LinuxTypes, LinuxPoints, AfterService, AfterPort, AfterFirewall,
        WindowsStep, Unattended, ServiceReads, ServiceConfig, ServiceStarts, ServiceFails, NetworkProfile,
        RDPReads, RDPUnread, EnableRDP, RDPSilent, RuleKept, RuleRecreated, RuleFails, Power, PowerFails, PowerDone
    <3>2. goos' = goos
      BY <2>4 DEF WindowsStep, Unattended, ServiceReads, ServiceConfig, ServiceStarts, ServiceFails, NetworkProfile,
          RDPReads, RDPUnread, EnableRDP, RDPSilent, RuleKept, RuleRecreated, RuleFails, Power, PowerFails, PowerDone, Works, Breaks
    <3> QED
      BY <1>2, <3>1, <3>2
  <2> QED
    BY <2>1, <2>2, <2>3, <2>4 DEF Next, setupFor
<1> QED
  BY <1>1, <1>2 DEF HostInv

\* What the firewall step's commands start from, at every point of every run
\* (iptLegacySetupStep after its read, readUFW before ufw allow).
THEOREM CommandsStartFromReads == Spec => []FilterInv
<1>1. Init => FilterInv
  BY DEF Init, RunInit, FilterInv
<1>2. HostInv /\ HostInv' /\ FilterInv /\ [Next]_vars => FilterInv'
  BY FilterStep
<1> QED
  BY <1>1, <1>2, ReportsHold, PTL DEF Spec

\* ufw's rules, where a packet meets them.
Listed == IF ufw = "active" THEN ufwRules ELSE <<>>

\* Admitted, rule by rule.
LEMMA AdmittedIs ==
    ASSUME NEW p \in Packets
    PROVE  p \in Admitted <=> Verdict(Traversed(input, tsChain, Listed), policy, p) = "ACCEPT"
  BY DEF Admitted, Listed

\* The same, after a step.
LEMMA AdmittedNext ==
    ASSUME NEW p \in Packets
    PROVE  p \in Admitted' <=> Verdict(Traversed(input', tsChain', Listed'), policy', p) = "ACCEPT"
  BY DEF Admitted, Listed

\* The scoped rule stands where the policy stood.
LEMMA AppendVerdict ==
    ASSUME NEW rules \in Seq(Rule), NEW chain \in Seq(Rule), NEW list \in Seq(Rule), NEW p, NEW pol
    PROVE  Verdict(Traversed(Append(rules, iptablesAppend), chain, list), pol, p) =
           Verdict(Traversed(rules, chain, list), IF p.in = "tailnet" THEN "ACCEPT" ELSE pol, p)
<1>1. PICK x : x = iptablesAppend
  OBVIOUS
<1>2. x \in Rule /\ x.target = "ACCEPT" /\ (Applies(x, p) <=> p.in = "tailnet")
  BY <1>1 DEF iptablesAppend, Accept, Rule, Targets, Matches, Scopes, Applies
<1>3. PICK P : P = Passes(chain, list)
  OBVIOUS
<1>4. PICK new : new = Append(rules, x)
  OBVIOUS
<1>5. new \in Seq(Rule)
  BY <1>2, <1>4
<1>6. /\ P \in [Rule -> Seq(Rule)] /\ Traversed(rules, chain, list) = FlatMap(P, rules)
      /\ Traversed(new, chain, list) = FlatMap(P, new)
  BY <1>3, <1>5, TraversedIs
<1>7. P[x] = <<x>>
  BY <1>2, <1>3 DEF Passes
<1>8. PICK u, w : u = FlatMap(P, rules) /\ w = <<x>>
  OBVIOUS
<1>9. u \in Seq(Rule) /\ w \in Seq(Rule) /\ FlatMap(P, new) = u \o w
  <2>1. x \in Rule /\ P \in [Rule -> Seq(Rule)]
    BY <1>2, <1>6
  <2>2. FlatMap(P, rules) \in Seq(Rule) /\ FlatMap(P, Append(rules, x)) = FlatMap(P, rules) \o P[x]
    BY <2>1, FlatMapAppend, Zenon
  <2>3. w \in Seq(Rule)
    BY <1>2, <1>8
  <2> QED
    BY <1>4, <1>7, <1>8, <2>2, <2>3, Zenon
<1>10. Verdict(u \o w, pol, p) = Verdict(u, Verdict(w, pol, p), p)
  BY <1>9, VerdictConcat
<1>11. Verdict(w, pol, p) = IF p.in = "tailnet" THEN "ACCEPT" ELSE pol
  BY <1>2, <1>8, VerdictOne
<1> QED
  BY <1>1, <1>4, <1>6, <1>8, <1>9, <1>10, <1>11

\* A copy lets in every packet that reaches it.
LEMMA CopyVerdict ==
    ASSUME NEW a \in Seq(Rule), NEW b \in Seq(Rule), NEW chain \in Seq(Rule), NEW list \in Seq(Rule), NEW p, NEW pol
    PROVE  Verdict(Traversed(a \o b, chain, list), pol, p) = "ACCEPT" =>
           Verdict(Traversed(Append(a, iptablesLegacy) \o b, chain, list), pol, p) = "ACCEPT"
<1>1. PICK x : x = iptablesLegacy
  OBVIOUS
<1>2. x \in Rule /\ x.target = "ACCEPT" /\ Applies(x, p)
  BY <1>1 DEF iptablesLegacy, Accept, Rule, Targets, Matches, Scopes, Applies
<1>3. PICK P : P = Passes(chain, list)
  OBVIOUS
<1>4. PICK c, old, new : c = Append(a, x) /\ old = c \o b /\ new = a \o b
  OBVIOUS
<1>5. c \in Seq(Rule) /\ old \in Seq(Rule) /\ new \in Seq(Rule)
  BY <1>2, <1>4
<1>6. /\ P \in [Rule -> Seq(Rule)] /\ Traversed(old, chain, list) = FlatMap(P, old)
      /\ Traversed(new, chain, list) = FlatMap(P, new)
  BY <1>3, <1>5, TraversedIs
<1>7. P[x] = <<x>>
  BY <1>2, <1>3 DEF Passes
<1>8. PICK u, v, w, d : u = FlatMap(P, a) /\ v = FlatMap(P, b) /\ w = <<x>> /\ d = FlatMap(P, c)
  OBVIOUS
<1>9. u \in Seq(Rule) /\ w \in Seq(Rule) /\ d = u \o w /\ v \in Seq(Rule)
  <2>1. x \in Rule /\ P \in [Rule -> Seq(Rule)]
    BY <1>2, <1>6
  <2>2. FlatMap(P, a) \in Seq(Rule) /\ FlatMap(P, Append(a, x)) = FlatMap(P, a) \o P[x]
    BY <2>1, FlatMapAppend, Zenon
  <2>3. FlatMap(P, b) \in Seq(Rule)
    BY <2>1, FlatMapAppend, Zenon
  <2>4. w \in Seq(Rule)
    BY <1>2, <1>8
  <2> QED
    BY <1>4, <1>7, <1>8, <2>2, <2>3, <2>4, Zenon
<1>10. d \in Seq(Rule)
  BY <1>9, ConcatFacts
<1>11. FlatMap(P, old) = d \o v /\ FlatMap(P, new) = u \o v
  <2>1. FlatMap(P, c \o b) = FlatMap(P, c) \o FlatMap(P, b)
    BY <1>5, <1>6, FlatMapConcat, ZenonT(60)
  <2>2. FlatMap(P, a \o b) = FlatMap(P, a) \o FlatMap(P, b)
    BY <1>6, FlatMapConcat
  <2> QED
    BY <1>4, <1>8, <2>1, <2>2, Zenon
<1>12. PICK y : y = Verdict(v, pol, p)
  OBVIOUS
<1>13. Verdict(u \o v, pol, p) = Verdict(u, y, p)
  BY <1>9, <1>12, VerdictConcat
<1>14. Verdict(d \o v, pol, p) = Verdict(d, y, p)
  <2>1. d \in Seq(Rule) /\ v \in Seq(Rule)
    BY <1>9, <1>10
  <2>2. Verdict(d \o v, pol, p) = Verdict(d, Verdict(v, pol, p), p)
    BY <2>1, VerdictConcat
  <2> QED
    BY <1>12, <2>2
<1>15. Verdict(d, y, p) = Verdict(u, Verdict(w, y, p), p)
  BY <1>9, VerdictConcat
<1>16. Verdict(w, y, p) = "ACCEPT"
  BY <1>2, <1>8, VerdictOne
<1>17. Verdict(u, y, p) = "ACCEPT" => Verdict(u, "ACCEPT", p) = "ACCEPT"
  BY <1>9, VerdictMonotone
<1> QED
  BY <1>1, <1>4, <1>6, <1>11, <1>13, <1>14, <1>15, <1>16, <1>17

\* The tailnet is let in where a rule lets it in and none denies it.
LEMMA TailnetVerdict ==
    ASSUME NEW rules \in Seq(Rule), NEW chain \in Seq(Rule), NEW p, p.in = "tailnet", NEW pol,
           TailnetKept(rules, chain),
           \A x : In(x, rules) \/ In(x, chain) => x.match # "portNarrowed",
           \A x : In(x, rules) /\ Applies(x, p) => x.target # "DROP",
           \A x : In(x, chain) /\ Applies(x, p) => x.target = "ACCEPT"
    PROVE  Verdict(Traversed(rules, chain, <<>>), pol, p) = "ACCEPT"
<1>1. PICK e : e = <<>> /\ e \in Seq(Rule) /\ \A r : ~In(r, e)
  <2>1. <<>> \in Seq(Rule) /\ Len(<<>>) = 0
    OBVIOUS
  <2>2. \A r : ~In(r, <<>>)
    BY <2>1 DEF In
  <2> QED
    BY <2>1, <2>2
<1>2. PICK P : P = Passes(chain, e)
  OBVIOUS
<1>3. P \in [Rule -> Seq(Rule)] /\ Traversed(rules, chain, e) = FlatMap(P, rules)
  BY <1>1, <1>2, TraversedIs
<1>4. PICK s : s = FlatMap(P, rules)
  OBVIOUS
<1>5. s \in Seq(Rule) /\ \A r : In(r, s) <=> \E x : In(x, rules) /\ In(r, P[x])
  BY <1>3, <1>4, FlatMapIn
<1>6. \A x : In(x, rules) => x \in Rule
  BY DEF In
<1>7. ASSUME NEW x \in Rule, NEW r
      PROVE  /\ x.target \in {"tsInput", "tsInputQualified"} => (In(r, P[x]) <=> In(r, chain))
             /\ x.target = "ufw" => ~In(r, P[x])
             /\ x.target \in {"ACCEPT", "DROP"} => (In(r, P[x]) <=> r = x)
  <2>1. CASE x.target \in {"tsInput", "tsInputQualified"}
    <3>1. P[x] = chain
      BY <1>2, <2>1 DEF Passes
    <3> QED
      BY <2>1, <3>1
  <2>2. CASE x.target = "ufw"
    <3>1. P[x] = e
      BY <1>2, <2>2 DEF Passes
    <3> QED
      BY <1>1, <2>2, <3>1
  <2>3. CASE x.target \in {"ACCEPT", "DROP"}
    <3>1. P[x] = <<x>>
      BY <1>2, <2>3 DEF Passes
    <3>2. In(r, <<x>>) <=> r = x
      BY DEF In
    <3> QED
      BY <2>3, <3>1, <3>2
  <2> QED
    BY <2>1, <2>2, <2>3 DEF Rule, Targets
<1>8. ASSUME NEW r, In(r, s), Applies(r, p) PROVE r.target = "ACCEPT"
  <2>1. PICK x : In(x, rules) /\ In(r, P[x])
    BY <1>5, <1>8
  <2>2. x \in Rule /\ x.target \in Targets
    BY <1>6, <2>1 DEF Rule
  <2>3. CASE x.target \in {"tsInput", "tsInputQualified"}
    BY <1>7, <1>8, <2>1, <2>2, <2>3
  <2>4. CASE x.target \in {"ACCEPT", "DROP"}
    <3>1. r = x
      BY <1>7, <2>1, <2>2, <2>4
    <3> QED
      BY <1>8, <2>1, <2>4, <3>1
  <2> QED
    BY <1>7, <2>1, <2>2, <2>3, <2>4 DEF Targets
<1>9. \E r : In(r, s) /\ LetsTailnetIn(r) /\ r.match # "portNarrowed"
  <2>1. PICK x : /\ In(x, rules)
                 /\ IF x.target = "tsInput" THEN \E r : In(r, chain) /\ LetsTailnetIn(r)
                    ELSE LetsTailnetIn(x) /\ ~x.own
    BY DEF TailnetKept
  <2>2. x \in Rule
    BY <1>6, <2>1
  <2>3. CASE x.target = "tsInput"
    <3>1. PICK r : In(r, chain) /\ LetsTailnetIn(r)
      BY <2>1, <2>3
    <3>2. In(r, s)
      BY <1>5, <1>7, <2>1, <2>2, <2>3, <3>1
    <3> QED
      BY <3>1, <3>2
  <2>4. CASE x.target # "tsInput"
    <3>1. LetsTailnetIn(x) /\ x.target = "ACCEPT"
      BY <2>1, <2>4 DEF LetsTailnetIn
    <3>2. In(x, s)
      BY <1>5, <1>7, <2>1, <2>2, <3>1
    <3> QED
      BY <2>1, <3>1, <3>2
  <2> QED
    BY <2>3, <2>4
<1>10. PICK r : In(r, s) /\ LetsTailnetIn(r) /\ r.match # "portNarrowed"
  BY <1>9
<1>11. Applies(r, p)
  BY <1>10 DEF LetsTailnetIn, Applies
<1>12. Meets(s, p)
  BY <1>10, <1>11 DEF Meets, In
<1> QED
  BY <1>1, <1>3, <1>4, <1>5, <1>8, <1>12, VerdictUnanimous

\* Where ufw's list and INPUT settle nothing, and INPUT drops the rest, the tailnet is shut out.
LEMMA NothingLetsTailnetIn ==
    ASSUME LinuxInv, FilterInv, pc = "ufwAllow", Legible, policy = "DROP",
           NEW p \in Packets, p.in = "tailnet"
    PROVE  p \notin Admitted
<1>1. /\ input \in Seq(Rule) /\ tsChain \in Seq(Rule) /\ ufwRules \in Seq(Rule)
      /\ \A i \in 1 .. Len(ufwRules) : ~ufwDecides(ufwRules[i])
      /\ hasIpt => ~HasJump(input) /\ ~Kept(input, tsChain) /\ iptLegacyCopies(input) = 0
  BY DEF LinuxInv, LinuxTypes, FilterInv
<1>2. PICK list : list = Listed
  OBVIOUS
<1>3. list \in Seq(Rule) /\ \A r : In(r, list) => In(r, ufwRules)
  <2>1. <<>> \in Seq(Rule) /\ \A r : ~In(r, <<>>)
    <3>1. <<>> \in Seq(Rule) /\ Len(<<>>) = 0
      OBVIOUS
    <3> QED
      BY <3>1 DEF In
  <2> QED
    BY <1>1, <1>2, <2>1 DEF Listed
<1>4. PICK P : P = Passes(tsChain, list)
  OBVIOUS
<1>5. P \in [Rule -> Seq(Rule)] /\ Traversed(input, tsChain, list) = FlatMap(P, input)
  BY <1>1, <1>3, <1>4, TraversedIs
<1>6. PICK s : s = FlatMap(P, input)
  OBVIOUS
<1>7. s \in Seq(Rule) /\ \A r : In(r, s) <=> \E x : In(x, input) /\ In(r, P[x])
  BY <1>1, <1>5, <1>6, FlatMapIn
<1>8. ASSUME NEW r, Applies(r, p), r.target = "ACCEPT", r.match \notin {"portNarrowed", "unread"}
      PROVE  Decides(r) /\ ufwDecides(r)
  BY <1>8 DEF Applies, Decides, ufwDecides, iptMatchesPort
<1>9. /\ \A i \in 1 .. Len(input) : input[i].match \notin {"portNarrowed", "unread"}
      /\ \A i \in 1 .. Len(tsChain) : tsChain[i].match \notin {"portNarrowed", "unread"}
      /\ \A i \in 1 .. Len(ufwRules) : ufwRules[i].match \notin {"portNarrowed", "unread"}
      /\ ~hasIpt => \A i \in 1 .. Len(input) : input[i].target = "ufw"
  BY DEF Legible
<1>10. ASSUME NEW r, In(r, s), Applies(r, p), r.target = "ACCEPT" PROVE FALSE
  <2>1. PICK x : In(x, input) /\ In(r, P[x])
    BY <1>7, <1>10
  <2>2. PICK i \in 1 .. Len(input) : input[i] = x
    BY <2>1 DEF In
  <2>3. x \in Rule /\ x.target \in Targets
    <3>1. x \in Rule
      BY <1>1, <2>2
    <3> QED
      BY <3>1 DEF Rule
  <2>4. CASE x.target = "ufw"
    <3>1. P[x] = list
      BY <1>4, <2>3, <2>4 DEF Passes
    <3>2. PICK k \in 1 .. Len(ufwRules) : ufwRules[k] = r
      BY <1>3, <2>1, <3>1 DEF In
    <3> QED
      BY <1>1, <1>8, <1>9, <1>10, <3>2
  <2>5. CASE x.target \in {"tsInput", "tsInputQualified"}
    <3>1. hasIpt
      BY <1>9, <2>2, <2>5
    <3>2. x.target = "tsInput"
      BY <1>1, <2>2, <2>5, <3>1 DEF HasJump, QualifiedJump
    <3>3. P[x] = tsChain
      BY <1>4, <2>3, <2>5 DEF Passes
    <3>4. PICK k \in 1 .. Len(tsChain) : tsChain[k] = r
      BY <2>1, <3>3 DEF In
    <3>5. Decides(tsChain[k])
      BY <1>8, <1>9, <1>10, <3>4
    <3>6. Kept(input, tsChain)
      BY <2>2, <3>2, <3>5 DEF Kept
    <3> QED
      BY <1>1, <3>1, <3>6
  <2>6. CASE x.target \in {"ACCEPT", "DROP"}
    <3>1. hasIpt
      BY <1>9, <2>2, <2>6
    <3>2. P[x] = <<x>>
      BY <1>4, <2>3, <2>6 DEF Passes
    <3>3. r = x
      BY <2>1, <3>2 DEF In
    <3>4. ~input[i].own
      BY <1>1, <3>1, CopiesFacts
    <3>5. Decides(input[i]) /\ input[i].target # "tsInput"
      BY <1>8, <1>9, <1>10, <2>2, <3>3
    <3>6. Kept(input, tsChain)
      BY <3>4, <3>5 DEF Kept
    <3> QED
      BY <1>1, <3>1, <3>6
  <2> QED
    BY <2>3, <2>4, <2>5, <2>6 DEF Targets
<1>11. policy # "ACCEPT"
  OBVIOUS
<1>12. Verdict(s, policy, p) # "ACCEPT"
  BY <1>7, <1>10, <1>11, VerdictUnanimous
<1> QED
  BY <1>2, <1>5, <1>6, <1>12, AdmittedIs

\* The commands of the firewall step, and what they leave alone.
LEMMA CommandSteps ==
    ASSUME HostInv, [Next]_vars, RulesChange
    PROVE  /\ LinuxInv /\ input \in Seq(Rule) /\ tsChain \in Seq(Rule) /\ ufwRules \in Seq(Rule)
           /\ UNCHANGED <<ufw, policy, tsChain>>
           /\ \/ UfwAllow
              \/ AppendScoped /\ ufw = "absent" /\ ufwRules' = ufwRules
              \/ DeleteCopy /\ ufw = "absent" /\ ufwRules' = ufwRules
<1>1. UfwAllow \/ AppendScoped \/ DeleteCopy
  BY RulesUntouched
<1>2. LinuxInv
  <2>1. pc \in {"ufwAllow", "append", "delete"}
    BY <1>1 DEF UfwAllow, AppendScoped, DeleteCopy
  <2> QED
    BY <2>1 DEF HostInv, WindowsInv, WindowsTypes, WindowsPoints, AfterUnattended
<1>3. input \in Seq(Rule) /\ tsChain \in Seq(Rule) /\ ufwRules \in Seq(Rule)
  BY <1>2 DEF LinuxInv, LinuxTypes
<1>4. AppendScoped \/ DeleteCopy => ufw = "absent" /\ ufwRules' = ufwRules
  BY <1>2 DEF LinuxInv, CommandsFit, AppendScoped, DeleteCopy
<1>5. UNCHANGED <<ufw, policy, tsChain>>
  BY <1>1 DEF UfwAllow, AppendScoped, DeleteCopy
<1> QED
  BY <1>1, <1>2, <1>3, <1>4, <1>5

\* One step opens the port on the tailnet only, or is ufw's allow where nothing did.
LEMMA StepOpensWhatIsClosed ==
    ASSUME HostInv, FilterInv, [Next]_vars, RulesChange, NEW p \in Admitted' \ Admitted
    PROVE  \/ p.in = "tailnet"
           \/ ufw # "absent" /\ (Legible /\ policy = "DROP" => FromTailnet(Admitted) = {})
<1>0. p \in Packets /\ p \in Admitted' /\ p \notin Admitted
  BY DEF Admitted
<1>1. /\ LinuxInv /\ input \in Seq(Rule) /\ tsChain \in Seq(Rule) /\ ufwRules \in Seq(Rule)
      /\ UNCHANGED <<ufw, policy, tsChain>>
  BY CommandSteps
<1>2. CASE UfwAllow
  <2>1. pc = "ufwAllow" /\ ufw # "absent"
    BY <1>1, <1>2 DEF UfwAllow, LinuxInv, CommandsFit
  <2>2. ASSUME Legible, policy = "DROP" PROVE FromTailnet(Admitted) = {}
    <3>1. \A q \in Packets : q.in = "tailnet" => q \notin Admitted
      BY <1>1, <2>1, <2>2, NothingLetsTailnetIn
    <3>2. Admitted \subseteq Packets
      BY DEF Admitted
    <3> QED
      BY <3>1, <3>2 DEF FromTailnet
  <2> QED
    BY <2>1, <2>2
<1>3. CASE AppendScoped
  <2>1. input' = Append(input, iptablesAppend) /\ ufw = "absent"
    BY <1>1, <1>3 DEF AppendScoped, LinuxInv, CommandsFit
  <2>2. PICK e : e = <<>>
    OBVIOUS
  <2>3. e \in Seq(Rule) /\ Listed = e /\ Listed' = e
    BY <1>1, <2>1, <2>2 DEF Listed
  <2>4. Verdict(Traversed(Append(input, iptablesAppend), tsChain, e), policy, p) =
        Verdict(Traversed(input, tsChain, e), IF p.in = "tailnet" THEN "ACCEPT" ELSE policy, p)
    BY <1>1, <2>3, AppendVerdict
  <2>5. Verdict(Traversed(input', tsChain', Listed'), policy', p) = "ACCEPT"
    BY <1>0, AdmittedNext
  <2>6. Verdict(Traversed(input, tsChain, Listed), policy, p) # "ACCEPT"
    BY <1>0, AdmittedIs
  <2>7. Verdict(Traversed(Append(input, iptablesAppend), tsChain, e), policy, p) = "ACCEPT"
    BY <1>1, <2>1, <2>3, <2>5
  <2>8. Verdict(Traversed(input, tsChain, e), policy, p) # "ACCEPT"
    BY <2>3, <2>6
  <2> QED
    BY <2>4, <2>7, <2>8
<1>4. CASE DeleteCopy
  <2>1. input' = RemoveFirstMatch(input, LAMBDA r : r.own) /\ ufw = "absent"
    BY <1>1, <1>4 DEF DeleteCopy, LinuxInv, CommandsFit
  <2>2. PICK e : e = <<>>
    OBVIOUS
  <2>3. e \in Seq(Rule) /\ Listed = e /\ Listed' = e
    BY <1>1, <2>1, <2>2 DEF Listed
  <2>4. PICK a, b \in Seq(Rule) : input = Append(a, iptablesLegacy) \o b /\ input' = a \o b
    <3>1. \E a, b \in Seq(Rule) :
            /\ input = Append(a, iptablesLegacy) \o b
            /\ RemoveFirstMatch(input, LAMBDA r : r.own) = a \o b
      BY <1>1, <1>4, CopyIsThere, RemoveSplits
    <3> QED
      BY <2>1, <3>1
  <2>5. Verdict(Traversed(a \o b, tsChain, e), policy, p) = "ACCEPT" =>
        Verdict(Traversed(Append(a, iptablesLegacy) \o b, tsChain, e), policy, p) = "ACCEPT"
    BY <1>1, <2>3, CopyVerdict
  <2>6. Verdict(Traversed(input', tsChain', Listed'), policy', p) = "ACCEPT"
    BY <1>0, AdmittedNext
  <2>7. Verdict(Traversed(input, tsChain, Listed), policy, p) # "ACCEPT"
    BY <1>0, AdmittedIs
  <2>8. Verdict(Traversed(a \o b, tsChain, e), policy, p) = "ACCEPT"
    BY <1>1, <2>3, <2>4, <2>6
  <2>9. Verdict(Traversed(Append(a, iptablesLegacy) \o b, tsChain, e), policy, p) # "ACCEPT"
    BY <2>3, <2>4, <2>7
  <2> QED
    BY <2>5, <2>8, <2>9
<1> QED
  BY <1>2, <1>3, <1>4, CommandSteps

\* One step keeps the tailnet in.
LEMMA StepKeepsTailnet ==
    ASSUME HostInv, FilterInv, [Next]_vars, RulesChange, Legible, NoTailnetDeny,
           NEW p \in FromTailnet(Admitted)
    PROVE  p \in Admitted'
<1>0. p \in Packets /\ p \in Admitted /\ p.in = "tailnet"
  BY DEF Admitted, FromTailnet
<1>1. /\ LinuxInv /\ input \in Seq(Rule) /\ tsChain \in Seq(Rule) /\ ufwRules \in Seq(Rule)
      /\ UNCHANGED <<ufw, policy, tsChain>>
  BY CommandSteps
<1>2. Verdict(Traversed(input, tsChain, Listed), policy, p) = "ACCEPT"
  BY <1>0, AdmittedIs
<1>3. CASE UfwAllow
  <2>1. input' = input /\ ufwRules' = Append(ufwRules, ufwAllow)
    BY <1>3 DEF UfwAllow
  <2>2. CASE ufw = "active"
    <3>1. PICK more : more = Append(ufwRules, ufwAllow)
      OBVIOUS
    <3>2. Listed = ufwRules /\ Listed' = more
      BY <1>1, <2>1, <2>2, <3>1 DEF Listed
    <3>3. Verdict(Traversed(input, tsChain, ufwRules), policy, p) = "ACCEPT"
      BY <1>2, <3>2
    <3>4. Verdict(Traversed(input, tsChain, more), policy, p) = "ACCEPT"
      BY <1>1, <3>1, <3>3, AllowLetsIn, ZenonT(60)
    <3>5. Verdict(Traversed(input', tsChain', Listed'), policy', p) = "ACCEPT"
      BY <1>1, <2>1, <3>2, <3>4
    <3> QED
      BY <1>0, <3>5, AdmittedNext
  <2>3. CASE ufw # "active"
    <3>1. Listed = <<>> /\ Listed' = <<>>
      BY <1>1, <2>3 DEF Listed
    <3>2. Verdict(Traversed(input', tsChain', Listed'), policy', p) = "ACCEPT"
      BY <1>1, <1>2, <2>1, <3>1
    <3> QED
      BY <1>0, <3>2, AdmittedNext
  <2> QED
    BY <2>2, <2>3
<1>4. CASE AppendScoped
  <2>1. input' = Append(input, iptablesAppend) /\ ufw = "absent"
    BY <1>1, <1>4 DEF AppendScoped, LinuxInv, CommandsFit
  <2>2. PICK e : e = <<>>
    OBVIOUS
  <2>3. e \in Seq(Rule) /\ Listed = e /\ Listed' = e
    BY <1>1, <2>1, <2>2 DEF Listed
  <2>4. Verdict(Traversed(Append(input, iptablesAppend), tsChain, e), policy, p) =
        Verdict(Traversed(input, tsChain, e), "ACCEPT", p)
    <3>1. Verdict(Traversed(Append(input, iptablesAppend), tsChain, e), policy, p) =
          Verdict(Traversed(input, tsChain, e), IF p.in = "tailnet" THEN "ACCEPT" ELSE policy, p)
      BY <1>1, <2>3, AppendVerdict
    <3> QED
      BY <1>0, <3>1
  <2>5. PICK s : s = Traversed(input, tsChain, e)
    OBVIOUS
  <2>6. s \in Seq(Rule)
    <3>1. PICK P : P = Passes(tsChain, e)
      OBVIOUS
    <3>2. P \in [Rule -> Seq(Rule)] /\ s = FlatMap(P, input)
      BY <1>1, <2>3, <2>5, <3>1, TraversedIs
    <3> QED
      BY <1>1, <3>2, FlatMapIn
  <2>7. Verdict(s, "ACCEPT", p) = "ACCEPT"
    BY <1>2, <2>3, <2>5, <2>6, VerdictMonotone
  <2>8. Verdict(Traversed(input', tsChain', Listed'), policy', p) = "ACCEPT"
    BY <1>1, <2>1, <2>3, <2>4, <2>5, <2>7
  <2> QED
    BY <1>0, <2>8, AdmittedNext
<1>5. CASE DeleteCopy
  <2>1. pc = "delete" /\ input' = RemoveFirstMatch(input, LAMBDA r : r.own) /\ ufw = "absent"
    BY <1>1, <1>5 DEF DeleteCopy, LinuxInv, CommandsFit
  <2>2. Listed' = <<>>
    BY <1>1, <2>1 DEF Listed
  <2>3. PICK a, b \in Seq(Rule) : input = Append(a, iptablesLegacy) \o b /\ input' = a \o b
    <3>1. \E a, b \in Seq(Rule) :
            /\ input = Append(a, iptablesLegacy) \o b
            /\ RemoveFirstMatch(input, LAMBDA r : r.own) = a \o b
      BY <1>1, <1>5, CopyIsThere, RemoveSplits
    <3> QED
      BY <2>1, <3>1
  <2>4. PICK new : new = a \o b
    OBVIOUS
  <2>5. new \in Seq(Rule) /\ \A x : In(x, new) => In(x, input)
    <3>1. iptablesLegacy \in Rule
      BY DEF iptablesLegacy, Accept, Rule, Targets, Matches, Scopes
    <3>2. PICK u, c : u = <<iptablesLegacy>> /\ c = a \o u
      OBVIOUS
    <3>3. u \in Seq(Rule) /\ Append(a, iptablesLegacy) = c
      BY <3>1, <3>2
    <3>4. c \in Seq(Rule) /\ \A x : In(x, c) <=> In(x, a) \/ In(x, u)
      <4>1. u \in Seq(Rule)
        BY <3>3
      <4>2. a \o u \in Seq(Rule) /\ \A x : In(x, a \o u) <=> In(x, a) \/ In(x, u)
        BY <4>1, InConcat, Zenon
      <4> QED
        BY <3>2, <4>2, Zenon
    <3>5. \A x : In(x, c \o b) <=> In(x, c) \/ In(x, b)
      <4>1. c \in Seq(Rule)
        BY <3>4
      <4> QED
        BY <4>1, InConcat, Zenon
    <3>6. a \o b \in Seq(Rule) /\ \A x : In(x, a \o b) <=> In(x, a) \/ In(x, b)
      BY InConcat, Zenon
    <3> QED
      BY <2>3, <2>4, <3>3, <3>4, <3>5, <3>6
  <2>6. TailnetKept(new, tsChain)
    <3>1. TailnetKept(Append(a, iptablesLegacy) \o b, tsChain)
      BY <2>1, <2>3 DEF FilterInv
    <3> QED
      BY <2>4, <3>1, RemoveTailnet
  <2>7. \A x : In(x, new) \/ In(x, tsChain) => x.match # "portNarrowed"
    <3>1. /\ \A i \in 1 .. Len(input) : input[i].match # "portNarrowed"
          /\ \A i \in 1 .. Len(tsChain) : tsChain[i].match # "portNarrowed"
      BY DEF Legible
    <3> QED
      BY <2>5, <3>1 DEF In
  <2>8. /\ \A x : In(x, new) /\ Applies(x, p) => x.target # "DROP"
        /\ \A x : In(x, tsChain) /\ Applies(x, p) => x.target = "ACCEPT"
    <3>1. p \in FromTailnet(Packets)
      BY <1>0 DEF FromTailnet
    <3>2. /\ \A i \in 1 .. Len(input) : Applies(input[i], p) => input[i].target # "DROP"
          /\ \A i \in 1 .. Len(tsChain) : Applies(tsChain[i], p) => tsChain[i].target = "ACCEPT"
      BY <3>1 DEF NoTailnetDeny
    <3> QED
      BY <2>5, <3>2 DEF In
  <2>9. Verdict(Traversed(new, tsChain, <<>>), policy, p) = "ACCEPT"
    BY <1>0, <1>1, <2>5, <2>6, <2>7, <2>8, TailnetVerdict
  <2>10. Verdict(Traversed(input', tsChain', Listed'), policy', p) = "ACCEPT"
    BY <1>1, <2>2, <2>3, <2>4, <2>9
  <2> QED
    BY <1>0, <2>10, AdmittedNext
<1> QED
  BY <1>3, <1>4, <1>5, CommandSteps

\* OpensWhatIsClosed, for every INPUT chain, every ts-input and every list of ufw's: the
\* rule firewallBlockedStep and iptLegacySetupStep append is scoped, a deleted copy only
\* closes, and readUFW runs ufw allow where neither list lets the tailnet in.
THEOREM OnlyClosedIsOpened == Spec => OpensWhatIsClosed
<1>1. HostInv /\ FilterInv /\ [Next]_vars =>
        [ RulesChange =>
            \A p \in Admitted' \ Admitted :
              \/ p.in = "tailnet"
              \/ ufw # "absent" /\ (Legible /\ policy = "DROP" => FromTailnet(Admitted) = {}) ]_vars
  BY StepOpensWhatIsClosed
<1> QED
  BY <1>1, ReportsHold, CommandsStartFromReads, PTL DEF Spec, OpensWhatIsClosed

\* KeepsTailnetOpen, for every chain: iptLegacySetupStep deletes its copies behind a rule
\* that lets the tailnet in, whichever of them INPUT holds and wherever.
THEOREM TailnetStaysOpen == Spec => KeepsTailnetOpen
<1>1. HostInv /\ FilterInv /\ [Next]_vars =>
        [ RulesChange /\ Legible /\ NoTailnetDeny => FromTailnet(Admitted) \subseteq Admitted' ]_vars
  BY StepKeepsTailnet
<1> QED
  BY <1>1, ReportsHold, CommandsStartFromReads, PTL DEF Spec, KeepsTailnetOpen
=============================================================================
