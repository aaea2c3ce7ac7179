-------------------------- MODULE BridgeRunProofs ---------------------------
(***************************************************************************)
(* Proofs about BridgeRun, for every bound on connections and cleanups and *)
(* every combination of the options.                                       *)
(***************************************************************************)
EXTENDS BridgeRun, TLAPS

(***************************************************************************)
(* The inductive invariant, by where the main goroutine is.                *)
(***************************************************************************)
\* Before announceReady writes READY nothing has been written, except by a step
\* that also leaves the way to it.
Unannounced == {"start", "bootstrap", "node", "up", "listen", "announce", "check", "emit"}
SilentUntilReady == mpc \in Unannounced => out = <<>>

\* Whoever closes the listener has a cause to do so, or returns an error.
Explained == cause # "none" \/ ret = "err"
ClosingIsExplained ==
    /\ shut \in {"flag", "listener", "health", "done"} => cause # "none"
    /\ lsn = "closed" => Explained
    /\ mpc \in {"drain", "closenode", "report"} => Explained

\* Past Report the result is settled: an error, or a plain cancel, which no later
\* cause replaces.
ResultSettled ==
    mpc \in {"cancel", "closeboot", "cleanup", "exit"} => ret = "err" \/ cause = "canceled"

\* The node is up from Up to its Close only, and the child from its start to
\* Tunnel.Close.
NodeFollowsMain ==
    /\ mpc \in {"start", "bootstrap", "node", "up"} => node = "down"
    /\ mpc \in {"nodefailed", "report", "cancel", "closeboot", "cleanup", "exit"} => node # "up"
BootFollowsMain ==
    /\ mpc \in {"start", "bootstrap"} => boot = "none"
    /\ mpc \in {"cleanup", "exit"} => boot \in {"none", "closed"}

\* The state directory is touched at the very end, with an attempt left until
\* the last.
CleanupIsLast ==
    /\ tries > 0 \/ dir \in {"removed", "left"} => mpc \in {"cleanup", "exit"}
    /\ mpc # "exit" => tries < MaxCleanups

RunInv ==
    /\ TypeOK
    /\ SilentUntilReady /\ ReadyIsFirstAndOnly
    /\ ClosingIsExplained /\ ResultSettled
    /\ NodeFollowsMain /\ BootFollowsMain /\ CleanupIsLast

----------------------------------------------------------------------------
\* One more line, unless it is READY, keeps READY first and only.
LEMMA ErrorLine ==
    ASSUME out \in Seq({"READY", "ERROR"}), ReadyIsFirstAndOnly,
           out' \in {out, Append(out, "ERROR"), out \o CauseLine}
    PROVE  out' \in Seq({"READY", "ERROR"}) /\ ReadyIsFirstAndOnly'
<1>1. out' \in {out, Append(out, "ERROR")}
  BY DEF CauseLine
<1> QED
  BY <1>1 DEF ReadyIsFirstAndOnly, Lines

\* READY as the first line of all.
LEMMA ReadyLine ==
    ASSUME out = <<>>, out' = Append(out, "READY")
    PROVE  out' \in Seq({"READY", "ERROR"}) /\ ReadyIsFirstAndOnly'
<1>1. out \in Seq({"READY", "ERROR"}) /\ Len(out) = 0
  OBVIOUS
<1>2. out' \in Seq({"READY", "ERROR"}) /\ Len(out') = 1
  BY <1>1
<1>3. DOMAIN out' = 1..1
  BY <1>2
<1> QED
  BY <1>2, <1>3 DEF ReadyIsFirstAndOnly, Lines

\* The state in which run() begins.
LEMMA RunInit == Init => RunInv
<1> SUFFICES ASSUME Init PROVE RunInv
  OBVIOUS
<1>1. TypeOK
  <2>1. 0 \in 0..MaxConns /\ 0 \in 0..MaxCleanups /\ 0 < MaxCleanups /\ ~(0 > 0)
    BY BoundsAssumption
  <2>2. <<>> \in Seq({"READY", "ERROR"})
    OBVIOUS
  <2> QED
    BY <2>1, <2>2, Zenon DEF Init, TypeOK, MainPcs, Causes, Reasons
<1>2. /\ mpc = "start" /\ out = <<>> /\ boot = "none" /\ node = "down"
      /\ dir \in {"absent", "present"} /\ tries = 0
  BY Zenon DEF Init
<1>3. SilentUntilReady /\ ReadyIsFirstAndOnly
  BY <1>2 DEF SilentUntilReady, ReadyIsFirstAndOnly, Lines
<1>4. ClosingIsExplained /\ ResultSettled
  BY DEF Init, ClosingIsExplained, ResultSettled
<1>5. NodeFollowsMain /\ BootFollowsMain /\ CleanupIsLast
  BY <1>2, BoundsAssumption DEF NodeFollowsMain, BootFollowsMain, CleanupIsLast
<1> QED
  BY <1>1, <1>3, <1>4, <1>5 DEF RunInv

\* run, withBootstrapLifecycle and initTailscale: from the state directory to a
\* node that is up, or an error line and the way out.
LEMMA StartKeepsInv ==
    ASSUME RunInv, UNCHANGED cfg,
           \/ EnsureStateDir \/ EnsureStateDirFails \/ StartBootstrap \/ StartBootstrapFails
           \/ NodeBegin \/ NodeUp \/ NodeCancelled \/ NodeFails \/ NodeFailureReported
    PROVE  RunInv'
<1> USE DEF EnsureStateDir, EnsureStateDirFails, StartBootstrap, StartBootstrapFails,
            NodeBegin, NodeUp, NodeCancelled, NodeFails, NodeFailureReported,
            Step, Fail, bootVars, status, files
<1>1. out' \in {out, Append(out, "ERROR"), out \o CauseLine}
  OBVIOUS
<1>2. out' \in Seq({"READY", "ERROR"}) /\ ReadyIsFirstAndOnly'
  BY <1>1, ErrorLine DEF RunInv, TypeOK
<1>3. TypeOK'
  BY <1>2 DEF RunInv, TypeOK, MainPcs
<1>4. SilentUntilReady'
  BY DEF RunInv, SilentUntilReady, Unannounced
<1>5. ClosingIsExplained' /\ ResultSettled'
  BY DEF RunInv, TypeOK, Causes, ClosingIsExplained, ResultSettled, Explained
<1>6. NodeFollowsMain' /\ BootFollowsMain'
  BY DEF RunInv, TypeOK, NodeFollowsMain, BootFollowsMain
<1>7. CleanupIsLast'
  BY DEF RunInv, TypeOK, CleanupIsLast
<1> QED
  BY <1>2, <1>3, <1>4, <1>5, <1>6, <1>7 DEF RunInv

\* runBridge: the listener, the two looks at the cause, READY, the callback, the
\* health server and MarkReady.  READY is written on an empty output.
LEMMA AnnounceKeepsInv ==
    ASSUME RunInv, UNCHANGED cfg,
           \/ Listen \/ ListenFails \/ AnnounceCheck \/ AnnounceCancelled \/ EmitReady
           \/ CallbackSucceeds \/ CallbackFails \/ StartShutdownWatch \/ MarkReason \/ MarkFlag
           \/ ResolveRoutes \/ ResolveFails
    PROVE  RunInv'
<1> USE DEF Listen, ListenFails, AnnounceCheck, AnnounceCancelled, EmitReady,
            CallbackSucceeds, CallbackFails, StartShutdownWatch, MarkReason, MarkFlag,
            ResolveRoutes, ResolveFails, CloseAndReturn, Step, Fail, bootVars, status, files
<1>1. out' \in Seq({"READY", "ERROR"}) /\ ReadyIsFirstAndOnly'
  <2>1. CASE EmitReady
    <3>1. out = <<>> /\ out' = Append(out, "READY")
      BY <2>1 DEF RunInv, SilentUntilReady, Unannounced
    <3> QED
      BY <3>1, ReadyLine
  <2>2. CASE ~EmitReady
    <3>1. out' \in {out, Append(out, "ERROR"), out \o CauseLine}
      BY <2>2
    <3> QED
      BY <3>1, ErrorLine DEF RunInv, TypeOK
  <2> QED
    BY <2>1, <2>2
<1>2. TypeOK'
  BY <1>1 DEF RunInv, TypeOK, MainPcs, Reasons
<1>3. SilentUntilReady'
  BY DEF RunInv, SilentUntilReady, Unannounced
<1>4. ClosingIsExplained' /\ ResultSettled'
  BY DEF RunInv, TypeOK, Causes, ClosingIsExplained, ResultSettled, Explained
<1>5. NodeFollowsMain' /\ BootFollowsMain'
  BY DEF RunInv, TypeOK, NodeFollowsMain, BootFollowsMain
<1>6. CleanupIsLast'
  BY DEF RunInv, TypeOK, CleanupIsLast
<1> QED
  BY <1>1, <1>2, <1>3, <1>4, <1>5, <1>6 DEF RunInv

\* The accept loop returns and runBridge drains, closes the node and reports.
LEMMA WindDownKeepsInv ==
    ASSUME RunInv, UNCHANGED cfg,
           LoopReturns \/ LoopFails \/ Drained \/ DrainExpires \/ CloseNode \/ Report
    PROVE  RunInv'
<1> USE DEF LoopReturns, LoopFails, Drained, DrainExpires, CloseNode, Report,
            Step, Fail, bootVars, status, files
<1>1. out' \in Seq({"READY", "ERROR"}) /\ ReadyIsFirstAndOnly'
  <2>1. out' \in {out, Append(out, "ERROR"), out \o CauseLine}
    OBVIOUS
  <2> QED
    BY <2>1, ErrorLine DEF RunInv, TypeOK
<1>2. TypeOK'
  BY <1>1 DEF RunInv, TypeOK, MainPcs
<1>3. SilentUntilReady'
  BY DEF RunInv, SilentUntilReady, Unannounced
<1>4. ClosingIsExplained' /\ ResultSettled'
  BY DEF RunInv, TypeOK, Causes, ClosingIsExplained, ResultSettled, Explained
<1>5. NodeFollowsMain' /\ BootFollowsMain'
  BY DEF RunInv, TypeOK, NodeFollowsMain, BootFollowsMain
<1>6. CleanupIsLast'
  BY DEF RunInv, TypeOK, CleanupIsLast
<1> QED
  BY <1>1, <1>2, <1>3, <1>4, <1>5, <1>6 DEF RunInv

\* The deferred calls of withBootstrapLifecycle and run: cancel, Tunnel.Close and
\* cleanupEphemeralStateDir with its bounded retries.
LEMMA DefersKeepInv ==
    ASSUME RunInv, UNCHANGED cfg,
           \/ CancelRun \/ CloseBootstrap
           \/ KeepStateDir \/ RemoveStateDir \/ RemoveRetry \/ RemoveGivesUp
    PROVE  RunInv'
<1> USE BoundsAssumption
        DEF CancelRun, CloseBootstrap, KeepStateDir, RemoveStateDir, RemoveRetry, RemoveGivesUp,
            Step, bootVars, status, files
<1>1. UNCHANGED out /\ UNCHANGED status
  OBVIOUS
<1>2. ReadyIsFirstAndOnly'
  BY <1>1 DEF RunInv, ReadyIsFirstAndOnly, Lines
<1>3. TypeOK'
  BY <1>1 DEF RunInv, TypeOK, MainPcs, Causes, CleanupIsLast
<1>4. SilentUntilReady'
  BY DEF RunInv, SilentUntilReady, Unannounced
<1>5. ClosingIsExplained' /\ ResultSettled'
  BY DEF RunInv, TypeOK, Causes, ClosingIsExplained, ResultSettled, Explained
<1>6. NodeFollowsMain' /\ BootFollowsMain'
  BY DEF RunInv, TypeOK, NodeFollowsMain, BootFollowsMain
<1>7. CleanupIsLast'
  BY DEF RunInv, TypeOK, CleanupIsLast
<1> QED
  BY <1>2, <1>3, <1>4, <1>5, <1>6, <1>7 DEF RunInv

\* Everything that runs beside main: the connections, monitorBootstrap,
\* handleShutdown, a signal and the end of the child.  They record a cause only
\* where there is none.
LEMMA BesideMainKeepsInv ==
    ASSUME RunInv, UNCHANGED cfg, mpc # "exit",
           \/ ConnOpens \/ ConnEnds \/ TerminalDial \/ MonitorSeesCancel \/ MonitorSeesExit
           \/ ShutdownStep \/ Signal \/ BootstrapExits
    PROVE  RunInv'
<1> USE DEF ConnOpens, ConnEnds, TerminalDial, MonitorSeesCancel, MonitorSeesExit,
            ShutdownStep, ShutdownReason, ShutdownFlag, ShutdownListener, ShutdownHealth, Signal, BootstrapExits,
            bootVars, status, files
<1>1. UNCHANGED <<mpc, ret, node, dir, tries, out>>
  OBVIOUS
<1>2. ReadyIsFirstAndOnly' /\ SilentUntilReady'
  BY <1>1 DEF RunInv, ReadyIsFirstAndOnly, Lines, SilentUntilReady
<1>3. TypeOK'
  <2>1. conns' \in 0..MaxConns
    BY BoundsAssumption DEF RunInv, TypeOK
  <2>2. reason' \in Reasons
    BY DEF RunInv, TypeOK, Causes, Reasons, ShutdownWhy
  <2>3. cause' \in Causes
    BY DEF RunInv, TypeOK, Causes
  <2> QED
    BY <1>1, <2>1, <2>2, <2>3 DEF RunInv, TypeOK
<1>4. cause # "none" => cause' = cause
  OBVIOUS
<1>5. ClosingIsExplained' /\ ResultSettled'
  BY <1>1, <1>4 DEF RunInv, TypeOK, Causes, ClosingIsExplained, ResultSettled, Explained
<1>6. NodeFollowsMain' /\ BootFollowsMain' /\ CleanupIsLast'
  BY <1>1 DEF RunInv, TypeOK, NodeFollowsMain, BootFollowsMain, CleanupIsLast
<1> QED
  BY <1>2, <1>3, <1>5, <1>6 DEF RunInv

----------------------------------------------------------------------------
\* The invariant of one connect run, whatever the order in which main, the
\* monitor, the shutdown goroutine and the world take their steps.
THEOREM RunSafety == Spec => []RunInv
<1>1. Init => RunInv
  BY RunInit
<1>2. RunInv /\ [Next]_vars => RunInv'
  <2> SUFFICES ASSUME RunInv, [Next]_vars PROVE RunInv'
    OBVIOUS
  <2>1. CASE Running /\ MainStep
    BY <2>1, StartKeepsInv, AnnounceKeepsInv, WindDownKeepsInv, DefersKeepInv
       DEF Running, MainStep, MainGoes
  <2>2. CASE /\ Running
             /\ \/ ConnOpens \/ ConnEnds \/ TerminalDial \/ MonitorSeesCancel \/ MonitorSeesExit
                \/ ShutdownStep \/ Signal \/ BootstrapExits
    BY <2>2, BesideMainKeepsInv DEF Running
  <2>3. CASE UNCHANGED vars
    BY <2>3 DEF vars, RunInv, TypeOK, SilentUntilReady, ReadyIsFirstAndOnly, Lines,
                ClosingIsExplained, Explained, ResultSettled, NodeFollowsMain, BootFollowsMain,
                CleanupIsLast
  <2> QED
    BY <2>1, <2>2, <2>3 DEF Next, Exited
<1> QED
  BY <1>1, <1>2, PTL DEF Spec

\* READY is the first line of a run or is never said, and is said once: whatever
\* fails or is cancelled between the start and announceReady.
THEOREM ReadyIsTrue == Spec => []ReadyIsFirstAndOnly
<1>1. RunInv => ReadyIsFirstAndOnly
  BY DEF RunInv
<1> QED
  BY <1>1, RunSafety, PTL

\* A run ended by a terminal dial error or by the loss of the bootstrap exits
\* non-zero: also when the cause appears after Report looked at it.
THEOREM ExitStatusIsTrue == Spec => []ExitStatusTellsCause
<1>1. RunInv => ExitStatusTellsCause
  BY DEF RunInv, ResultSettled, ExitStatusTellsCause
<1> QED
  BY <1>1, RunSafety, PTL

\* On every way out of run the SSH child and the node are closed, and the state
\* directory is touched only afterwards, however many removals are tried.
THEOREM RunCleansUp == Spec => []NothingOutlivesRun
<1>1. RunInv => NothingOutlivesRun
  BY DEF RunInv, TypeOK, NodeFollowsMain, BootFollowsMain, CleanupIsLast, NothingOutlivesRun
<1> QED
  BY <1>1, RunSafety, PTL
=============================================================================
