SPECIFICATION Spec
CONSTANTS
    MaxRuns = 2
    MaxFaults = 2
    Services <- MCServices
    Timeouts <- MCTimeouts
    LinuxHosts <- MCLinuxHosts
    WindowsHosts <- MCWindowsHosts
INVARIANTS  SecondRunIsQuiet ConvergedMeansDeclared
PROPERTIES OpensWhatIsClosed KeepsTailnetOpen OperatorRulesStay
CHECK_DEADLOCK FALSE
