SPECIFICATION Spec
CONSTANTS
    MaxRuns = 2
    MaxFaults = 2
    Services <- MCServices
    Timeouts <- MCTimeouts
    LinuxHosts <- MCLinuxHosts
    WindowsHosts <- MCWindowsHosts

INVARIANT XrdpListensWhereItSays
CHECK_DEADLOCK FALSE
