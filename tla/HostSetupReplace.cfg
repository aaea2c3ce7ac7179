SPECIFICATION Spec
CONSTANTS
    MaxRuns = 2
    MaxFaults = 2
    Services <- MCServices
    Timeouts <- MCTimeouts
    LinuxHosts <- MCLinuxHosts
    WindowsHosts <- MCWindowsHosts

PROPERTY ReplacingNeverCloses
CHECK_DEADLOCK FALSE
