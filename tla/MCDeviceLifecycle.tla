---------------------------- MODULE MCDeviceLifecycle ----------------------------
EXTENDS DeviceLifecycle, TLC
CONSTANTS d1, Faults, Crashes, Edits, Reboots
MCDevice == {d1}
MCBudget == [faults |-> Faults, crashes |-> Crashes, edits |-> Edits, reboots |-> Reboots]
=============================================================================
