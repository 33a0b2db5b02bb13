------------------------------ MODULE MCConsole ------------------------------
EXTENDS Console

\* An ordinary key, one whose eighth bit is set, and control-\.
MCChar == {65, 193, 28}
MCInterruptKey == 28

=============================================================================
