---- MODULE MCDaemon ----
EXTENDS Daemon

CONSTANTS v1, v2

MCVersions == {v1, v2}
MCDays == 1 .. 2
====
