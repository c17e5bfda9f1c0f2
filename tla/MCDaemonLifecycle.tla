-------------------------- MODULE MCDaemonLifecycle --------------------------
\* Instances of DaemonLifecycle for TLC.
EXTENDS DaemonLifecycle, TLC

\* To keep the instance small, a cleanup decides only about a daemon that nothing
\* watches any more.  It can but end the daemon, which no property forbids here,
\* and nothing is assumed fair of it; lifecycle_clear has it at any moment.
CleanupLast == CleanDecide => pc[Watcher] = "over"
==============================================================================
