-------------------------- MODULE MCResidentWorker --------------------------
(* Instances of ResidentWorker.                                            *)
EXTENDS ResidentWorker

\* Everywhere but between Popen and the pid file, and between a request and the
\* end of the daemon that may not have answered it.
NothingPending ==
  {"ensure", "unlink", "spawn", "popen", "check", "lock", "flock", "open", "write", "quitted"}
Never == {}

=============================================================================
