---------------------------- MODULE MCCacheLocks ----------------------------
(* Instances of CacheLocks for TLC: the threads of the server. *)
EXTENDS CacheLocks, TLC

CONSTANTS handler, command, rpki, reader

\* While nobody disconnects: requests, validations and RPKI changes.
ConnectedThreads == {handler, command, rpki}
ConnectedJobs ==
  (handler :> {"find", "storeUpdate", "modifyAspa"}) @@
  (command :> {"find", "modifyUpdateResult"}) @@
  (rpki :> {"find", "modifyUpdateResult"})

\* With a reader thread whose connection is lost.
AllThreads == ConnectedThreads \union {reader}
AllJobs == ConnectedJobs @@ (reader :> {"unregisterClientID"})
=============================================================================
