---------------------------- MODULE MCDemoLaunch ----------------------------
(* Small instances of DemoLaunch for TLC. *)
EXTENDS DemoLaunch, TLC

\* Bound: session storage keeps up with the background.
StorageKeepsUp == Len(ops) <= 2
=============================================================================
