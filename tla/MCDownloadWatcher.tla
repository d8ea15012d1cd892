-------------------------- MODULE MCDownloadWatcher --------------------------
(* Instances of DownloadWatcher for TLC.                                   *)
EXTENDS DownloadWatcher
=============================================================================
