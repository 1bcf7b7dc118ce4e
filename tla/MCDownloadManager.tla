-------------------------- MODULE MCDownloadManager --------------------------
(* The instance of DownloadManager for TLC.                                *)
EXTENDS DownloadManager

\* One job, retried with a second URL onto the same file.
MCCommands == {[job |-> "j1", url |-> u, dest |-> "d1"] : u \in {"u1", "u2"}}

\* validate() refuses a command only because its URL has expired.
MCMalformed == {}
=============================================================================
