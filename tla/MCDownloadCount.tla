-------------------------- MODULE MCDownloadCount --------------------------
(* TLC instances of DownloadCount.                                         *)
EXTENDS DownloadCount
=============================================================================
