---------------------------- MODULE MCDownloader ----------------------------
(* Small instances of Downloader.                                           *)
EXTENDS Downloader, TLC
=============================================================================
