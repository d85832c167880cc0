--------------------------- MODULE MCDownloadManager ---------------------------
(***************************************************************************)
(* DownloadManager for TLC: a script without a size and a package with     *)
(* one, as Updates appends them, each of two units.                        *)
(***************************************************************************)
EXTENDS DownloadManager

CONSTANTS script, zip

\* Two batches with one redirection, or one with two; one less once two files
\* are mixed up.
Bound ==
  /\ batches + hops <= 3
  /\ overlap \/ strayed => batches + hops <= 2

MCFiles == {script, zip}
MCSized == {zip}
MCBatches == {<<script, zip>>}
=============================================================================
