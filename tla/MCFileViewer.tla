----------------------------- MODULE MCFileViewer -----------------------------
(* Two files and URLs for all that may be alive at once, with one to spare. *)
EXTENDS FileViewer
=============================================================================
