----------------------------- MODULE MCRpiThread -----------------------------
(* RpiThread for TLC: the constants get their values in the .cfg files.    *)
EXTENDS RpiThread
=============================================================================
