----------------------------- MODULE MCDumpTool -----------------------------
(* Small instances of DumpTool for TLC.                                    *)
EXTENDS DumpTool

CONSTANTS p1, p2
=============================================================================
