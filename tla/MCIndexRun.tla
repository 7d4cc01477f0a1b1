----------------------------- MODULE MCIndexRun -----------------------------
(* A project of two or three files for TLC: "main" calls into "lib", and    *)
(* "tool" lies in a directory that the fast mode skips.                     *)
EXTENDS IndexRun

CONSTANTS main, lib, tool

TwoLib == {main, lib}
Three == {main, lib, tool}
Tools == {tool}
None == {}
LibCalls == {<<main, lib>>}
AllCalls == {<<main, lib>>, <<tool, lib>>, <<tool, main>>}
=============================================================================
