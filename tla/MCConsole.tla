------------------------------ MODULE MCConsole -------------------------------
(* Lines of two characters and a history of two.  The characters are those    *)
(* that also occur in escape sequences, and the space of blank lines.         *)
EXTENDS Console

MCPrintable == {"A", "B", "[", " "}
MCUnprintable == {"tab"}
=============================================================================
