------------------------ MODULE MCMultiWriteCloser -------------------------
(* A list of up to three writers, writes of one or two bytes, four calls: *)
(* enough for a writer added between writes, a short write in the middle *)
(* of the list, and a Close with some failures.                          *)
EXTENDS MultiWriteCloser

MCMaxWriters == 3
MCMaxLen == 2
MCMaxCalls == 4
=============================================================================
