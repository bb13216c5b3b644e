------------------------------ MODULE MCBuffer ------------------------------
(* Buffer with a prepend area of one byte, a few bytes of initial size and *)
(* of extrabuf, two byte values and calls of up to four bytes.             *)
EXTENDS Buffer

TwoBytes == {0, 1}
=============================================================================
