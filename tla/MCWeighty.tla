----------------------------- MODULE MCWeighty -----------------------------
(***************************************************************************)
(* All call graphs over two functions of a file and one of each kind that  *)
(* is defined elsewhere.                                                   *)
(***************************************************************************)
EXTENDS Weighty

CONSTANTS parse, eval,  \* defined
          sqrt,         \* libm
          qsort,        \* libc, and calls the program
          pragma,       \* declared weightless
          extern        \* of another object file

MCDefs == <<parse, eval>>
=============================================================================
