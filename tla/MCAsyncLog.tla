----------------------------- MODULE MCAsyncLog -----------------------------
(* Small instances of AsyncLog: a logger's first line takes half the roll    *)
(* size of 2, its second all of it, so that files end below the roll size,  *)
(* at it and beyond it.                                                     *)
EXTENDS AsyncLog

MCLengthOf == [x \in Lines |-> x[2]]
=============================================================================
