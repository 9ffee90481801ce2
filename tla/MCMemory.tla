------------------------------ MODULE MCMemory ------------------------------
(***************************************************************************)
(* Memory for TLC: pages of two addresses, so that sizes 1, 2 and 3 are    *)
(* less than a page, a page, and a page and one byte.                      *)
(***************************************************************************)
EXTENDS Memory

\* One segment that ends inside page 1.
OneSegment == <<[vstart |-> 2, vend |-> 3]>>

\* An argument string in the segment, and one where the binary's heap starts.
ArgPlaces == {[vstart |-> 3, vend |-> 3], [vstart |-> 4, vend |-> 5]}
=============================================================================
