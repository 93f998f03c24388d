--------------------------- MODULE MC_FixedNull ---------------------------
(* A physical type holding 0..3 (as a byte-trimmed column holds a narrower *)
(* range than its logical i64), arrays of up to four rows holding 1..2 or  *)
(* NULL, and comparison values one beyond the physical range on each side. *)
EXTENDS FixedNull

MCVals == 1 .. 2
\* ByteTrimmer's decode widens the stored integer: the value is kept.
MCDecode == [x \in MCVals |-> x]
MCEncodable == 0 .. 3
MCLogical == -1 .. 4
=============================================================================
