---------------------------- MODULE MCDirtyPages ----------------------------
(* Three pages of 8 bytes.  The walk starts in the middle, at 12: its      *)
(* steps stay in a page, go to another, straddle two, and wrap around the  *)
(* end.                                                                    *)
EXTENDS DirtyPages

MCOffsets == {-15, -3, 0, 6, 11}
=============================================================================
