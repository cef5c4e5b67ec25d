--------------------------- MODULE MCReplayDriver ---------------------------
(* A component with two exports, one of which has a post-return, and an    *)
(* import of every kind of stub.  Export and import ids are both numbered  *)
(* from zero, as the record ids and the stub counter of the decomposer     *)
(* are, so that an id used in the wrong direction is a legal id.           *)
EXTENDS ReplayDriver

MCExports == {0, 1}
MCPosts == {1}
MCImports == 0..4
MCKind == [i \in 0..4 |->
  CASE i = 0 -> "host" [] i = 1 -> "value" [] i = 2 -> "drop"
    [] i = 3 -> "guest_dtor" [] i = 4 -> "host_dtor"]
=============================================================================
