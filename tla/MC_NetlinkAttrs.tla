--------------------------- MODULE MC_NetlinkAttrs ---------------------------
(* Inputs for NetlinkAttrs: values that need no padding, one and three     *)
(* bytes of it, and a u32 exactly, so the alignment and the len(v) >= 4    *)
(* test both matter; a byte above 0x0f, so that both hex digits of the     *)
(* string form matter; the bit-timing types and one other.                 *)
EXTENDS NetlinkAttrs

MCValues == {<<>>, <<1, 2, 3>>, <<18, 2, 3, 4>>, <<5, 6, 7, 8, 9>>}
=============================================================================
