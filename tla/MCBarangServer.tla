--------------------------- MODULE MCBarangServer ---------------------------
(* One item with one unit, two names, two requests in flight. *)
EXTENDS BarangServer
=============================================================================
