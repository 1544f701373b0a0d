--------------------------- MODULE MCMarshalStream ---------------------------
(* MarshalStream with the classes of CallMgr a run registers. *)
EXTENDS MarshalStream

Keeping   == <<"dict">>
Calling   == <<"items", "address">>
OneClass  == <<"items">>
=============================================================================
