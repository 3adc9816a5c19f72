------------------------- MODULE MCInventoryThreads -------------------------
(* InventoryThreads with OnLoadingScreenDropped entered up to twice, a kit  *)
(* of one item, one script and two pickups or drops; of the four threads    *)
(* any three come to the arrays.                                            *)
EXTENDS InventoryThreads

CONSTANTS s1, outer, inner

StockersDef == <<outer, inner>>

=============================================================================
