-------------------------- MODULE MCCatalogSearch --------------------------
(* Two products, of one price or two; the shop lists both, or one of them  *)
(* twice.                                                                  *)
EXTENDS CatalogSearch

MCLists == {<<2, 1>>, <<1, 1>>}
MCTables == {<<1, 2>>, <<1, 1>>}
=============================================================================
