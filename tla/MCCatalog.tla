----------------------------- MODULE MCCatalog -----------------------------
(***************************************************************************)
(* Instances of Catalog for TLC.  Names are small numbers, their order is  *)
(* the order of the table and partition names.                             *)
(***************************************************************************)
EXTENDS CatalogRefinement

CONSTANTS c1, c2, region, eu, us, v1, country

OneTable == {1}
TwoTables == {1, 2}
TwoPartitions == {1, 2}
TwoColumnLists == {c1, c2}
OneColumnList == {c1}
OneValueList == {v1}
OnePartColumn == {country}
OneKey == {region}
OneValue == {eu}
TwoValues == {eu, us}
=============================================================================
