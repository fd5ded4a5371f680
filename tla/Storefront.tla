------------------------------ MODULE Storefront ------------------------------
(***************************************************************************)
(* What clients of the API are shown of what they ask for: the product     *)
(* service and the order service.  An order names its products by ids that *)
(* nobody looks up, so that the two share no state, and any interleaving   *)
(* of their steps is one of each by itself.                                *)
(***************************************************************************)
EXTENDS OrderValues, ProductCatalog

StorefrontInit == ValuesInit /\ CatalogInit

StorefrontNext ==
  \/ ValuesNext /\ UNCHANGED catalogVars
  \/ CatalogNext /\ UNCHANGED valueVars

StorefrontSpec == StorefrontInit /\ [][StorefrontNext]_<<valueVars, catalogVars>>
===============================================================================
