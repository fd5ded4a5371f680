---------------------------- MODULE ProductCatalog ----------------------------
(***************************************************************************)
(* The product service behind the gateway: what CreateProduct stores of a  *)
(* request, what it tells its caller, and what GetProduct tells of the row *)
(* later.  A caller may be the gateway, or anyone who speaks gRPC.         *)
(***************************************************************************)
EXTENDS Naturals, FiniteSets

CONSTANTS Products,       \* the ids the database gives to its rows
          Names, TooLong, \* names; those the column does not take
          Currencies, Idr,\* currencies of three letters; the default of the column
          Prices,         \* amounts, a missing one among them
          NoPrice, Empty, \* no price; a name or a currency that is missing
          Absent,         \* no row, no answer
          NotFound,       \* the answer 404
          MaxMishaps      \* bound on failures

\* The columns of a row, and the product of an answer.
ProductRow == [name : Names, currency : Currencies, price : Prices]
PbProduct == [name : Names, currency : Currencies, price : Prices, active : BOOLEAN]

ASSUME CatalogAssumption ==
  /\ TooLong \subseteq Names /\ Idr \in Currencies
  /\ Empty \notin Currencies \cup Names /\ NoPrice \notin Prices
  /\ Absent \notin ProductRow \cup PbProduct /\ NotFound \notin PbProduct \cup {Absent}
  /\ MaxMishaps \in Nat

VARIABLES catalog,        \* the rows of products
          created,        \* what the caller of CreateProduct was told, by id
          shown,          \* what the last GetProduct since then was answered
          mishaps         \* failures so far

catalogVars == <<catalog, created, shown, mishaps>>

\* The gateway sends a price even if the body has none, perhaps without a currency.
HttpProduct == [name : Names \cup {Empty}, currency : Currencies \cup {Empty}, price : Prices]

\* Other callers may leave out the price.
CreateProductRequest ==
  HttpProduct \cup [name : Names \cup {Empty}, currency : {Empty}, price : {NoPrice}]

CatalogInit ==
  /\ catalog = [p \in Products |-> Absent]
  /\ created = [p \in Products |-> Absent]
  /\ shown = [p \in Products |-> Absent]
  /\ mishaps = 0

Mishap == mishaps < MaxMishaps /\ mishaps' = mishaps + 1

------------------------------------------------------------------------------
(* CreateProduct *)

\* The tags of the domain's structs: the name and the currency are required.
Validate(input) == input.name # Empty /\ input.currency # Empty

\* The price is there, and Validate finds nothing.  A request that is refused, or
\* whose name the column does not take, leaves no trace.
Valid(req) == req.price # NoPrice /\ Validate(req)

\* Mutated form: the statement names no currency, so that the column's default
\* is stored.
RowDefault(req) == [name |-> req.name, currency |-> Idr, price |-> req.price]

\* The columns of INSERT: is_active has none.
Row(req) == [name |-> req.name, currency |-> req.currency, price |-> req.price]

\* mapDomainProductToPb
PbOf(row, active) ==
  [name |-> row.name, currency |-> row.currency, price |-> row.price, active |-> active]

\* The INSERT is the whole transaction, and returns the new id.
CreateProduct(req, p) ==
  /\ Valid(req) /\ req.name \notin TooLong
  /\ catalog[p] = Absent
  /\ catalog' = [catalog EXCEPT ![p] = Row(req)]
  /\ created' = [created EXCEPT ![p] = PbOf(req, TRUE)]
  /\ shown' = [shown EXCEPT ![p] = Absent]
  /\ UNCHANGED mishaps

\* Mutated form: the error of repo.CreateProduct is not looked at.
CreateFailsUnseen(req, p) ==
  /\ Valid(req) /\ req.name \notin TooLong
  /\ catalog[p] = Absent /\ created[p] = Absent
  /\ Mishap
  /\ created' = [created EXCEPT ![p] = PbOf(req, TRUE)]
  /\ shown' = [shown EXCEPT ![p] = Absent]
  /\ UNCHANGED catalog

\* The caller is told of a failure; the row may have been stored.
CreateFails(req, p) ==
  /\ Valid(req) /\ req.name \notin TooLong
  /\ catalog[p] = Absent
  /\ Mishap
  /\ catalog' \in {catalog, [catalog EXCEPT ![p] = Row(req)]}
  /\ UNCHANGED <<created, shown>>

------------------------------------------------------------------------------
(* GetProduct *)

\* The SELECT.  It says nothing of is_active, so that it stays false.
Found(p) == IF catalog[p] = Absent THEN NotFound ELSE PbOf(catalog[p], FALSE)

GetProduct(p) ==
  /\ shown' = [shown EXCEPT ![p] = Found(p)]
  /\ UNCHANGED <<catalog, created, mishaps>>

\* The gateway makes a 404 of every error.  The service tells Internal from
\* NotFound, so that a gRPC caller could see the difference: what is modelled
\* is that no product was shown.
GetFails(p) ==
  /\ Mishap
  /\ shown' = [shown EXCEPT ![p] = NotFound]
  /\ UNCHANGED <<catalog, created>>

CatalogNext ==
  \E p \in Products :
    \/ GetProduct(p) \/ GetFails(p)
    \/ \E req \in CreateProductRequest : CreateProduct(req, p) \/ CreateFails(req, p)

CatalogSpec == CatalogInit /\ [][CatalogNext]_catalogVars

------------------------------------------------------------------------------
(* Properties *)

\* Every variable has its type: what is stored and told is valid.
CatalogTypeOK ==
  /\ catalog \in [Products -> ProductRow \cup {Absent}]
  /\ created \in [Products -> PbProduct \cup {Absent}]
  /\ shown \in [Products -> PbProduct \cup {Absent, NotFound}]
  /\ mishaps \in 0 .. MaxMishaps

\* A product is read back as its creator was told of it, but for is_active: it
\* is created active and never read as such, since no column keeps it.
ProductReadsBack ==
  \A p \in Products :
    created[p] # Absent /\ shown[p] \notin {Absent, NotFound} =>
      /\ created[p].active /\ ~ shown[p].active
      /\ \A c \in {"name", "currency", "price"} : shown[p][c] = created[p][c]

\* A product someone was told of is stored, and is not found only when a call
\* failed, once for each failure, although every error looks like a missing
\* product.
ProductIsFound ==
  /\ \A p \in Products : created[p] # Absent => catalog[p] # Absent
  /\ Cardinality({p \in Products : created[p] # Absent /\ shown[p] = NotFound}) <= mishaps
===============================================================================
