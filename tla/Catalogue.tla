------------------------------ MODULE Catalogue ------------------------------
(***************************************************************************)
(* Which product rows there are, whose they are, and the categories they   *)
(* are filed under.  Creating and editing a product is two steps: the      *)
(* serializer resolves the shop and looks for the name and the category,   *)
(* and the row is written later, outside any transaction; what has become  *)
(* untrue in between is left to the database's constraints.  An admin may  *)
(* name any shop in his request, and the name is then looked for there.    *)
(***************************************************************************)
CONSTANTS
  Products, Categories,   \* primary keys, each used once
  Shops, NoShop,
  Names                   \* name and unit of a product, which go together

ASSUME CatalogueAssumption == NoShop \notin Shops

VARIABLES
  approved,       \* shops whose status is APPROVED
  categoryRow,    \* "none" before the INSERT, "saved", "deleted"
  listed,         \* products with a row
  soldBy,         \* Product.shop; NoShop if there never was a row
  name,           \* Product.name and unit, of a listed product
  category,       \* Product.category, of a listed product
  adding,         \* POST requests that have passed the serializer
  renaming        \* PUT and PATCH requests that have passed it

catalogueVars ==
  <<approved, categoryRow, listed, soldBy, name, category, adding, renaming>>

\* validated_data: the shop is the one the request resolved to.
Validated == [product : Products, shop : Shops, name : Names, category : Categories]

\* An update has an instance besides: read is the shop get_object found it in.
Renaming == [product : Products, shop : Shops, name : Names, category : Categories,
             read : Shops]

CatalogueTypeOK ==
  /\ approved \subseteq Shops
  /\ categoryRow \in [Categories -> {"none", "saved", "deleted"}]
  /\ soldBy \in [Products -> Shops \cup {NoShop}]
  /\ listed \subseteq {p \in Products : soldBy[p] # NoShop}
  /\ name \in [Products -> Names]
  /\ category \in [Products -> Categories]
  /\ adding \subseteq Validated
  /\ renaming \subseteq Renaming

CatalogueInit ==
  /\ approved = {}
  /\ categoryRow = [c \in Categories |-> "none"]
  /\ listed = {}
  /\ soldBy = [p \in Products |-> NoShop]
  /\ name \in [Products -> Names] /\ category \in [Products -> Categories]
  /\ adding = {} /\ renaming = {}

-----------------------------------------------------------------------------
\* Seeded faults.  Without the unique constraint on (shop, name, unit) only the
\* serializer looks, which breaks NamesUniqueInShop; without the foreign key an
\* INSERT may follow a deletion, which breaks CategoriesInUseStay; an update
\* that saves the shop of its payload breaks ProductsStayInTheirShop.
ConstraintsWithoutUnique(i, s) == categoryRow[i.category] = "saved"
ConstraintsWithoutForeignKey(i, s) ==
  ~\E p \in listed \ {i.product} : soldBy[p] = s /\ name[p] = i.name
ShopAsSent(i) == i.shop

NameTaken(s, n, p) == \E q \in listed \ {p} : soldBy[q] = s /\ name[q] = n

\* What the database asks of the row a request writes for shop s.
ConstraintsAllow(i, s) ==
  ~NameTaken(s, i.name, i.product) /\ categoryRow[i.category] = "saved"

\* resolve_shop_for_product_write: a shopkeeper is pinned to his own shop, and
\* only once that is approved; an admin says which.
Resolves(s, role) == role = "ADMIN" \/ s \in approved

\* The serializer, for either request.
Valid(i) == ConstraintsAllow(i, i.shop)

\* POST /api/products/manage/
AddCheck(i, role) ==
  /\ soldBy[i.product] = NoShop
  /\ Resolves(i.shop, role) /\ Valid(i)
  /\ adding' = adding \cup {i}
  /\ UNCHANGED <<approved, categoryRow, listed, soldBy, name, category, renaming>>

AddProduct(i) ==
  /\ i \in adding
  /\ soldBy[i.product] = NoShop
  /\ ConstraintsAllow(i, i.shop)
  /\ listed' = listed \cup {i.product}
  /\ soldBy' = [soldBy EXCEPT ![i.product] = i.shop]
  /\ name' = [name EXCEPT ![i.product] = i.name]
  /\ category' = [category EXCEPT ![i.product] = i.category]
  /\ adding' = {other \in adding : other.product # i.product}
  /\ UNCHANGED <<approved, categoryRow, renaming>>

\* PUT of /api/products/manage/<id>/, or a PATCH of name and category:
\* get_object, and the serializer.
RenameCheck(i, role) ==
  /\ i.product \in listed
  /\ role = "SHOPKEEPER" => i.shop = soldBy[i.product]
  /\ Resolves(i.shop, role) /\ Valid(i)
  /\ renaming' = renaming \cup
       {[product |-> i.product, shop |-> i.shop, name |-> i.name,
         category |-> i.category, read |-> soldBy[i.product]]}
  /\ UNCHANGED <<approved, categoryRow, listed, soldBy, name, category, adding>>

\* serializer.save(shop=instance.shop): whatever the request resolved to, but
\* the shop as it was read, which nothing compares with the row again.
ShopSaved(i) == i.read

\* Another request that validated the same may still be there.
RenameProduct(i) ==
  /\ i \in renaming
  /\ i.product \in listed
  /\ ConstraintsAllow(i, ShopSaved(i))
  /\ soldBy' = [soldBy EXCEPT ![i.product] = ShopSaved(i)]
  /\ name' = [name EXCEPT ![i.product] = i.name]
  /\ category' = [category EXCEPT ![i.product] = i.category]
  /\ renaming' \in {renaming \ {i}, renaming}
  /\ UNCHANGED <<approved, categoryRow, listed, adding>>

\* DELETE /api/products/manage/<id>/
DelistProduct(p) ==
  /\ p \in listed
  /\ listed' = listed \ {p}
  /\ UNCHANGED <<approved, categoryRow, soldBy, name, category, adding, renaming>>

\* Categories are the admins'; one that a product is filed under is protected.
\* (So is a shop's, and a shop does not change it in this module.)
CreateCategory(c) ==
  /\ categoryRow[c] = "none"
  /\ categoryRow' = [categoryRow EXCEPT ![c] = "saved"]
  /\ UNCHANGED <<approved, listed, soldBy, name, category, adding, renaming>>

DeleteCategory(c) ==
  /\ categoryRow[c] = "saved"
  /\ \A p \in listed : category[p] # c
  /\ categoryRow' = [categoryRow EXCEPT ![c] = "deleted"]
  /\ UNCHANGED <<approved, listed, soldBy, name, category, adding, renaming>>

\* Moderation (Shops), as far as resolve_shop_for_product_write sees it.
Moderate(s) ==
  /\ approved' \in {approved \cup {s}, approved \ {s}}
  /\ UNCHANGED <<categoryRow, listed, soldBy, name, category, adding, renaming>>

CatalogueStep ==
  \/ \E i \in Validated, role \in {"SHOPKEEPER", "ADMIN"} :
       AddCheck(i, role) \/ RenameCheck(i, role)
  \/ \E i \in renaming : RenameProduct(i)
  \/ \E c \in Categories : CreateCategory(c) \/ DeleteCategory(c)
  \/ \E s \in Shops : Moderate(s)

-----------------------------------------------------------------------------
(***************************************************************************)
(* A shop never has two products of one name and unit, though the requests *)
(* that create and rename them cross, and an admin's may have been         *)
(* compared with the products of another shop.                             *)
(***************************************************************************)
NamesUniqueInShop ==
  \A p, q \in listed : soldBy[p] = soldBy[q] /\ name[p] = name[q] => p = q

(***************************************************************************)
(* "Never let the shop of an existing product be reassigned via the        *)
(* payload": a product stays in its shop for good, so that carts may take  *)
(* the shop of a line for settled.  Every edit writes the shop it has read *)
(* over the one the row is in, however long ago it read it, so it takes    *)
(* all of them together: if one of them wrote another shop, those under    *)
(* way would write back the shop they had read.                            *)
(***************************************************************************)
ProductsStayInTheirShop ==
  [][\A p \in Products : soldBy[p] # NoShop => soldBy'[p] = soldBy[p]]_catalogueVars

(***************************************************************************)
(* No product is filed under a category that is gone, though categories    *)
(* are deleted while requests that have found them are under way.          *)
(***************************************************************************)
CategoriesInUseStay == \A p \in listed : categoryRow[category[p]] = "saved"

==============================================================================
