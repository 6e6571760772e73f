---------------------------- MODULE RecordsProofs -----------------------------
(***************************************************************************)
(* Proofs about addresses and the catalogue, as parts of RecordsSpec: for  *)
(* any users, shops and products, and any number of requests in flight.    *)
(***************************************************************************)
EXTENDS OrderRecords, FiniteSetTheorems, TLAPS

-----------------------------------------------------------------------------
(***************************************************************************)
(* Addresses.                                                              *)
(***************************************************************************)
LEMMA AddressesTypeInit == AddressesInit => AddressesTypeOK
BY DEF AddressesInit, AddressesTypeOK, Saved

\* What a step of another part leaves alone.
LEMMA AddressesTypeStutter ==
  AddressesTypeOK /\ UNCHANGED addressVars => AddressesTypeOK'
BY DEF AddressesTypeOK, addressVars, Saved

\* set_default_address writes defaults among the rows there are.
LEMMA DefaultsAreSaved ==
  ASSUME AddressesTypeOK, NEW i \in Instance,
         i.wasDefault \/ i.address \in Saved
  PROVE  DefaultsAfter(i) \subseteq Saved
BY DEF AddressesTypeOK, DefaultsAfter, ClearedExcept

LEMMA AddressesTypeStep ==
  AddressesTypeOK /\ AddressesNext => AddressesTypeOK'
<1> SUFFICES ASSUME AddressesTypeOK, AddressesNext
             PROVE  AddressesTypeOK'
  OBVIOUS
<1>1. ASSUME NEW a \in Addresses, NEW makeDefault \in BOOLEAN,
             CreateAddress(a, makeDefault)
      PROVE  AddressesTypeOK'
  <2>1. row' = [row EXCEPT ![a] = "saved"] /\ row \in [Addresses -> {"none", "saved", "deleted"}]
    BY <1>1 DEF CreateAddress, AddressesTypeOK
  <2>2. row' \in [Addresses -> {"none", "saved", "deleted"}]
    BY <2>1
  <2>3. Saved' = Saved \cup {a}
    BY <2>1 DEF Saved
  <2>4. isDefault' \subseteq isDefault \cup {a}
    BY <1>1 DEF CreateAddress, DefaultsAfter, ClearedExcept
  <2>5. isDefault' \subseteq Saved'
    BY <2>3, <2>4 DEF AddressesTypeOK
  <2> QED
    BY <1>1, <2>2, <2>5 DEF CreateAddress, AddressesTypeOK, Instance
<1>2. ASSUME NEW a \in Addresses, EditRead(a)
      PROVE  AddressesTypeOK'
  <2>1. [address |-> a, wasDefault |-> a \in isDefault] \in Instance
    BY DEF Instance
  <2> QED
    BY <1>2, <2>1 DEF EditRead, AddressesTypeOK, Saved, Instance
<1>3. ASSUME NEW a \in Addresses, DeleteAddress(a)
      PROVE  AddressesTypeOK'
  BY <1>3 DEF DeleteAddress, AddressesTypeOK, Saved, Instance
<1>4. ASSUME NEW i \in settingDefault, EditCommit(i)
      PROVE  AddressesTypeOK'
  <2>1. i \in Instance
    BY DEF AddressesTypeOK
  <2>2. isDefault' \subseteq Saved
    BY <1>4, <2>1, DefaultsAreSaved DEF EditCommit
  <2>3. Saved' = Saved
    BY <1>4 DEF EditCommit, Saved
  <2> QED
    BY <1>4, <2>2, <2>3 DEF EditCommit, AddressesTypeOK, Instance
<1> QED
  BY <1>1, <1>2, <1>3, <1>4 DEF AddressesNext

\* Whoever goes through set_default_address leaves his user with one default.
LEMMA OneDefaultAfter ==
  ASSUME AtMostOneDefault, NEW i
  PROVE  \A a, b \in DefaultsAfter(i) : OwnerOf[a] = OwnerOf[b] => a = b
BY DEF AtMostOneDefault, DefaultsAfter, ClearedExcept

LEMMA OneDefaultStep ==
  ASSUME AtMostOneDefault, AddressesNext
  PROVE  AtMostOneDefault'
<1>1. ASSUME NEW a \in Addresses, NEW makeDefault \in BOOLEAN,
             CreateAddress(a, makeDefault)
      PROVE  AtMostOneDefault'
  BY <1>1, OneDefaultAfter DEF CreateAddress, AtMostOneDefault
<1>2. ASSUME NEW a \in Addresses, EditRead(a)
      PROVE  AtMostOneDefault'
  BY <1>2 DEF EditRead, AtMostOneDefault
<1>3. ASSUME NEW a \in Addresses, DeleteAddress(a)
      PROVE  AtMostOneDefault'
  BY <1>3 DEF DeleteAddress, AtMostOneDefault
<1>4. ASSUME NEW i \in settingDefault, EditCommit(i)
      PROVE  AtMostOneDefault'
  BY <1>4, OneDefaultAfter DEF EditCommit, AtMostOneDefault
<1> QED
  BY <1>1, <1>2, <1>3, <1>4 DEF AddressesNext

AddressesInv == AddressesTypeOK /\ AtMostOneDefault

LEMMA AddressesInvariant == RecordsSpec => []AddressesInv
<1>1. RecordsInit => AddressesInv
  BY AddressesTypeInit DEF RecordsInit, AddressesInv, AddressesInit, AtMostOneDefault
<1>2. AddressesInv /\ [RecordsNext]_recordVars => AddressesInv'
  <2> SUFFICES ASSUME AddressesInv, [RecordsNext]_recordVars
               PROVE  AddressesInv'
    OBVIOUS
  <2>1. AddressesNext \/ UNCHANGED addressVars
    BY DEF RecordsNext, CheckoutRead, PlaceOrder, recordVars
  <2>2. CASE AddressesNext
    BY <2>2, AddressesTypeStep, OneDefaultStep DEF AddressesInv
  <2>3. CASE UNCHANGED addressVars
    BY <2>3, AddressesTypeStutter DEF AddressesInv, AtMostOneDefault, addressVars
  <2> QED
    BY <2>1, <2>2, <2>3
<1> QED
  BY <1>1, <1>2, PTL DEF RecordsSpec

(***************************************************************************)
(* No two saved addresses of a user are his default, however many edits    *)
(* and creations of his are under way at once (locations/services.py).     *)
(***************************************************************************)
THEOREM OneDefaultPerUser == RecordsSpec => []AtMostOneDefault
<1>1. AddressesInv => AtMostOneDefault
  BY DEF AddressesInv
<1> QED
  BY <1>1, AddressesInvariant, PTL

(***************************************************************************)
(* A user loses his default by deleting it, or to an edit whose view saw   *)
(* it as the default and whose service runs when it is not: in no other    *)
(* way, whatever else the users do (locations/services.py, views.py).      *)
(***************************************************************************)
THEOREM DefaultLost == RecordsSpec => DefaultLostOnlyAsNamed
<1> DEFINE Lost(u) == HasDefault(u) /\ ~HasDefault(u)'
           Named(u) == \/ \E a \in isDefault : OwnerOf[a] = u /\ row'[a] = "deleted"
                       \/ \E i \in settingDefault :
                            /\ OwnerOf[i.address] = u
                            /\ i.wasDefault /\ i.address \notin isDefault
<1>1. AddressesInv /\ [RecordsNext]_recordVars
        => [\A u \in Users : Lost(u) => Named(u)]_addressVars
  <2> SUFFICES ASSUME AddressesInv, [RecordsNext]_recordVars, addressVars' # addressVars,
                      NEW u \in Users, Lost(u)
               PROVE  Named(u)
    OBVIOUS
  <2>1. AddressesNext
    BY DEF RecordsNext, CheckoutRead, PlaceOrder, recordVars
  <2>2. PICK d \in isDefault : OwnerOf[d] = u
    BY DEF HasDefault
  <2>3. \A b \in isDefault' : OwnerOf[b] # u
    BY DEF HasDefault
  <2>4. ASSUME NEW a \in Addresses, NEW makeDefault \in BOOLEAN,
               CreateAddress(a, makeDefault)
        PROVE  FALSE
    BY <2>2, <2>3, <2>4 DEF CreateAddress, DefaultsAfter, ClearedExcept
  <2>5. ASSUME NEW a \in Addresses, EditRead(a)
        PROVE  FALSE
    BY <2>2, <2>3, <2>5 DEF EditRead
  <2>6. ASSUME NEW a \in Addresses, DeleteAddress(a)
        PROVE  Named(u)
    <3>1. d = a
      BY <2>2, <2>3, <2>6 DEF DeleteAddress
    <3>2. row'[a] = "deleted"
      BY <2>6 DEF DeleteAddress, AddressesInv, AddressesTypeOK
    <3> QED
      BY <2>2, <3>1, <3>2
  <2>7. ASSUME NEW i \in settingDefault, EditCommit(i)
        PROVE  Named(u)
    <3>1. isDefault' = DefaultsAfter(i)
      BY <2>7 DEF EditCommit
    <3>2. OwnerOf[i.address] = u
      BY <2>2, <2>3, <3>1 DEF DefaultsAfter, ClearedExcept
    <3>3. i.wasDefault /\ i.address \notin isDefault
      BY <2>3, <3>1, <3>2 DEF DefaultsAfter, ClearedExcept
    <3> QED
      BY <3>2, <3>3
  <2> QED
    BY <2>1, <2>4, <2>5, <2>6, <2>7 DEF AddressesNext
<1> QED
  BY <1>1, AddressesInvariant, PTL DEF RecordsSpec, DefaultLostOnlyAsNamed

-----------------------------------------------------------------------------
(***************************************************************************)
(* The catalogue.                                                          *)
(***************************************************************************)

\* An update saves the shop its instance was read with.  That is still the shop
\* of the product, listed or not, however long ago it was read: no product has
\* two, and the INSERT is only for one that had none.
ShopsReadAreTheirs ==
  /\ \A i \in renaming :
       /\ i.product \in Products /\ i.read \in Shops
       /\ soldBy[i.product] = i.read
  /\ \A i \in repricing :
       /\ i.product \in Products /\ i.shop \in Shops
       /\ soldBy[i.product] = i.shop

CatalogueInv ==
  /\ CatalogueTypeOK
  /\ ShopsReadAreTheirs
  /\ NamesUniqueInShop
  /\ CategoriesInUseStay

\* What the INSERT and the UPDATE of a product have in common: they write the
\* row of i into shop s, where it is or which is its first, as the constraints
\* of the table allow.
RowWritten(i, s) ==
  /\ soldBy[i.product] \in {s, NoShop}
  /\ ConstraintsAllow(i, s)
  /\ listed' = listed \cup {i.product}
  /\ soldBy' = [soldBy EXCEPT ![i.product] = s]
  /\ name' = [name EXCEPT ![i.product] = i.name]
  /\ category' = [category EXCEPT ![i.product] = i.category]
  /\ UNCHANGED <<approved, categoryRow>>
  /\ adding' \subseteq adding /\ renaming' \subseteq renaming
  /\ repricing' = repricing

LEMMA RowWrittenKeepsInv ==
  ASSUME CatalogueInv, NEW i \in Validated \cup Renaming, NEW s \in Shops,
         RowWritten(i, s)
  PROVE  CatalogueInv'
<1> USE DEF RowWritten
<1>1. i.product \in Products /\ i.name \in Names /\ i.category \in Categories
  BY DEF Validated, Renaming
<1>2. /\ soldBy \in [Products -> Shops \cup {NoShop}]
      /\ name \in [Products -> Names]
      /\ category \in [Products -> Categories]
      /\ listed \subseteq Products
      /\ \A p \in listed : soldBy[p] # NoShop
  BY DEF CatalogueInv, CatalogueTypeOK
<1>3. \A p \in Products : /\ soldBy'[p] = IF p = i.product THEN s ELSE soldBy[p]
                          /\ name'[p] = IF p = i.product THEN i.name ELSE name[p]
                          /\ category'[p] = IF p = i.product THEN i.category ELSE category[p]
  BY <1>1, <1>2
<1>4. listed' \subseteq Products /\ \A p \in listed' : p # i.product => p \in listed
  BY <1>1, <1>2
<1>5. CatalogueTypeOK'
  <2>1. \A p \in listed' : soldBy'[p] # NoShop
    BY <1>2, <1>3, <1>4, CatalogueAssumption
  <2>2. /\ soldBy' \in [Products -> Shops \cup {NoShop}]
        /\ name' \in [Products -> Names]
        /\ category' \in [Products -> Categories]
    BY <1>1, <1>2
  <2>3. /\ approved' \subseteq Shops
        /\ categoryRow' \in [Categories -> {"none", "saved", "deleted"}]
        /\ adding' \subseteq Validated /\ renaming' \subseteq Renaming
    BY DEF CatalogueInv, CatalogueTypeOK
  <2> QED
    BY <1>4, <2>1, <2>2, <2>3 DEF CatalogueTypeOK, Validated, Renaming
<1>6. NamesUniqueInShop'
  <2> SUFFICES ASSUME NEW p \in listed', NEW q \in listed',
                      soldBy'[p] = soldBy'[q], name'[p] = name'[q]
               PROVE  p = q
    BY DEF NamesUniqueInShop
  <2>1. \A r \in listed : r # i.product => ~(soldBy[r] = s /\ name[r] = i.name)
    BY DEF ConstraintsAllow, NameTaken
  <2>2. CASE p = i.product \/ q = i.product
    BY <1>2, <1>3, <1>4, <2>1, <2>2
  <2>3. CASE p # i.product /\ q # i.product
    BY <1>3, <1>4, <2>3 DEF CatalogueInv, NamesUniqueInShop
  <2> QED
    BY <2>2, <2>3
<1>7. CategoriesInUseStay'
  <2>1. categoryRow' = categoryRow /\ categoryRow[i.category] = "saved"
    BY DEF ConstraintsAllow
  <2> QED
    BY <1>3, <1>4, <2>1 DEF CatalogueInv, CategoriesInUseStay
<1>8. ShopsReadAreTheirs'
  <2>1. \A p \in Products : soldBy[p] \in Shops => soldBy'[p] = soldBy[p]
    BY <1>3, CatalogueAssumption
  <2> QED
    BY <2>1 DEF CatalogueInv, ShopsReadAreTheirs
<1> QED
  BY <1>5, <1>6, <1>7, <1>8 DEF CatalogueInv

\* The rest either leaves products alone or only takes one away.
LEMMA RowsKeptKeepsInv ==
  ASSUME CatalogueInv,
         listed' \subseteq listed, UNCHANGED <<soldBy, name, category>>,
         approved' \subseteq Shops,
         categoryRow' \in [Categories -> {"none", "saved", "deleted"}],
         adding' \subseteq Validated, renaming' \subseteq Renaming,
         ShopsReadAreTheirs',
         \A p \in listed' : categoryRow[category[p]] = "saved"
                              => categoryRow'[category[p]] = "saved"
  PROVE  CatalogueInv'
<1>1. CatalogueTypeOK'
  BY DEF CatalogueInv, CatalogueTypeOK, Validated, Renaming
<1>2. NamesUniqueInShop' /\ CategoriesInUseStay'
  BY DEF CatalogueInv, NamesUniqueInShop, CategoriesInUseStay
<1> QED
  BY <1>1, <1>2 DEF CatalogueInv

LEMMA CatalogueStepKeepsInv ==
  ASSUME CatalogueInv, CatalogueStep, UNCHANGED priceVars
  PROVE  CatalogueInv'
<1>1. /\ approved \subseteq Shops
      /\ categoryRow \in [Categories -> {"none", "saved", "deleted"}]
      /\ category \in [Products -> Categories] /\ listed \subseteq Products
      /\ adding \subseteq Validated /\ renaming \subseteq Renaming
  BY DEF CatalogueInv, CatalogueTypeOK
<1>2. repricing' = repricing
  BY DEF priceVars
<1>3. ASSUME UNCHANGED <<soldBy, renaming>>
      PROVE  ShopsReadAreTheirs'
  BY <1>2, <1>3 DEF CatalogueInv, ShopsReadAreTheirs
<1>4. ASSUME NEW i \in Validated, NEW role, AddCheck(i, role)
      PROVE  CatalogueInv'
  BY <1>1, <1>4, <1>3, RowsKeptKeepsInv DEF AddCheck
<1>5. ASSUME NEW i \in Validated, NEW role, RenameCheck(i, role)
      PROVE  CatalogueInv'
  <2> DEFINE read == [product |-> i.product, shop |-> i.shop, name |-> i.name,
                      category |-> i.category, read |-> soldBy[i.product]]
  <2>1. renaming' = renaming \cup {read} /\ i.product \in listed
    BY <1>5 DEF RenameCheck
  <2>2. i.product \in Products /\ soldBy[i.product] \in Shops
    BY <2>1 DEF CatalogueInv, CatalogueTypeOK, Validated
  <2>3. read \in Renaming
    BY <2>2 DEF Validated, Renaming
  <2>4. renaming' \subseteq Renaming
    BY <1>1, <2>1, <2>3
  <2>5. UNCHANGED soldBy
    BY <1>5 DEF RenameCheck
  <2>6. ShopsReadAreTheirs'
    BY <1>2, <2>1, <2>2, <2>5 DEF CatalogueInv, ShopsReadAreTheirs
  <2> QED
    BY <1>1, <1>5, <2>4, <2>6, RowsKeptKeepsInv DEF RenameCheck
<1>6. ASSUME NEW i \in renaming, RenameProduct(i)
      PROVE  CatalogueInv'
  <2>1. i \in Renaming
    BY <1>1
  <2>2. i.read \in Shops /\ soldBy[i.product] = i.read
    BY DEF CatalogueInv, ShopsReadAreTheirs
  <2>3. RowWritten(i, i.read)
    BY <1>6, <1>2, <2>2 DEF RenameProduct, RowWritten, ShopSaved
  <2> QED
    BY <2>1, <2>2, <2>3, RowWrittenKeepsInv
<1>7. ASSUME NEW c \in Categories, CreateCategory(c)
      PROVE  CatalogueInv'
  <2>1. categoryRow' = [categoryRow EXCEPT ![c] = "saved"]
    BY <1>7 DEF CreateCategory
  <2>2. /\ categoryRow' \in [Categories -> {"none", "saved", "deleted"}]
        /\ \A k \in Categories : categoryRow[k] = "saved" => categoryRow'[k] = "saved"
    BY <1>1, <2>1
  <2> QED
    BY <1>1, <1>7, <1>3, <2>2, RowsKeptKeepsInv DEF CreateCategory
<1>8. ASSUME NEW c \in Categories, DeleteCategory(c)
      PROVE  CatalogueInv'
  <2>1. /\ categoryRow' = [categoryRow EXCEPT ![c] = "deleted"]
        /\ \A p \in listed : category[p] # c
    BY <1>8 DEF DeleteCategory
  <2>2. /\ categoryRow' \in [Categories -> {"none", "saved", "deleted"}]
        /\ \A k \in Categories \ {c} : categoryRow'[k] = categoryRow[k]
    BY <1>1, <2>1
  <2>3. \A p \in listed : category[p] \in Categories \ {c}
    BY <1>1, <2>1
  <2> QED
    BY <1>1, <1>8, <1>3, <2>2, <2>3, RowsKeptKeepsInv DEF DeleteCategory
<1>9. ASSUME NEW s \in Shops, Moderate(s)
      PROVE  CatalogueInv'
  BY <1>1, <1>9, <1>3, RowsKeptKeepsInv DEF Moderate
<1> QED
  BY <1>4, <1>5, <1>6, <1>7, <1>8, <1>9 DEF CatalogueStep

\* A price edit saves the shop it has read, too.
LEMMA RepriceKeepsRows ==
  ASSUME CatalogueInv,
         NEW i \in repricing, NEW priceSent, NEW discountSent, NEW newPrice,
         NEW newDiscount, RepriceWrite(i, priceSent, discountSent, newPrice, newDiscount)
  PROVE  UNCHANGED catalogueVars /\ repricing' \subseteq repricing
<1>1. soldBy \in [Products -> Shops \cup {NoShop}]
  BY DEF CatalogueInv, CatalogueTypeOK
<1>2. i.product \in Products /\ soldBy[i.product] = i.shop
  BY DEF CatalogueInv, ShopsReadAreTheirs
<1>3. soldBy' = soldBy
  BY <1>1, <1>2 DEF RepriceWrite
<1> QED
  BY <1>3 DEF RepriceWrite, catalogueVars

LEMMA CatalogueInvariant == RecordsSpec => []CatalogueInv
<1>1. RecordsInit => CatalogueInv
  BY DEF RecordsInit, ListingsInit, CatalogueInit, CatalogueInv, CatalogueTypeOK,
         ShopsReadAreTheirs, NamesUniqueInShop, CategoriesInUseStay
<1>2. CatalogueInv /\ [RecordsNext]_recordVars => CatalogueInv'
  <2> SUFFICES ASSUME CatalogueInv, [RecordsNext]_recordVars
               PROVE  CatalogueInv'
    OBVIOUS
  <2>1. ASSUME UNCHANGED catalogueVars, repricing' \subseteq repricing
        PROVE  CatalogueInv'
    BY <2>1 DEF CatalogueInv, CatalogueTypeOK, ShopsReadAreTheirs, NamesUniqueInShop,
                CategoriesInUseStay, catalogueVars
  <2>2. CASE CatalogueStep /\ UNCHANGED priceVars
    BY <2>2, CatalogueStepKeepsInv
  <2>3. ASSUME NEW p \in Products, DelistProduct(p), UNCHANGED priceVars
        PROVE  CatalogueInv'
    <3>1. ShopsReadAreTheirs'
      BY <2>3 DEF DelistProduct, priceVars, CatalogueInv, ShopsReadAreTheirs
    <3> QED
      BY <2>3, <3>1, RowsKeptKeepsInv DEF DelistProduct, CatalogueInv, CatalogueTypeOK
  <2>4. ASSUME NEW i \in adding, AddProduct(i), UNCHANGED repricing
        PROVE  CatalogueInv'
    <3>1. i \in Validated /\ i.shop \in Shops
      BY DEF CatalogueInv, CatalogueTypeOK, Validated
    <3>2. RowWritten(i, i.shop)
      BY <2>4 DEF AddProduct, RowWritten
    <3> QED
      BY <3>1, <3>2, RowWrittenKeepsInv
  <2>5. ASSUME NEW p \in Products, NEW role, RepriceRead(p, role)
        PROVE  CatalogueInv'
    <3>1. /\ p \in listed /\ UNCHANGED catalogueVars
          /\ repricing' = repricing \cup
               {[product |-> p, shop |-> soldBy[p],
                 price |-> price[p], discountPrice |-> discountPrice[p]]}
      BY <2>5 DEF RepriceRead
    <3>2. soldBy[p] \in Shops
      BY <3>1 DEF CatalogueInv, CatalogueTypeOK
    <3>3. ShopsReadAreTheirs'
      BY <3>1, <3>2 DEF catalogueVars, CatalogueInv, ShopsReadAreTheirs
    <3> QED
      BY <3>1, <3>3 DEF CatalogueInv, CatalogueTypeOK, NamesUniqueInShop,
                        CategoriesInUseStay, catalogueVars
  <2>6. ASSUME NEW i \in repricing, NEW priceSent \in BOOLEAN, NEW discountSent \in BOOLEAN,
               NEW newPrice \in 1..MaxPrice, NEW newDiscount \in 0..MaxPrice,
               RepriceWrite(i, priceSent, discountSent, newPrice, newDiscount)
        PROVE  CatalogueInv'
    <3>1. UNCHANGED catalogueVars /\ repricing' \subseteq repricing
      BY <2>6, RepriceKeepsRows
    <3> QED
      BY <2>1, <3>1
  <2> QED
    BY <2>1, <2>2, <2>3, <2>4, <2>5, <2>6
    DEF RecordsNext, ListingsNext, CreateProduct,
        CheckoutRead, PlaceOrder, recordVars, listingVars, priceVars
<1> QED
  BY <1>1, <1>2, PTL DEF RecordsSpec

(***************************************************************************)
(* No shop comes to have two products of one name and unit: the unique     *)
(* constraint decides at each write, against the shop the row is in        *)
(* (products/models.py).                                                   *)
(***************************************************************************)
THEOREM OneProductPerName == RecordsSpec => []NamesUniqueInShop
<1>1. CatalogueInv => NamesUniqueInShop
  BY DEF CatalogueInv
<1> QED
  BY <1>1, CatalogueInvariant, PTL

(***************************************************************************)
(* A product's category is there as long as the product is: the foreign    *)
(* key is tested on the write, PROTECT on the deletion (products/models.py)*)
(***************************************************************************)
THEOREM CategoryOfProductStays == RecordsSpec => []CategoriesInUseStay
<1>1. CatalogueInv => CategoriesInUseStay
  BY DEF CatalogueInv
<1> QED
  BY <1>1, CatalogueInvariant, PTL

(***************************************************************************)
(* No request moves a product to another shop, whatever shop it names:     *)
(* what an edit has read of the shop may be old when it saves it, but not  *)
(* out of date (products/views.py, update; ShopsReadAreTheirs).            *)
(***************************************************************************)
THEOREM ProductsStay == RecordsSpec => ProductsStayInTheirShop
<1> DEFINE Stay == \A p \in Products : soldBy[p] # NoShop => soldBy'[p] = soldBy[p]
<1>1. CatalogueInv /\ [RecordsNext]_recordVars => [Stay]_catalogueVars
  <2> SUFFICES ASSUME CatalogueInv, [RecordsNext]_recordVars, catalogueVars' # catalogueVars
               PROVE  Stay
    OBVIOUS
  <2>1. soldBy \in [Products -> Shops \cup {NoShop}]
    BY DEF CatalogueInv, CatalogueTypeOK
  <2>2. ASSUME NEW i \in adding, AddProduct(i)
        PROVE  Stay
    BY <2>1, <2>2 DEF AddProduct
  <2>3. ASSUME NEW i \in renaming, RenameProduct(i)
        PROVE  Stay
    <3>1. i.product \in Products /\ soldBy[i.product] = i.read
      BY DEF CatalogueInv, ShopsReadAreTheirs
    <3> QED
      BY <2>1, <2>3, <3>1 DEF RenameProduct, ShopSaved
  <2>4. CASE UNCHANGED soldBy
    BY <2>4
  <2>5. ASSUME NEW i \in repricing, NEW priceSent \in BOOLEAN, NEW discountSent \in BOOLEAN,
               NEW newPrice \in 1..MaxPrice, NEW newDiscount \in 0..MaxPrice,
               RepriceWrite(i, priceSent, discountSent, newPrice, newDiscount)
        PROVE  UNCHANGED soldBy
    BY <2>5, RepriceKeepsRows DEF catalogueVars
  <2> QED
    BY <2>2, <2>3, <2>4, <2>5
    DEF RecordsNext, ListingsNext, CreateProduct, CatalogueStep, AddCheck, RenameCheck,
        CreateCategory, DeleteCategory, Moderate, DelistProduct, RepriceRead,
        CheckoutRead, PlaceOrder, recordVars, listingVars, catalogueVars
<1> QED
  BY <1>1, CatalogueInvariant, PTL DEF RecordsSpec, ProductsStayInTheirShop

-----------------------------------------------------------------------------
(***************************************************************************)
(* Sums of natural numbers over finitely many places, as Calculate makes   *)
(* them: each is a natural number, at least as large as each of its terms, *)
(* and grows with its terms.                                               *)
(***************************************************************************)
LEMMA SumFacts ==
  ASSUME NEW S, IsFiniteSet(S), NEW bound \in Nat, NEW f \in [S -> 0..bound]
  PROVE  /\ IsFiniteSet(Coins(f))
         /\ Sum(f) \in Nat
         /\ \A p \in S : f[p] # 0 => Sum(f) # 0
<1>1. Coins(f) \subseteq S \X (1..bound)
  BY DEF Coins
<1>2. IsFiniteSet(S \X (1..bound))
  <2>1. IsFiniteSet(1..bound)
    BY FS_Interval
  <2> QED
    BY <2>1, FS_Product
<1>3. IsFiniteSet(Coins(f))
  BY <1>1, <1>2, FS_Subset
<1>4. Sum(f) \in Nat
  BY <1>3, FS_CardinalityType DEF Sum
<1>5. ASSUME NEW p \in S, f[p] # 0
      PROVE  Sum(f) # 0
  <2>1. <<p, 1>> \in Coins(f)
    BY <1>5 DEF Coins
  <2> QED
    BY <1>3, <2>1, FS_EmptySet DEF Sum
<1> QED
  BY <1>3, <1>4, <1>5

LEMMA SumMonotone ==
  ASSUME NEW S, IsFiniteSet(S), NEW bound \in Nat,
         NEW f \in [S -> 0..bound], NEW g \in [S -> 0..bound],
         \A p \in S : f[p] <= g[p]
  PROVE  Sum(f) <= Sum(g)
<1>1. Coins(f) \subseteq Coins(g)
  BY DEF Coins
<1>2. IsFiniteSet(Coins(g))
  BY SumFacts
<1> QED
  BY <1>1, <1>2, FS_Subset DEF Sum

LEMMA ProductBound ==
  ASSUME NEW A \in Nat, NEW B \in Nat, NEW a \in 0..A, NEW b \in 0..B
  PROVE  a * b \in 0..(A * B)
<1>1. a * b <= A * b
  OBVIOUS
<1>2. A * b <= A * B
  OBVIOUS
<1>3. a * b \in Nat
  OBVIOUS
<1> QED
  BY <1>1, <1>2, <1>3

-----------------------------------------------------------------------------
(***************************************************************************)
(* What an order records.                                                  *)
(***************************************************************************)
UnitPrices == [Products -> 0..MaxPrice]
Quantities == [Products -> 0..MaxQuantity]

Cost(unitPrice, quantity) == [p \in Products |-> unitPrice[p] * quantity[p]]

LEMMA CostFacts ==
  ASSUME NEW unitPrice \in UnitPrices, NEW quantity \in Quantities
  PROVE  Cost(unitPrice, quantity) \in [Products -> 0..(MaxPrice * MaxQuantity)]
<1>1. MaxPrice \in Nat /\ MaxQuantity \in Nat
  BY AmountsAssumption, MaxQuantityAssumption
<1>2. ASSUME NEW p \in Products
      PROVE  unitPrice[p] * quantity[p] \in 0..(MaxPrice * MaxQuantity)
  BY <1>1, ProductBound DEF UnitPrices, Quantities
<1> QED
  BY <1>2 DEF Cost

LEMMA BoundIsNat == MaxPrice * MaxQuantity \in Nat
BY AmountsAssumption, MaxQuantityAssumption

\* What calculate returns: the sum of the lines, and a fee below the threshold.
LEMMA BillFacts ==
  ASSUME NEW unitPrice \in UnitPrices, NEW quantity \in Quantities
  PROVE  LET bill == Calculate(unitPrice, quantity)
         IN  /\ bill.subtotal = Sum(Cost(unitPrice, quantity))
             /\ bill.subtotal \in Nat
             /\ bill.total = bill.subtotal
                  + (IF bill.subtotal < FREE_DELIVERY_ABOVE THEN DeliveryFee ELSE 0)
<1> DEFINE bill == Calculate(unitPrice, quantity)
<1>1. bill.subtotal = Sum(Cost(unitPrice, quantity))
  BY DEF Calculate, Cost
<1>2. bill.subtotal \in Nat
  BY <1>1, CostFacts, SumFacts, ProductsFinite, BoundIsNat
<1>3. bill.total = bill.subtotal
        + (IF bill.subtotal >= FREE_DELIVERY_ABOVE THEN 0 ELSE DeliveryFee)
  BY DEF Calculate
<1> QED
  BY <1>1, <1>2, <1>3, AmountsAssumption

\* Nobody pays more for a unit than its price, nor nothing at all.
LEMMA EffectivePriceFacts ==
  ASSUME ListingsTypeOK, NEW p \in Products
  PROVE  EffectivePrice(p) \in 1..price[p] /\ price[p] \in 1..MaxPrice
BY AmountsAssumption DEF ListingsTypeOK, EffectivePrice

LEMMA PriceTypesStep ==
  ASSUME ListingsTypeOK, CatalogueTypeOK', ListingsNext \/ UNCHANGED priceVars
  PROVE  ListingsTypeOK'
<1> SUFFICES /\ price' \in [Products -> 1..MaxPrice]
             /\ discountPrice' \in [Products -> 0..MaxPrice]
             /\ repricing' \subseteq ListingInstance
  BY DEF ListingsTypeOK, ListingInstance
<1>1. /\ price \in [Products -> 1..MaxPrice]
      /\ discountPrice \in [Products -> 0..MaxPrice]
      /\ repricing \subseteq ListingInstance
  BY DEF ListingsTypeOK
<1>2. CASE UNCHANGED priceVars
  BY <1>1, <1>2 DEF priceVars
<1>3. ASSUME NEW i \in adding, NEW newPrice \in 1..MaxPrice,
             NEW newDiscount \in 0..MaxPrice, CreateProduct(i, newPrice, newDiscount)
      PROVE  /\ price' \in [Products -> 1..MaxPrice]
             /\ discountPrice' \in [Products -> 0..MaxPrice]
             /\ repricing' \subseteq ListingInstance
  BY <1>1, <1>3 DEF CreateProduct
<1>4. ASSUME NEW p \in Products, NEW role, RepriceRead(p, role)
      PROVE  /\ price' \in [Products -> 1..MaxPrice]
             /\ discountPrice' \in [Products -> 0..MaxPrice]
             /\ repricing' \subseteq ListingInstance
  <2>1. soldBy[p] \in Shops
    BY <1>4 DEF RepriceRead, ListingsTypeOK, CatalogueTypeOK
  <2> QED
    BY <1>1, <1>4, <2>1 DEF RepriceRead, ListingInstance
<1>5. ASSUME NEW i \in repricing, NEW priceSent, NEW discountSent,
             NEW newPrice \in 1..MaxPrice, NEW newDiscount \in 0..MaxPrice,
             RepriceWrite(i, priceSent, discountSent, newPrice, newDiscount)
      PROVE  /\ price' \in [Products -> 1..MaxPrice]
             /\ discountPrice' \in [Products -> 0..MaxPrice]
             /\ repricing' \subseteq ListingInstance
  BY <1>1, <1>5 DEF RepriceWrite
<1> QED
  BY <1>2, <1>3, <1>4, <1>5 DEF ListingsNext

\* The columns of an order are those of its basket at the prices of the moment.
LEMMA PlaceOrderWrites ==
  ASSUME ListingsTypeOK, NEW r \in placing, NEW basket \in Baskets, PlaceOrder(r, basket)
  PROVE  LET charged == Sum(Cost([p \in Products |-> EffectivePrice(p)], basket))
             fee == IF charged < FREE_DELIVERY_ABOVE THEN DeliveryFee ELSE 0
         IN  /\ charged \in Nat \ {0}
             /\ record' = [record EXCEPT ![r.order] =
                  [customer |-> r.customer, address |-> r.address, quantity |-> basket,
                   subtotal |-> charged, total |-> charged + fee]]
<1> DEFINE unitPrice == [p \in Products |-> EffectivePrice(p)]
           charged == Sum(Cost(unitPrice, basket))
<1>1. unitPrice \in UnitPrices /\ \A p \in Products : unitPrice[p] \in Nat \ {0}
  BY EffectivePriceFacts, AmountsAssumption DEF UnitPrices
<1>2. basket \in Quantities
  BY MaxQuantityAssumption DEF Baskets, Quantities
<1>3. PICK p \in Products : basket[p] # 0
  BY <1>2 DEF Baskets, Quantities
<1>4. Cost(unitPrice, basket)[p] # 0
  <2>1. unitPrice[p] \in Nat \ {0} /\ basket[p] \in Nat \ {0}
    BY <1>1, <1>2, <1>3 DEF Quantities
  <2>2. unitPrice[p] * basket[p] # 0
    BY <2>1
  <2> QED
    BY <2>2 DEF Cost
<1>5. charged \in Nat \ {0}
  BY <1>1, <1>2, <1>4, CostFacts, SumFacts, ProductsFinite, BoundIsNat
<1> QED
  BY <1>1, <1>2, <1>5, BillFacts DEF PlaceOrder

\* The types, and that record is a function on the orders.
RecordsInv ==
  /\ RecordsTypeOK
  /\ DOMAIN record = Orders /\ record = [o \in Orders |-> record[o]]

LEMMA RecordsInvariant == RecordsSpec => []RecordsInv
<1>1. RecordsInit => RecordsInv
  BY AddressesTypeInit, AmountsAssumption
  DEF RecordsInit, ListingsInit, CatalogueInit, RecordsInv, RecordsTypeOK, ListingsTypeOK,
      CatalogueTypeOK
<1>2. RecordsInv /\ (AddressesInv /\ CatalogueInv)' /\ [RecordsNext]_recordVars
        => RecordsInv'
  <2> SUFFICES ASSUME RecordsInv, (AddressesInv /\ CatalogueInv)', [RecordsNext]_recordVars
               PROVE  RecordsInv'
    OBVIOUS
  <2>1. AddressesTypeOK' /\ ListingsTypeOK'
    <3>1. ListingsNext \/ UNCHANGED priceVars
      BY DEF RecordsNext, CheckoutRead, PlaceOrder, recordVars, listingVars
    <3>2. ListingsTypeOK
      BY DEF RecordsInv, RecordsTypeOK
    <3> QED
      BY <3>1, <3>2, PriceTypesStep DEF AddressesInv, CatalogueInv
  <2>2. CASE UNCHANGED <<placing, record>>
    BY <2>1, <2>2 DEF RecordsInv, RecordsTypeOK
  <2>3. ASSUME NEW o \in Orders, NEW u \in Users, NEW a \in Addresses, CheckoutRead(o, u, a)
        PROVE  RecordsInv'
    BY <2>1, <2>3 DEF RecordsInv, RecordsTypeOK, CheckoutRead
  <2>4. ASSUME NEW r \in placing, NEW basket \in Baskets, PlaceOrder(r, basket)
        PROVE  RecordsInv'
    <3>1. PICK charged \in Nat \ {0}, fee \in Nat :
            record' = [record EXCEPT ![r.order] =
                  [customer |-> r.customer, address |-> r.address, quantity |-> basket,
                   subtotal |-> charged, total |-> charged + fee]]
      <4> DEFINE charge == Sum(Cost([p \in Products |-> EffectivePrice(p)], basket))
                 fee == IF charge < FREE_DELIVERY_ABOVE THEN DeliveryFee ELSE 0
      <4>1. ListingsTypeOK
        BY DEF RecordsInv, RecordsTypeOK
      <4>2. /\ charge \in Nat \ {0}
            /\ record' = [record EXCEPT ![r.order] =
                  [customer |-> r.customer, address |-> r.address, quantity |-> basket,
                   subtotal |-> charge, total |-> charge + fee]]
        BY <2>4, <4>1, PlaceOrderWrites
      <4>3. fee \in Nat
        BY AmountsAssumption
      <4> QED
        BY <4>2, <4>3
    <3>2. r.order \in Orders /\ r.customer \in Users /\ r.address \in Addresses
      BY DEF RecordsInv, RecordsTypeOK
    <3>3. placing' \subseteq placing
      BY <2>4 DEF PlaceOrder
    <3>4. \A o \in Orders \ {r.order} : record'[o] = record[o]
      BY <3>1 DEF RecordsInv
    <3>5. /\ record'[r.order].customer \in Users /\ record'[r.order].address \in Addresses
          /\ record'[r.order].quantity \in Baskets
          /\ record'[r.order].total \in Nat \ {0}
          /\ record'[r.order].subtotal \in 1..record'[r.order].total
      BY <3>1, <3>2 DEF RecordsInv
    <3>6. DOMAIN record' = Orders /\ record' = [o \in Orders |-> record'[o]]
      BY <3>1 DEF RecordsInv
    <3> QED
      BY <2>1, <3>3, <3>4, <3>5, <3>6 DEF RecordsInv, RecordsTypeOK
  <2> QED
    BY <2>2, <2>3, <2>4 DEF RecordsNext, recordVars
<1> QED
  BY <1>1, <1>2, AddressesInvariant, CatalogueInvariant, PTL DEF RecordsSpec

(***************************************************************************)
(* Every row has the types of its columns; of an order it says that it     *)
(* costs something, and no less in all than its goods (orders/models.py).  *)
(***************************************************************************)
THEOREM RecordsTypeCorrect == RecordsSpec => []RecordsTypeOK
<1>1. RecordsInv => RecordsTypeOK
  BY DEF RecordsInv
<1> QED
  BY <1>1, RecordsInvariant, PTL

(***************************************************************************)
(* Nobody is charged more for the goods than their list prices at the      *)
(* moment of place_order, nor more than one delivery fee, which ends at    *)
(* FREE_DELIVERY_ABOVE, for baskets of any size and however price and      *)
(* discount edits cross (carts/pricing.py, products/models.py).            *)
(***************************************************************************)
THEOREM ChargedFairly == RecordsSpec => NeverDearerThanListed
<1> DEFINE Listed(o) == Sum([p \in Products |-> price[p] * record'[o].quantity[p]])
           Fee(o) == record'[o].total - record'[o].subtotal
           Fair == \A o \in Orders : record[o] = NoRecord /\ record'[o] # NoRecord =>
                     /\ record'[o].subtotal <= Listed(o)
                     /\ Fee(o) <= (IF record'[o].subtotal < FREE_DELIVERY_ABOVE
                                     THEN DeliveryFee ELSE 0)
<1>1. RecordsInv /\ [RecordsNext]_recordVars => [Fair]_recordVars
  <2> SUFFICES ASSUME RecordsInv, RecordsNext, NEW o \in Orders,
                      record[o] = NoRecord, record'[o] # NoRecord
               PROVE  /\ record'[o].subtotal <= Listed(o)
                      /\ Fee(o) <= (IF record'[o].subtotal < FREE_DELIVERY_ABOVE
                                      THEN DeliveryFee ELSE 0)
    OBVIOUS
  <2>1. PICK r \in placing, basket \in Baskets : PlaceOrder(r, basket)
    BY DEF RecordsNext, CheckoutRead
  <2> DEFINE unitPrice == [p \in Products |-> EffectivePrice(p)]
             charge == Sum(Cost(unitPrice, basket))
             fee == IF charge < FREE_DELIVERY_ABOVE THEN DeliveryFee ELSE 0
  <2>2. ListingsTypeOK
    BY DEF RecordsInv, RecordsTypeOK
  <2>3. /\ charge \in Nat
        /\ record' = [record EXCEPT ![r.order] =
             [customer |-> r.customer, address |-> r.address, quantity |-> basket,
              subtotal |-> charge, total |-> charge + fee]]
    BY <2>1, <2>2, PlaceOrderWrites
  <2>4. o = r.order
    BY <2>3 DEF RecordsInv
  <2>5. /\ record'[o].quantity = basket /\ record'[o].subtotal = charge
        /\ record'[o].total = charge + fee
    BY <2>3, <2>4 DEF RecordsInv
  <2>6. charge <= Sum(Cost(price, basket))
    <3>1. /\ unitPrice \in UnitPrices /\ price \in UnitPrices /\ basket \in Quantities
          /\ \A p \in Products : unitPrice[p] <= price[p]
      BY <2>2, EffectivePriceFacts, AmountsAssumption
      DEF UnitPrices, Quantities, Baskets, ListingsTypeOK
    <3>2. ASSUME NEW p \in Products
          PROVE  Cost(unitPrice, basket)[p] <= Cost(price, basket)[p]
      <4>1. /\ unitPrice[p] \in Nat /\ price[p] \in Nat /\ basket[p] \in Nat
            /\ unitPrice[p] <= price[p]
        BY <3>1, AmountsAssumption, MaxQuantityAssumption DEF UnitPrices, Quantities
      <4>2. unitPrice[p] * basket[p] <= price[p] * basket[p]
        BY <4>1
      <4> QED
        BY <4>2 DEF Cost
    <3> HIDE DEF unitPrice
    <3> QED
      BY <3>1, <3>2, CostFacts, SumMonotone, ProductsFinite, BoundIsNat
  <2>7. Listed(o) = Sum(Cost(price, basket))
    BY <2>5 DEF Cost
  <2>8. Fee(o) = fee
    <3>1. fee \in Nat
      BY AmountsAssumption
    <3> HIDE DEF fee, charge
    <3> QED
      BY <2>3, <2>5, <3>1
  <2>9. fee <= fee
    BY AmountsAssumption
  <2> QED
    BY <2>5, <2>6, <2>7, <2>8, <2>9
<1> QED
  BY <1>1, RecordsInvariant, PTL DEF RecordsSpec, NeverDearerThanListed

==============================================================================
