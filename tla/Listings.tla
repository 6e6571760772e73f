------------------------------- MODULE Listings ------------------------------
(***************************************************************************)
(* What a product costs, on top of the rows of Catalogue, and what a       *)
(* basket comes to.  Amounts are counted in the smallest coin, which is    *)
(* what money() rounds to.  A discount price of 0 stands for a             *)
(* discount_price of null or of zero: the code tests it for truth and so   *)
(* takes the two for the same.                                             *)
(***************************************************************************)
EXTENDS Catalogue, Naturals, FiniteSets

CONSTANTS
  MaxPrice,             \* bound on the amounts somebody types
  DeliveryFee,          \* Shop.delivery_fee
  FREE_DELIVERY_ABOVE

ASSUME AmountsAssumption ==
  /\ MaxPrice \in Nat \ {0}
  /\ DeliveryFee \in Nat /\ FREE_DELIVERY_ABOVE \in Nat

\* There are finitely many products at a time.
ASSUME ProductsFinite == IsFiniteSet(Products)

VARIABLES
  price,            \* Product.price
  discountPrice,    \* Product.discount_price
  repricing         \* PUT and PATCH requests that have read their product

priceVars == <<price, discountPrice, repricing>>
listingVars == <<catalogueVars, priceVars>>

ListingInstance ==
  [product : Products, shop : Shops, price : 1..MaxPrice, discountPrice : 0..MaxPrice]

ListingsTypeOK ==
  /\ CatalogueTypeOK
  /\ price \in [Products -> 1..MaxPrice]
  /\ discountPrice \in [Products -> 0..MaxPrice]
  /\ repricing \subseteq ListingInstance

ListingsInit ==
  /\ CatalogueInit
  /\ price = [p \in Products |-> MaxPrice]
  /\ discountPrice = [p \in Products |-> 0]
  /\ repricing = {}

-----------------------------------------------------------------------------
\* The INSERT of POST /api/products/manage/, with prices the serializer let in.
CreateProduct(i, newPrice, newDiscount) ==
  /\ AddProduct(i)
  /\ newDiscount < newPrice
  /\ price' = [price EXCEPT ![i.product] = newPrice]
  /\ discountPrice' = [discountPrice EXCEPT ![i.product] = newDiscount]
  /\ UNCHANGED repricing

\* PUT or PATCH /api/products/manage/<id>/ of price or discount: get_object and
\* the shop ...
RepriceRead(p, role) ==
  /\ p \in listed
  /\ Resolves(soldBy[p], role)
  /\ repricing' = repricing \cup
       {[product |-> p, shop |-> soldBy[p],
         price |-> price[p], discountPrice |-> discountPrice[p]]}
  /\ UNCHANGED <<catalogueVars, price, discountPrice>>

\* ... validate fills in what the request leaves out from the instance it has,
\* and ProductRepository.update saves the fields of the request and the shop of
\* the instance.  Another request that has read the same may still be there.
RepriceWrite(i, priceSent, discountSent, newPrice, newDiscount) ==
  LET checkedPrice == IF priceSent THEN newPrice ELSE i.price
      checkedDiscount == IF discountSent THEN newDiscount ELSE i.discountPrice
  IN  /\ i \in repricing
      /\ i.product \in listed
      /\ checkedDiscount < checkedPrice
      /\ price' = IF priceSent THEN [price EXCEPT ![i.product] = newPrice] ELSE price
      /\ discountPrice' =
           IF discountSent THEN [discountPrice EXCEPT ![i.product] = newDiscount]
                           ELSE discountPrice
      /\ soldBy' = [soldBy EXCEPT ![i.product] = i.shop]
      /\ repricing' \in {repricing \ {i}, repricing}
      /\ UNCHANGED <<approved, categoryRow, listed, name, category, adding, renaming>>

ListingsNext ==
  \/ (CatalogueStep \/ \E p \in Products : DelistProduct(p)) /\ UNCHANGED priceVars
  \/ \E i \in adding, newPrice \in 1..MaxPrice, newDiscount \in 0..MaxPrice :
       CreateProduct(i, newPrice, newDiscount)
  \/ \E p \in Products, role \in {"SHOPKEEPER", "ADMIN"} : RepriceRead(p, role)
  \/ \E i \in repricing, priceSent, discountSent \in BOOLEAN,
        newPrice \in 1..MaxPrice, newDiscount \in 0..MaxPrice :
       RepriceWrite(i, priceSent, discountSent, newPrice, newDiscount)

-----------------------------------------------------------------------------
\* Seeded fault: EffectivePrice trusting the serializer to have kept the
\* discount below the price.  It breaks NeverDearerThanListed (OrderRecords).
EffectivePriceTrusting(p) ==
  IF discountPrice[p] # 0 THEN discountPrice[p] ELSE price[p]

\* Product.effective_price: a discount that two crossing edits have left above
\* the price is no discount.
EffectivePrice(p) ==
  IF discountPrice[p] # 0 /\ discountPrice[p] < price[p]
    THEN discountPrice[p] ELSE price[p]

\* A sum of natural numbers is a number of coins.  (Said without a fold, so that
\* RecordsProofs can compare two sums; MCRecords has TLC compare it with one.)
Coins(f) == UNION {{p} \X (1..f[p]) : p \in DOMAIN f}

Sum(f) == Cardinality(Coins(f))

\* carts/pricing.py: calculate, for the lines of a cart with a shop.
Calculate(unitPrice, quantity) ==
  LET subtotal == Sum([p \in Products |-> unitPrice[p] * quantity[p]])
      fee == IF subtotal >= FREE_DELIVERY_ABOVE THEN 0 ELSE DeliveryFee
  IN  [subtotal |-> subtotal, delivery_fee |-> fee, total |-> subtotal + fee]

==============================================================================
