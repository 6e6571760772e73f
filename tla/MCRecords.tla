------------------------------ MODULE MCRecords ------------------------------
\* Two users, one with three addresses, two products of two shops, one order.
EXTENDS OrderRecords, TLC, FiniteSetsExt

CONSTANTS a1, a2, a3, b1, u1, u2

MCOwnerOf == (a1 :> u1) @@ (a2 :> u1) @@ (a3 :> u1) @@ (b1 :> u2)

ASSUME SumIsTheFold ==
  \A f \in [Products -> 0..4] : Sum(f) = MapThenSumSet(LAMBDA p : f[p], Products)

\* Shops differ in nothing, nor do names; they are the same users' whatever
\* they are called.
MCSymmetry == Permutations(Shops) \cup Permutations(Names)

FewRequests ==
  /\ Cardinality(settingDefault) <= 2 /\ Cardinality(repricing) <= 2
  /\ Cardinality(adding) + Cardinality(renaming) <= 2

NoAddressEdits == settingDefault = {} /\ \A a \in Addresses \ {a1} : row[a] = "none"

NoPriceEdits ==
  repricing = {} /\ \A p \in Products : price[p] = MaxPrice /\ discountPrice[p] = 0

NoOrder == placing = {} /\ \A o \in Orders : record[o] = NoRecord

Known == {p \in Products : soldBy[p] # NoShop} \cup {i.product : i \in adding}

\* The one product that there must be to be priced and sold.
NoCatalogueEdits ==
  /\ approved = {} /\ renaming = {} /\ Cardinality(Known) <= 1
  /\ \A c \in Categories : categoryRow[c] # "deleted"

\* Addresses, prices and names share no column, so it is enough to look at the
\* edits of one kind at a time, and at no more than two requests of a kind.
OneKindOfEdits ==
  /\ FewRequests
  /\ \/ NoPriceEdits /\ NoCatalogueEdits /\ Known = {}
     \/ NoAddressEdits /\ NoCatalogueEdits
     \/ NoAddressEdits /\ NoPriceEdits /\ NoOrder /\ ~(\E a \in Addresses : row[a] # "none")
==============================================================================
