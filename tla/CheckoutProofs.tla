--------------------------- MODULE CheckoutProofs ---------------------------
(***************************************************************************)
(* Proofs about Checkout, for any number of orders, products and readers.  *)
(***************************************************************************)
EXTENDS Checkout, TLAPS

\* An order exists only complete and only after its request computed its items.
Sold ==
  \A o \in Order :
    /\ status[o] # Absent => step[o] = "done" /\ items[o] = sale[o] /\ sale[o] # {}
    /\ step[o] \in {"priced", "inserting"} => sale[o] # {}
    /\ step[o] \in {"unsent", "arrived"} => staged[o] = {}

\* A request may be quoted the catalogue as it is.
OfferNoted ==
  /\ offers = [o \in Order |-> offers[o]]
  /\ \A o \in Order : step[o] = "arrived" => Offer(price, inactive) \in offers[o]

\* What a reader found exists and is his to read.
FoundOwn ==
  \A r \in Reader :
    /\ read[r].rows \subseteq OrdersFor(read[r].user)
    /\ \A t \in read[r].told : status[t.order] # Absent

\* Between its statements, a report is wrong about moved orders only.
CountedOrMoved ==
  \A r \in Reader :
    /\ \A o \in report[r].counted \cup report[r].moved : status[o] # Absent
    /\ report[r].step = "counted" =>
         \A o \in Order \ report[r].moved : o \in report[r].counted <=> status[o] \in Earning

IInv ==
  /\ TypeOK /\ Sold /\ OfferNoted /\ QuotedTogether
  /\ FoundOwn /\ ToldTheSale /\ CountedOrMoved /\ ReportAgrees

-----------------------------------------------------------------------------
\* The steps one by one: what is to be shown of every step is shown of each.
Acts ==
  \/ \E list \in PriceLists : StartSeed(list)
  \/ UpsertProduct
  \/ SeedFails
  \/ \E p \in Product : Deactivate(p)
  \/ \E o \in Order : Arrive(o)
  \/ \E o \in Order : AskPrices(o)
  \/ \E o \in Order : InsertOrder(o)
  \/ \E o \in Order : InsertItem(o)
  \/ \E o \in Order : Commit(o)
  \/ \E o \in Order : Abort(o)
  \/ \E o \in Order : MoveOrder(o)
  \/ \E r \in Reader, u \in Customer \cup {Staff}, rows \in SUBSET Order :
       rows \subseteq OrdersFor(u) /\ Find(r, u, rows)
  \/ \E r \in Reader : ReadItems(r)
  \/ \E r \in Reader : CountByStatus(r)
  \/ \E r \in Reader : SumRevenue(r)

LEMMA NextActs == Next => Acts
<1> SUFFICES ASSUME Next PROVE Acts
    OBVIOUS
<1>1. CASE Stock
      BY <1>1 DEF Stock, Acts
<1>2. ASSUME NEW o \in Order, Place(o) PROVE Acts
      BY <1>2 DEF Place, Acts
<1>3. ASSUME NEW r \in Reader, Read(r) PROVE Acts
  <2>1. ASSUME NEW u \in Customer \cup {Staff}, NEW o \in Order, FindById(r, u, o) PROVE Acts
    <3>1. OrdersFor(u) \cap {o} \in SUBSET Order /\ OrdersFor(u) \cap {o} \subseteq OrdersFor(u)
          OBVIOUS
    <3> QED BY <2>1, <3>1, Zenon DEF FindById, Acts
  <2>2. ASSUME NEW u \in Customer \cup {Staff}, NEW s \in OrderStatus, FindByStatus(r, u, s)
        PROVE  Acts
    <3> DEFINE rows == {o \in OrdersFor(u) : status[o] = s}
    <3>1. rows \in SUBSET Order /\ rows \subseteq OrdersFor(u)
          BY DEF OrdersFor
    <3>2. Find(r, u, rows)
          BY <2>2 DEF FindByStatus
    <3> QED BY <3>1, <3>2, Zenon DEF Acts
  <2>3. CASE ReadItems(r) \/ CountByStatus(r) \/ SumRevenue(r)
        BY <2>3 DEF Acts
  <2> QED BY <1>3, <2>1, <2>2, <2>3 DEF Read
<1> QED BY <1>1, <1>2, <1>3 DEF Next

-----------------------------------------------------------------------------
LEMMA InitIInv == Init => IInv
<1> SUFFICES ASSUME Init PROVE IInv
    OBVIOUS
<1> USE DEF Init
<1>1. TypeOK
  <2>1. seed \in [DOMAIN seed -> Nat] /\ DOMAIN seed \subseteq Product
        OBVIOUS
  <2>2. NoOrders \in [user : Customer \cup {Staff}, rows : SUBSET Order,
                      told : SUBSET [order : Order, lines : SUBSET Item]]
        BY DEF NoOrders
  <2>3. NoReport \in [step : {"counted", "done"}, counted : SUBSET Order,
                      summed : SUBSET (Order \X Item), moved : SUBSET Order]
        BY DEF NoReport
  <2> QED BY <2>1, <2>2, <2>3 DEF TypeOK, NotListed
<1>2. Sold /\ OfferNoted /\ QuotedTogether
      BY DEF Sold, OfferNoted, QuotedTogether
<1>3. FoundOwn /\ ToldTheSale
      BY DEF FoundOwn, ToldTheSale, NoOrders
<1>4. CountedOrMoved
      BY DEF CountedOrMoved, NoReport
<1>5. ReportAgrees
  <2>1. \A r \in Reader : /\ report[r].counted = {} /\ report[r].summed = {}
                          /\ report[r].moved = {}
        BY DEF NoReport
  <2>2. RowsOf(sale, ({} \ {}) \cup {}) = {}
        BY DEF RowsOf
  <2> QED BY <2>1, <2>2 DEF ReportAgrees
<1> QED BY <1>1, <1>2, <1>3, <1>4, <1>5 DEF IInv

LEMMA OfferTyped ==
  ASSUME TypeOK
  PROVE  /\ DOMAIN Offer(price, inactive) \subseteq Product
         /\ \A p \in DOMAIN Offer(price, inactive) :
              Offer(price, inactive)[p] \in Nat \ {NotListed}
BY DEF TypeOK, Offer

LEMMA LineTyped ==
  ASSUME NEW o \in Order, NEW p \in DOMAIN CartOf[o] \cap Product, NEW n \in Nat \ {NotListed}
  PROVE  Line(o, p, n) \in Item
BY Requests DEF Line, Item

LEMMA TypeStep == TypeOK /\ Sold /\ Acts => TypeOK'
<1> SUFFICES ASSUME TypeOK, Sold, Acts PROVE TypeOK'
    OBVIOUS
<1> USE DEF TypeOK, vars, catalogue, placing
<1>1. CASE \E list \in PriceLists : StartSeed(list)
      BY <1>1, Prices DEF StartSeed
<1>2. CASE UpsertProduct
      BY <1>2 DEF UpsertProduct
<1>3. CASE SeedFails
      BY <1>3 DEF SeedFails
<1>4. CASE \E p \in Product : Deactivate(p)
      BY <1>4 DEF Deactivate
<1>5. CASE \E o \in Order : Arrive(o)
      BY <1>5 DEF Arrive
<1>6. ASSUME NEW o \in Order, AskPrices(o) PROVE TypeOK'
  <2>1. CASE DOMAIN CartOf[o] \subseteq DOMAIN Offer(price, inactive)
    <3> DEFINE lines == {Line(o, p, Offer(price, inactive)[p]) : p \in DOMAIN CartOf[o]}
    <3>1. ASSUME NEW p \in DOMAIN CartOf[o]
          PROVE  Line(o, p, Offer(price, inactive)[p]) \in Item
      <4>1. p \in DOMAIN CartOf[o] \cap Product /\ Offer(price, inactive)[p] \in Nat \ {NotListed}
            BY <2>1, OfferTyped
      <4> QED BY <4>1, LineTyped, Zenon
    <3>2. sale' = [sale EXCEPT ![o] = lines] /\ step' = [step EXCEPT ![o] = "priced"]
          BY <1>6, <2>1 DEF AskPrices
    <3>3. staged[o] = {}
          BY <1>6 DEF AskPrices, Sold
    <3>4. lines \subseteq Item
          BY <3>1
    <3> HIDE DEF lines
    <3> QED BY <1>6, <3>2, <3>3, <3>4 DEF AskPrices
  <2>2. CASE ~(DOMAIN CartOf[o] \subseteq DOMAIN Offer(price, inactive))
        BY <1>6, <2>2 DEF AskPrices
  <2> QED BY <2>1, <2>2
<1>7. CASE \E o \in Order : InsertOrder(o)
      BY <1>7 DEF InsertOrder
<1>8. CASE \E o \in Order : InsertItem(o)
      BY <1>8 DEF InsertItem
<1>9. CASE \E o \in Order : Commit(o)
      BY <1>9 DEF Commit, NoteMove, OrderStatus
<1>10. CASE \E o \in Order : Abort(o)
      BY <1>10 DEF Abort
<1>11. CASE \E o \in Order : MoveOrder(o)
      BY <1>11 DEF MoveOrder, NoteMove
<1>12. CASE \E r \in Reader, u \in Customer \cup {Staff}, rows \in SUBSET Order :
              rows \subseteq OrdersFor(u) /\ Find(r, u, rows)
      BY <1>12 DEF Find, NoReport
<1>13. CASE \E r \in Reader : ReadItems(r)
      BY <1>13 DEF ReadItems, Tell
<1>14. CASE \E r \in Reader : CountByStatus(r)
      BY <1>14 DEF CountByStatus, NoOrders, EarningOrders
<1>15. CASE \E r \in Reader : SumRevenue(r)
      BY <1>15 DEF SumRevenue, Sum, RowsOf, EarningOrders
<1> QED BY <1>1, <1>2, <1>3, <1>4, <1>5, <1>6, <1>7, <1>8, <1>9, <1>10, <1>11, <1>12,
           <1>13, <1>14, <1>15 DEF Acts

-----------------------------------------------------------------------------
\* An order in the table stays there, with what it was sold for.
OrdersStay == \A x \in Order : status[x] # Absent => status'[x] # Absent /\ sale'[x] = sale[x]

LEMMA StayStep == TypeOK /\ Sold /\ Acts => OrdersStay
<1> SUFFICES ASSUME TypeOK, Sold, Acts PROVE OrdersStay
    OBVIOUS
<1> USE DEF TypeOK, Sold, OrdersStay, vars, catalogue, placing
<1>1. CASE \E list \in PriceLists : StartSeed(list)
      BY <1>1 DEF StartSeed
<1>2. CASE UpsertProduct
      BY <1>2 DEF UpsertProduct
<1>3. CASE SeedFails
      BY <1>3 DEF SeedFails
<1>4. CASE \E p \in Product : Deactivate(p)
      BY <1>4 DEF Deactivate
<1>5. ASSUME NEW o \in Order, Arrive(o) PROVE OrdersStay
      BY <1>5 DEF Arrive
<1>6. ASSUME NEW o \in Order, AskPrices(o) PROVE OrdersStay
      BY <1>6 DEF AskPrices
<1>7. ASSUME NEW o \in Order, InsertOrder(o) PROVE OrdersStay
      BY <1>7 DEF InsertOrder
<1>8. ASSUME NEW o \in Order, InsertItem(o) PROVE OrdersStay
      BY <1>8 DEF InsertItem
<1>9. ASSUME NEW o \in Order, Commit(o) PROVE OrdersStay
      BY <1>9 DEF Commit, NoteMove, Absent, OrderStatus
<1>10. ASSUME NEW o \in Order, Abort(o) PROVE OrdersStay
      BY <1>10 DEF Abort
<1>11. ASSUME NEW o \in Order, MoveOrder(o) PROVE OrdersStay
      BY <1>11 DEF MoveOrder, NoteMove, validTransitions, OrderStatus, Absent
<1>12. CASE \E r \in Reader, u \in Customer \cup {Staff}, rows \in SUBSET Order :
              rows \subseteq OrdersFor(u) /\ Find(r, u, rows)
      BY <1>12 DEF Find
<1>13. ASSUME NEW r \in Reader, ReadItems(r) PROVE OrdersStay
      BY <1>13 DEF ReadItems, Tell
<1>14. ASSUME NEW r \in Reader, CountByStatus(r) PROVE OrdersStay
      BY <1>14 DEF CountByStatus
<1>15. ASSUME NEW r \in Reader, SumRevenue(r) PROVE OrdersStay
      BY <1>15 DEF SumRevenue, Sum
<1> QED BY <1>1, <1>2, <1>3, <1>4, <1>5, <1>6, <1>7, <1>8,
           <1>9, <1>10, <1>11, <1>12, <1>13, <1>14, <1>15 DEF Acts

LEMMA SoldStep == TypeOK /\ Sold /\ Acts => Sold'
<1> SUFFICES ASSUME TypeOK, Sold, Acts PROVE Sold'
    OBVIOUS
<1> USE DEF TypeOK, Sold, vars, catalogue, placing
<1>1. CASE \E list \in PriceLists : StartSeed(list)
      BY <1>1 DEF StartSeed
<1>2. CASE UpsertProduct
      BY <1>2 DEF UpsertProduct
<1>3. CASE SeedFails
      BY <1>3 DEF SeedFails
<1>4. CASE \E p \in Product : Deactivate(p)
      BY <1>4 DEF Deactivate
<1>5. ASSUME NEW o \in Order, Arrive(o) PROVE Sold'
      BY <1>5 DEF Arrive
<1>6. ASSUME NEW o \in Order, AskPrices(o) PROVE Sold'
  <2>1. CASE DOMAIN CartOf[o] \subseteq DOMAIN Offer(price, inactive)
    <3> DEFINE lines == {Line(o, p, Offer(price, inactive)[p]) : p \in DOMAIN CartOf[o]}
    <3>1. lines # {}
          BY Requests
    <3>2. sale' = [sale EXCEPT ![o] = lines]
          BY <1>6, <2>1 DEF AskPrices
    <3> HIDE DEF lines
    <3> QED BY <1>6, <3>1, <3>2 DEF AskPrices
  <2>2. CASE ~(DOMAIN CartOf[o] \subseteq DOMAIN Offer(price, inactive))
        BY <1>6, <2>2 DEF AskPrices
  <2> QED BY <2>1, <2>2
<1>7. ASSUME NEW o \in Order, InsertOrder(o) PROVE Sold'
      BY <1>7 DEF InsertOrder
<1>8. ASSUME NEW o \in Order, InsertItem(o) PROVE Sold'
      BY <1>8 DEF InsertItem
<1>9. ASSUME NEW o \in Order, Commit(o) PROVE Sold'
      BY <1>9 DEF Commit, NoteMove, Absent, OrderStatus
<1>10. ASSUME NEW o \in Order, Abort(o) PROVE Sold'
      BY <1>10 DEF Abort
<1>11. ASSUME NEW o \in Order, MoveOrder(o) PROVE Sold'
      BY <1>11 DEF MoveOrder, NoteMove, validTransitions, OrderStatus, Absent
<1>12. CASE \E r \in Reader, u \in Customer \cup {Staff}, rows \in SUBSET Order :
              rows \subseteq OrdersFor(u) /\ Find(r, u, rows)
      BY <1>12 DEF Find
<1>13. ASSUME NEW r \in Reader, ReadItems(r) PROVE Sold'
      BY <1>13 DEF ReadItems, Tell
<1>14. ASSUME NEW r \in Reader, CountByStatus(r) PROVE Sold'
      BY <1>14 DEF CountByStatus
<1>15. ASSUME NEW r \in Reader, SumRevenue(r) PROVE Sold'
      BY <1>15 DEF SumRevenue, Sum
<1> QED BY <1>1, <1>2, <1>3, <1>4, <1>5, <1>6, <1>7, <1>8,
           <1>9, <1>10, <1>11, <1>12, <1>13, <1>14, <1>15 DEF Acts

LEMMA OfferStep == TypeOK /\ OfferNoted /\ Acts => OfferNoted'
<1> SUFFICES ASSUME TypeOK, OfferNoted, Acts PROVE OfferNoted'
    OBVIOUS
<1> USE DEF TypeOK, OfferNoted, vars, catalogue, placing
<1>1. CASE \E list \in PriceLists : StartSeed(list)
      BY <1>1 DEF StartSeed
<1>2. CASE UpsertProduct
      BY <1>2 DEF UpsertProduct, NoteOffer
<1>3. CASE SeedFails
      BY <1>3 DEF SeedFails
<1>4. CASE \E p \in Product : Deactivate(p)
      BY <1>4 DEF Deactivate, NoteOffer
<1>5. ASSUME NEW o \in Order, Arrive(o) PROVE OfferNoted'
      BY <1>5 DEF Arrive
<1>6. ASSUME NEW o \in Order, AskPrices(o) PROVE OfferNoted'
      BY <1>6 DEF AskPrices
<1>7. ASSUME NEW o \in Order, InsertOrder(o) PROVE OfferNoted'
      BY <1>7 DEF InsertOrder
<1>8. ASSUME NEW o \in Order, InsertItem(o) PROVE OfferNoted'
      BY <1>8 DEF InsertItem
<1>9. ASSUME NEW o \in Order, Commit(o) PROVE OfferNoted'
      BY <1>9 DEF Commit, NoteMove
<1>10. ASSUME NEW o \in Order, Abort(o) PROVE OfferNoted'
      BY <1>10 DEF Abort
<1>11. ASSUME NEW o \in Order, MoveOrder(o) PROVE OfferNoted'
      BY <1>11 DEF MoveOrder, NoteMove, validTransitions, OrderStatus, Absent
<1>12. CASE \E r \in Reader, u \in Customer \cup {Staff}, rows \in SUBSET Order :
              rows \subseteq OrdersFor(u) /\ Find(r, u, rows)
      BY <1>12 DEF Find
<1>13. ASSUME NEW r \in Reader, ReadItems(r) PROVE OfferNoted'
      BY <1>13 DEF ReadItems, Tell
<1>14. ASSUME NEW r \in Reader, CountByStatus(r) PROVE OfferNoted'
      BY <1>14 DEF CountByStatus
<1>15. ASSUME NEW r \in Reader, SumRevenue(r) PROVE OfferNoted'
      BY <1>15 DEF SumRevenue, Sum
<1> QED BY <1>1, <1>2, <1>3, <1>4, <1>5, <1>6, <1>7, <1>8,
           <1>9, <1>10, <1>11, <1>12, <1>13, <1>14, <1>15 DEF Acts

LEMMA QuoteStep == TypeOK /\ OfferNoted /\ QuotedTogether /\ Acts => QuotedTogether'
<1> SUFFICES ASSUME TypeOK, OfferNoted, QuotedTogether, Acts PROVE QuotedTogether'
    OBVIOUS
<1> USE DEF TypeOK, OfferNoted, QuotedTogether, vars, catalogue, placing
<1>1. CASE \E list \in PriceLists : StartSeed(list)
      BY <1>1 DEF StartSeed
<1>2. CASE UpsertProduct
      BY <1>2 DEF UpsertProduct, NoteOffer
<1>3. CASE SeedFails
      BY <1>3 DEF SeedFails
<1>4. CASE \E p \in Product : Deactivate(p)
      BY <1>4 DEF Deactivate, NoteOffer
<1>5. ASSUME NEW o \in Order, Arrive(o) PROVE QuotedTogether'
      BY <1>5 DEF Arrive
<1>6. ASSUME NEW o \in Order, AskPrices(o) PROVE QuotedTogether'
  <2>1. CASE DOMAIN CartOf[o] \subseteq DOMAIN Offer(price, inactive)
    <3> DEFINE offer == Offer(price, inactive)
               lines == {Line(o, p, offer[p]) : p \in DOMAIN CartOf[o]}
    <3>1. offer \in offers'[o] /\ sale'[o] = lines
          BY <1>6, <2>1 DEF AskPrices
    <3>2. \A x \in Order \ {o} : step'[x] = step[x] /\ sale'[x] = sale[x] /\ offers'[x] = offers[x]
          BY <1>6, <2>1 DEF AskPrices
    <3>3. ASSUME NEW x \in Order, step'[x] = "priced"
          PROVE  \E f \in offers'[x] :
                   /\ DOMAIN CartOf[x] \subseteq DOMAIN f
                   /\ sale'[x] = {Line(x, p, f[p]) : p \in DOMAIN CartOf[x]}
      <4>1. CASE x = o
        <5>1. /\ offer \in offers'[x] /\ sale'[x] = {Line(x, p, offer[p]) : p \in DOMAIN CartOf[x]}
              /\ DOMAIN CartOf[x] \subseteq DOMAIN offer
              BY <2>1, <3>1, <4>1
        <5> QED BY <5>1, Zenon
      <4>2. CASE x # o
        <5>1. /\ step[x] = "priced" /\ sale'[x] = sale[x] /\ offers'[x] = offers[x]
              BY <3>2, <3>3, <4>2
        <5>2. PICK f \in offers[x] : /\ DOMAIN CartOf[x] \subseteq DOMAIN f
                                     /\ sale[x] = {Line(x, p, f[p]) : p \in DOMAIN CartOf[x]}
              BY <5>1, Zenon DEF QuotedTogether
        <5>3. f \in offers'[x] /\ sale'[x] = {Line(x, p, f[p]) : p \in DOMAIN CartOf[x]}
              BY <5>1, <5>2
        <5> QED BY <5>2, <5>3, Zenon
      <4> QED BY <4>1, <4>2
    <3> QED BY <3>3, Zenon
  <2>2. CASE ~(DOMAIN CartOf[o] \subseteq DOMAIN Offer(price, inactive))
        BY <1>6, <2>2 DEF AskPrices
  <2> QED BY <2>1, <2>2
<1>7. ASSUME NEW o \in Order, InsertOrder(o) PROVE QuotedTogether'
      BY <1>7 DEF InsertOrder
<1>8. ASSUME NEW o \in Order, InsertItem(o) PROVE QuotedTogether'
      BY <1>8 DEF InsertItem
<1>9. ASSUME NEW o \in Order, Commit(o) PROVE QuotedTogether'
      BY <1>9 DEF Commit, NoteMove
<1>10. ASSUME NEW o \in Order, Abort(o) PROVE QuotedTogether'
      BY <1>10 DEF Abort
<1>11. ASSUME NEW o \in Order, MoveOrder(o) PROVE QuotedTogether'
      BY <1>11 DEF MoveOrder, NoteMove, validTransitions, OrderStatus, Absent
<1>12. CASE \E r \in Reader, u \in Customer \cup {Staff}, rows \in SUBSET Order :
              rows \subseteq OrdersFor(u) /\ Find(r, u, rows)
      BY <1>12 DEF Find
<1>13. ASSUME NEW r \in Reader, ReadItems(r) PROVE QuotedTogether'
      BY <1>13 DEF ReadItems, Tell
<1>14. ASSUME NEW r \in Reader, CountByStatus(r) PROVE QuotedTogether'
      BY <1>14 DEF CountByStatus
<1>15. ASSUME NEW r \in Reader, SumRevenue(r) PROVE QuotedTogether'
      BY <1>15 DEF SumRevenue, Sum
<1> QED BY <1>1, <1>2, <1>3, <1>4, <1>5, <1>6, <1>7, <1>8,
           <1>9, <1>10, <1>11, <1>12, <1>13, <1>14, <1>15 DEF Acts

-----------------------------------------------------------------------------
\* What readers found and were told concerns orders that stay as they are.
LEMMA FoundStep == TypeOK /\ Sold /\ FoundOwn /\ Acts => FoundOwn'
<1> SUFFICES ASSUME TypeOK, Sold, FoundOwn, Acts PROVE FoundOwn'
    OBVIOUS
<1> USE DEF TypeOK, FoundOwn, OrdersFor, vars, catalogue, placing
<1>1. CASE \E list \in PriceLists : StartSeed(list)
      BY <1>1, StayStep DEF StartSeed, OrdersStay
<1>2. CASE UpsertProduct
      BY <1>2, StayStep DEF UpsertProduct, OrdersStay
<1>3. CASE SeedFails
      BY <1>3, StayStep DEF SeedFails, OrdersStay
<1>4. CASE \E p \in Product : Deactivate(p)
      BY <1>4, StayStep DEF Deactivate, OrdersStay
<1>5. ASSUME NEW o \in Order, Arrive(o) PROVE FoundOwn'
      BY <1>5, StayStep DEF Arrive, OrdersStay
<1>6. ASSUME NEW o \in Order, AskPrices(o) PROVE FoundOwn'
      BY <1>6, StayStep DEF AskPrices, OrdersStay
<1>7. ASSUME NEW o \in Order, InsertOrder(o) PROVE FoundOwn'
      BY <1>7, StayStep DEF InsertOrder, OrdersStay
<1>8. ASSUME NEW o \in Order, InsertItem(o) PROVE FoundOwn'
      BY <1>8, StayStep DEF InsertItem, OrdersStay
<1>9. ASSUME NEW o \in Order, Commit(o) PROVE FoundOwn'
      BY <1>9, StayStep DEF Commit, NoteMove, OrdersStay
<1>10. ASSUME NEW o \in Order, Abort(o) PROVE FoundOwn'
      BY <1>10, StayStep DEF Abort, OrdersStay
<1>11. ASSUME NEW o \in Order, MoveOrder(o) PROVE FoundOwn'
      BY <1>11, StayStep DEF MoveOrder, NoteMove, validTransitions, OrderStatus, Absent, OrdersStay
<1>12. CASE \E r \in Reader, u \in Customer \cup {Staff}, rows \in SUBSET Order :
              rows \subseteq OrdersFor(u) /\ Find(r, u, rows)
      BY <1>12, StayStep DEF Find, OrdersStay
<1>13. ASSUME NEW r \in Reader, ReadItems(r) PROVE FoundOwn'
      BY <1>13, StayStep DEF ReadItems, Tell, OrdersStay
<1>14. ASSUME NEW r \in Reader, CountByStatus(r) PROVE FoundOwn'
      BY <1>14, StayStep DEF CountByStatus, OrdersStay, NoOrders
<1>15. ASSUME NEW r \in Reader, SumRevenue(r) PROVE FoundOwn'
      BY <1>15, StayStep DEF SumRevenue, Sum, OrdersStay
<1> QED BY <1>1, <1>2, <1>3, <1>4, <1>5, <1>6, <1>7, <1>8,
           <1>9, <1>10, <1>11, <1>12, <1>13, <1>14, <1>15 DEF Acts

LEMMA ToldStep == TypeOK /\ Sold /\ FoundOwn /\ ToldTheSale /\ Acts => ToldTheSale'
<1> SUFFICES ASSUME TypeOK, Sold, FoundOwn, ToldTheSale, Acts PROVE ToldTheSale'
    OBVIOUS
<1> USE DEF TypeOK, FoundOwn, ToldTheSale, vars, catalogue, placing
<1>1. CASE \E list \in PriceLists : StartSeed(list)
      BY <1>1, StayStep DEF StartSeed, OrdersStay
<1>2. CASE UpsertProduct
      BY <1>2, StayStep DEF UpsertProduct, OrdersStay
<1>3. CASE SeedFails
      BY <1>3, StayStep DEF SeedFails, OrdersStay
<1>4. CASE \E p \in Product : Deactivate(p)
      BY <1>4, StayStep DEF Deactivate, OrdersStay
<1>5. ASSUME NEW o \in Order, Arrive(o) PROVE ToldTheSale'
      BY <1>5, StayStep DEF Arrive, OrdersStay
<1>6. ASSUME NEW o \in Order, AskPrices(o) PROVE ToldTheSale'
      BY <1>6, StayStep DEF AskPrices, OrdersStay
<1>7. ASSUME NEW o \in Order, InsertOrder(o) PROVE ToldTheSale'
      BY <1>7, StayStep DEF InsertOrder, OrdersStay
<1>8. ASSUME NEW o \in Order, InsertItem(o) PROVE ToldTheSale'
      BY <1>8, StayStep DEF InsertItem, OrdersStay
<1>9. ASSUME NEW o \in Order, Commit(o) PROVE ToldTheSale'
      BY <1>9, StayStep DEF Commit, NoteMove, OrdersStay
<1>10. ASSUME NEW o \in Order, Abort(o) PROVE ToldTheSale'
      BY <1>10, StayStep DEF Abort, OrdersStay
<1>11. ASSUME NEW o \in Order, MoveOrder(o) PROVE ToldTheSale'
      BY <1>11, StayStep DEF MoveOrder, NoteMove, validTransitions, OrderStatus, Absent, OrdersStay
<1>12. CASE \E r \in Reader, u \in Customer \cup {Staff}, rows \in SUBSET Order :
              rows \subseteq OrdersFor(u) /\ Find(r, u, rows)
      BY <1>12, StayStep DEF Find, OrdersStay
<1>13. ASSUME NEW r \in Reader, ReadItems(r) PROVE ToldTheSale'
      BY <1>13, StayStep DEF ReadItems, Tell, OrdersStay, Sold, OrdersFor
<1>14. ASSUME NEW r \in Reader, CountByStatus(r) PROVE ToldTheSale'
      BY <1>14, StayStep DEF CountByStatus, OrdersStay, NoOrders
<1>15. ASSUME NEW r \in Reader, SumRevenue(r) PROVE ToldTheSale'
      BY <1>15, StayStep DEF SumRevenue, Sum, OrdersStay
<1> QED BY <1>1, <1>2, <1>3, <1>4, <1>5, <1>6, <1>7, <1>8,
           <1>9, <1>10, <1>11, <1>12, <1>13, <1>14, <1>15 DEF Acts

-----------------------------------------------------------------------------
\* What a report sums is what it counted, but for the orders moved in between.
LEMMA CountStep == TypeOK /\ Sold /\ CountedOrMoved /\ Acts => CountedOrMoved'
<1> SUFFICES ASSUME TypeOK, Sold, CountedOrMoved, Acts PROVE CountedOrMoved'
    OBVIOUS
<1> USE DEF TypeOK, CountedOrMoved, vars, catalogue, placing
<1>1. CASE \E list \in PriceLists : StartSeed(list)
      BY <1>1, StayStep DEF StartSeed, OrdersStay
<1>2. CASE UpsertProduct
      BY <1>2, StayStep DEF UpsertProduct, OrdersStay
<1>3. CASE SeedFails
      BY <1>3, StayStep DEF SeedFails, OrdersStay
<1>4. CASE \E p \in Product : Deactivate(p)
      BY <1>4, StayStep DEF Deactivate, OrdersStay
<1>5. ASSUME NEW o \in Order, Arrive(o) PROVE CountedOrMoved'
      BY <1>5, StayStep DEF Arrive, OrdersStay
<1>6. ASSUME NEW o \in Order, AskPrices(o) PROVE CountedOrMoved'
      BY <1>6, StayStep DEF AskPrices, OrdersStay
<1>7. ASSUME NEW o \in Order, InsertOrder(o) PROVE CountedOrMoved'
      BY <1>7, StayStep DEF InsertOrder, OrdersStay
<1>8. ASSUME NEW o \in Order, InsertItem(o) PROVE CountedOrMoved'
      BY <1>8, StayStep DEF InsertItem, OrdersStay
<1>9. ASSUME NEW o \in Order, Commit(o) PROVE CountedOrMoved'
      BY <1>9, StayStep DEF Commit, NoteMove, OrdersStay, Absent, Earning
<1>10. ASSUME NEW o \in Order, Abort(o) PROVE CountedOrMoved'
      BY <1>10, StayStep DEF Abort, OrdersStay
<1>11. ASSUME NEW o \in Order, MoveOrder(o) PROVE CountedOrMoved'
      BY <1>11, StayStep DEF MoveOrder, NoteMove, validTransitions, OrderStatus, Absent, OrdersStay
<1>12. CASE \E r \in Reader, u \in Customer \cup {Staff}, rows \in SUBSET Order :
              rows \subseteq OrdersFor(u) /\ Find(r, u, rows)
      BY <1>12, StayStep DEF Find, OrdersStay, NoReport
<1>13. ASSUME NEW r \in Reader, ReadItems(r) PROVE CountedOrMoved'
      BY <1>13, StayStep DEF ReadItems, Tell, OrdersStay
<1>14. ASSUME NEW r \in Reader, CountByStatus(r) PROVE CountedOrMoved'
      BY <1>14, StayStep DEF CountByStatus, OrdersStay, EarningOrders, Earning, Absent
<1>15. ASSUME NEW r \in Reader, SumRevenue(r) PROVE CountedOrMoved'
      BY <1>15, StayStep DEF SumRevenue, Sum, OrdersStay
<1> QED BY <1>1, <1>2, <1>3, <1>4, <1>5, <1>6, <1>7, <1>8,
           <1>9, <1>10, <1>11, <1>12, <1>13, <1>14, <1>15 DEF Acts

ReportsStay ==
  \A q \in Reader : report'[q].step = "done" => report'[q] \in {report[q], NoReport}

LEMMA ReportsKept ==
  TypeOK /\ Acts /\ ~(\E r \in Reader : SumRevenue(r)) => ReportsStay
<1> SUFFICES ASSUME TypeOK, Acts, ~(\E r \in Reader : SumRevenue(r)) PROVE ReportsStay
    OBVIOUS
<1> USE DEF TypeOK, ReportsStay, vars, catalogue, placing
<1>1. CASE \E list \in PriceLists : StartSeed(list)
      BY <1>1 DEF StartSeed
<1>2. CASE UpsertProduct
      BY <1>2 DEF UpsertProduct
<1>3. CASE SeedFails
      BY <1>3 DEF SeedFails
<1>4. CASE \E p \in Product : Deactivate(p)
      BY <1>4 DEF Deactivate
<1>5. ASSUME NEW o \in Order, Arrive(o) PROVE ReportsStay
      BY <1>5 DEF Arrive
<1>6. ASSUME NEW o \in Order, AskPrices(o) PROVE ReportsStay
      BY <1>6 DEF AskPrices
<1>7. ASSUME NEW o \in Order, InsertOrder(o) PROVE ReportsStay
      BY <1>7 DEF InsertOrder
<1>8. ASSUME NEW o \in Order, InsertItem(o) PROVE ReportsStay
      BY <1>8 DEF InsertItem
<1>9. ASSUME NEW o \in Order, Commit(o) PROVE ReportsStay
      BY <1>9 DEF Commit, NoteMove
<1>10. ASSUME NEW o \in Order, Abort(o) PROVE ReportsStay
      BY <1>10 DEF Abort
<1>11. ASSUME NEW o \in Order, MoveOrder(o) PROVE ReportsStay
      BY <1>11 DEF MoveOrder, NoteMove, validTransitions, OrderStatus, Absent
<1>12. CASE \E r \in Reader, u \in Customer \cup {Staff}, rows \in SUBSET Order :
              rows \subseteq OrdersFor(u) /\ Find(r, u, rows)
      BY <1>12 DEF Find
<1>13. ASSUME NEW r \in Reader, ReadItems(r) PROVE ReportsStay
      BY <1>13 DEF ReadItems, Tell
<1>14. ASSUME NEW r \in Reader, CountByStatus(r) PROVE ReportsStay
      BY <1>14 DEF CountByStatus
<1> QED BY <1>1, <1>2, <1>3, <1>4, <1>5, <1>6, <1>7, <1>8,
           <1>9, <1>10, <1>11, <1>12, <1>13, <1>14 DEF Acts

LEMMA RowsSame ==
  ASSUME NEW S, NEW f, NEW g, \A o \in S : f[o] = g[o]
  PROVE  RowsOf(f, S) = RowsOf(g, S)
BY DEF RowsOf

LEMMA AgreeStep ==
  TypeOK /\ Sold /\ CountedOrMoved /\ ReportAgrees /\ Acts => ReportAgrees'
<1> SUFFICES ASSUME TypeOK, Sold, CountedOrMoved, ReportAgrees, Acts,
                    NEW q \in Reader, report'[q].step = "done"
             PROVE  \E moved \in SUBSET report'[q].moved :
                      report'[q].summed =
                        RowsOf(sale', (report'[q].counted \ report'[q].moved) \cup moved)
    BY DEF ReportAgrees
<1>1. OrdersStay
      BY StayStep
<1>2. CASE report'[q] = NoReport
  <2>1. RowsOf(sale', ({} \ {}) \cup {}) = {}
        BY DEF RowsOf
  <2> QED BY <1>2, <2>1 DEF NoReport
<1>3. CASE report'[q] = report[q]
  <2>1. PICK moved \in SUBSET report[q].moved :
          report[q].summed = RowsOf(sale, (report[q].counted \ report[q].moved) \cup moved)
        BY <1>3 DEF ReportAgrees
  <2> DEFINE S == (report[q].counted \ report[q].moved) \cup moved
  <2>2. \A o \in S : sale[o] = sale'[o]
        BY <1>1, <2>1 DEF OrdersStay, CountedOrMoved, TypeOK
  <2>3. RowsOf(sale, S) = RowsOf(sale', S)
        BY <2>2, RowsSame
  <2> QED BY <1>3, <2>1, <2>3
<1>4. ASSUME NEW r \in Reader, SumRevenue(r), r = q
      PROVE  \E moved \in SUBSET report'[q].moved :
               report'[q].summed =
                 RowsOf(sale', (report'[q].counted \ report'[q].moved) \cup moved)
  <2>1. /\ report[q].step = "counted"
        /\ report'[q].summed = RowsOf(items, EarningOrders)
        /\ report'[q].counted = report[q].counted /\ report'[q].moved = report[q].moved
        BY <1>4 DEF SumRevenue, Sum, TypeOK
  <2> DEFINE moved == EarningOrders \cap report[q].moved
  <2>2. (report[q].counted \ report[q].moved) \cup moved = EarningOrders
        BY <2>1 DEF CountedOrMoved, EarningOrders, TypeOK
  <2>3. \A o \in EarningOrders : items[o] = sale'[o]
        BY <1>1 DEF OrdersStay, Sold, EarningOrders, Earning, Absent
  <2>4. RowsOf(items, EarningOrders) = RowsOf(sale', EarningOrders)
        BY <2>3, RowsSame
  <2>5. moved \in SUBSET report'[q].moved
        BY <2>1
  <2> QED BY <2>1, <2>2, <2>4, <2>5
<1>5. ASSUME NEW r \in Reader, SumRevenue(r), r # q PROVE report'[q] = report[q]
      BY <1>5 DEF SumRevenue, Sum, TypeOK
<1>6. CASE ~(\E r \in Reader : SumRevenue(r))
      BY <1>6, ReportsKept, <1>2, <1>3 DEF ReportsStay
<1> QED BY <1>3, <1>4, <1>5, <1>6

-----------------------------------------------------------------------------
LEMMA Stutter == IInv /\ UNCHANGED vars => IInv'
<1> SUFFICES ASSUME IInv, UNCHANGED vars PROVE IInv'
    OBVIOUS
<1> USE DEF IInv, vars, catalogue, placing
<1>1. TypeOK' /\ Sold' /\ OfferNoted'
      BY DEF TypeOK, Sold, OfferNoted
<1>2. QuotedTogether' /\ FoundOwn' /\ ToldTheSale'
      BY DEF QuotedTogether, FoundOwn, ToldTheSale, OrdersFor
<1>3. CountedOrMoved' /\ ReportAgrees'
      BY DEF CountedOrMoved, ReportAgrees
<1> QED BY <1>1, <1>2, <1>3

LEMMA NextIInv == IInv /\ [Next]_vars => IInv'
<1> SUFFICES ASSUME IInv, Next PROVE IInv'
    BY Stutter
<1>1. Acts
      BY NextActs
<1> QED BY <1>1, TypeStep, SoldStep, OfferStep, QuoteStep, FoundStep, ToldStep, CountStep,
           AgreeStep DEF IInv

LEMMA Invariant == Spec => []IInv
BY InitIInv, NextIInv, PTL DEF Spec

\* Catalogue, orders, readers and reports keep their types.
THEOREM TypeCorrect == Spec => []TypeOK
<1>1. IInv => TypeOK
      BY DEF IInv
<1> QED BY <1>1, Invariant, PTL

\* Whatever the seed script and other requests do meanwhile, an order is priced
\* from one catalogue (QuotedTogether).
THEOREM Priced == Spec => []QuotedTogether
<1>1. IInv => QuotedTogether
      BY DEF IInv
<1> QED BY <1>1, Invariant, PTL

\* Readers are told complete orders as they were sold, customers only their own
\* (ToldTheSale).
THEOREM Snapshots == Spec => []ToldTheSale
<1>1. IInv => ToldTheSale
      BY DEF IInv
<1> QED BY <1>1, Invariant, PTL

\* The two statements of a report differ by moved orders only (ReportAgrees).
THEOREM ReportSound == Spec => []ReportAgrees
<1>1. IInv => ReportAgrees
      BY DEF IInv
<1> QED BY <1>1, Invariant, PTL

=============================================================================
