------------------------------ MODULE Checkout ------------------------------
(***************************************************************************)
(* What an order contains and costs, from the catalogue to what clients    *)
(* are told of it: createOrder reads prices with one query and inserts the *)
(* order and its items in one transaction later; the seed script changes   *)
(* the catalogue product by product; reads of orders, totals and the       *)
(* report take two statements or more, each with a snapshot of its own.    *)
(* A price stands for the name and the price of a product.                 *)
(***************************************************************************)
EXTENDS Integers, OrderStates

CONSTANTS
  Order,       \* POST /orders requests, and the orders they place
  Product,     \* ids of products
  Customer,    \* ids of customers
  Staff,       \* staff or admin, who may read any order
  CustomerOf,  \* who sends each request
  CartOf,      \* the quantity of each product a request asks for
  PriceLists,  \* the versions of the list of the seed script
  Reader       \* requests that only read: orders, or the report

NotListed == 0

ASSUME Requests ==
  /\ CustomerOf \in [Order -> Customer]
  /\ Staff \notin Customer
  /\ \A o \in Order :
       /\ CartOf[o] \in [DOMAIN CartOf[o] -> 1..500]
       /\ DOMAIN CartOf[o] # {}

ASSUME Prices ==
  \A list \in PriceLists :
    /\ list \in [DOMAIN list -> Nat \ {NotListed}]
    /\ DOMAIN list \subseteq Product

VARIABLES
  price, inactive,  \* products: unit_price, or NotListed; those not active
  seed,     \* the products the seed script has left to do, and their prices
  status,   \* orders.status
  items,    \* order_items of each order, committed
  step,     \* what each createOrder has done
  sale,     \* the items it computed
  staged,   \* the rows its open transaction has inserted
  offers,   \* history: the catalogues there were while it asked for prices
  read,     \* what each reader has found and told
  report    \* what each reader has counted and summed for the order report

catalogue == <<price, inactive, seed>>
placing == <<step, sale, staged, offers>>
vars == <<catalogue, status, items, placing, read, report>>

NoOrders == [user |-> Staff, rows |-> {}, told |-> {}]
NoReport == [step |-> "done", counted |-> {}, summed |-> {}, moved |-> {}]

Init ==
  /\ price = [p \in Product |-> NotListed] /\ inactive = {}
  /\ seed = <<>>
  /\ status = [o \in Order |-> Absent] /\ items = [o \in Order |-> {}]
  /\ step = [o \in Order |-> "unsent"]
  /\ sale = [o \in Order |-> {}] /\ staged = [o \in Order |-> {}]
  /\ offers = [o \in Order |-> {}]
  /\ read = [r \in Reader |-> NoOrders] /\ report = [r \in Reader |-> NoReport]

-----------------------------------------------------------------------------
(***************************************************************************)
(* The catalogue                                                           *)
(***************************************************************************)

\* What can be bought, and for how much.
Offer(prices, off) ==
  [p \in {q \in Product : prices[q] # NotListed /\ q \notin off} |-> prices[p]]

\* A request that has arrived may be quoted the catalogue as it is now, too.
NoteOffer ==
  offers' = [o \in Order |->
               IF step[o] = "arrived" THEN offers[o] \cup {Offer(price', inactive')} ELSE offers[o]]

StartSeed(list) ==
  /\ seed = <<>>
  /\ seed' = list
  /\ UNCHANGED <<price, inactive, status, items, placing, read, report>>

\* INSERT ... ON CONFLICT DO UPDATE, one product at a time, each its own transaction.
UpsertProduct ==
  /\ \E p \in DOMAIN seed :
       /\ price' = [price EXCEPT ![p] = seed[p]]
       /\ seed' = [q \in DOMAIN seed \ {p} |-> seed[q]]
  /\ UNCHANGED inactive
  /\ NoteOffer
  /\ UNCHANGED <<status, items, step, sale, staged, read, report>>

\* The script fails or is stopped: the products it has done keep their new price.
SeedFails ==
  /\ seed # <<>>
  /\ seed' = <<>>
  /\ UNCHANGED <<price, inactive, status, items, placing, read, report>>

\* UPDATE products SET active = FALSE, by hand.
Deactivate(p) ==
  /\ price[p] # NotListed /\ p \notin inactive
  /\ inactive' = inactive \cup {p}
  /\ UNCHANGED <<price, seed>>
  /\ NoteOffer
  /\ UNCHANGED <<status, items, step, sale, staged, read, report>>

-----------------------------------------------------------------------------
(***************************************************************************)
(* createOrder and insertOrder                                             *)
(***************************************************************************)
Line(o, p, unitPrice) == [product |-> p, quantity |-> CartOf[o][p], unitPrice |-> unitPrice]

Arrive(o) ==
  /\ step[o] = "unsent"
  /\ step' = [step EXCEPT ![o] = "arrived"]
  /\ offers' = [offers EXCEPT ![o] = {Offer(price, inactive)}]
  /\ UNCHANGED <<catalogue, status, items, sale, staged, read, report>>

\* Variant: one query per product.
AskOnePrice(o) ==
  LET offer == Offer(price, inactive)
      asked == {l.product : l \in sale[o]}
  IN  /\ step[o] = "arrived"
      /\ \E p \in (DOMAIN CartOf[o] \cap DOMAIN offer) \ asked :
           /\ sale' = [sale EXCEPT ![o] = @ \cup {Line(o, p, offer[p])}]
           /\ step' = IF DOMAIN CartOf[o] \subseteq asked \cup {p}
                      THEN [step EXCEPT ![o] = "priced"] ELSE step
      /\ UNCHANGED <<catalogue, status, items, staged, offers, read, report>>

\* Unknown or unavailable products are refused.
AskPrices(o) ==
  LET offer == Offer(price, inactive)
  IN  /\ step[o] = "arrived"
      /\ \/ /\ DOMAIN CartOf[o] \subseteq DOMAIN offer
            /\ sale' = [sale EXCEPT ![o] = {Line(o, p, offer[p]) : p \in DOMAIN CartOf[o]}]
            /\ step' = [step EXCEPT ![o] = "priced"]
         \/ /\ ~(DOMAIN CartOf[o] \subseteq DOMAIN offer)
            /\ step' = [step EXCEPT ![o] = "done"]
            /\ UNCHANGED sale
      /\ UNCHANGED <<catalogue, status, items, staged, offers, read, report>>

\* Variant: the order is inserted before BEGIN.
InsertOrderAtOnce(o) ==
  /\ step[o] = "priced"
  /\ step' = [step EXCEPT ![o] = "inserting"]
  /\ offers' = [offers EXCEPT ![o] = {}]
  /\ status' = [status EXCEPT ![o] = "pending"]
  /\ UNCHANGED <<catalogue, items, sale, staged, read, report>>

\* BEGIN; INSERT INTO orders: nobody else sees the row before COMMIT. (The history
\* of offers has served its purpose.)
InsertOrder(o) ==
  /\ step[o] = "priced"
  /\ step' = [step EXCEPT ![o] = "inserting"]
  /\ offers' = [offers EXCEPT ![o] = {}]
  /\ UNCHANGED <<catalogue, status, items, sale, staged, read, report>>

InsertItem(o) ==
  /\ step[o] = "inserting"
  /\ \E l \in sale[o] \ staged[o] : staged' = [staged EXCEPT ![o] = @ \cup {l}]
  /\ UNCHANGED <<catalogue, status, items, step, sale, offers, read, report>>

\* An order whose status changes between the two statements of a report.
NoteMove(o) ==
  report' = [r \in Reader |->
               IF report[r].step = "counted"
               THEN [step |-> "counted", counted |-> report[r].counted,
                     summed |-> {}, moved |-> report[r].moved \cup {o}]
               ELSE report[r]]

\* Whether the client hears of it matters to module Idempotency only.
Commit(o) ==
  /\ step[o] = "inserting" /\ staged[o] = sale[o]
  /\ status' = [status EXCEPT ![o] = "pending"]
  /\ items' = [items EXCEPT ![o] = staged[o]]
  /\ step' = [step EXCEPT ![o] = "done"]
  /\ staged' = [staged EXCEPT ![o] = {}]
  /\ NoteMove(o)
  /\ UNCHANGED <<catalogue, sale, offers, read>>

\* Variant: no ROLLBACK.
AbortOpen(o) ==
  /\ step[o] \in {"arrived", "priced", "inserting"}
  /\ step' = [step EXCEPT ![o] = "done"]
  /\ sale' = [sale EXCEPT ![o] = {}]
  /\ offers' = [offers EXCEPT ![o] = {}]
  /\ UNCHANGED <<catalogue, status, items, staged, read, report>>

\* A statement, the connection or the server fails: ROLLBACK.
Abort(o) ==
  /\ step[o] \in {"arrived", "priced", "inserting"}
  /\ step' = [step EXCEPT ![o] = "done"]
  /\ sale' = [sale EXCEPT ![o] = {}]
  /\ staged' = [staged EXCEPT ![o] = {}]
  /\ offers' = [offers EXCEPT ![o] = {}]
  /\ UNCHANGED <<catalogue, status, items, read, report>>

\* Whatever changes a status follows the transitions (TableMoves of module Schema).
MoveOrder(o) ==
  /\ \E s \in OrderStatus :
       /\ <<status[o], s>> \in validTransitions
       /\ status' = [status EXCEPT ![o] = s]
  /\ NoteMove(o)
  /\ UNCHANGED <<catalogue, items, placing, read>>

-----------------------------------------------------------------------------
(***************************************************************************)
(* Reading orders                                                          *)
(***************************************************************************)

Free(r) == read[r].rows = {} /\ report[r].step = "done"

\* The rows of orders a query finds for a user: customerIdFilter.
OrdersFor(u) == {o \in Order : status[o] # Absent /\ (u = Staff \/ CustomerOf[o] = u)}

Find(r, u, rows) ==
  /\ Free(r)
  /\ rows # {}
  /\ read' = [read EXCEPT ![r] = [user |-> u, rows |-> rows, told |-> {}]]
  /\ report' = [report EXCEPT ![r] = NoReport]
  /\ UNCHANGED <<catalogue, status, items, placing>>

\* getOrderById and getOrderTotal: what is not found is a 404.
FindById(r, u, o) == Find(r, u, OrdersFor(u) \cap {o})

FindByStatus(r, u, s) == Find(r, u, {o \in OrdersFor(u) : status[o] = s})

Tell(r, o, lines) ==
  read' = [read EXCEPT ![r] =
             [user |-> @.user, rows |-> @.rows \ {o},
              told |-> @.told \cup {[order |-> o, lines |-> lines]}]]

\* Variant: the items are read with the prices of the catalogue.
ReadItemsAtCatalogue(r) ==
  /\ \E o \in read[r].rows :
       Tell(r, o, {Line(o, l.product, price[l.product]) : l \in items[o]})
  /\ UNCHANGED <<catalogue, status, items, placing, report>>

\* The items of one order found, a statement per order.
ReadItems(r) ==
  /\ \E o \in read[r].rows :
       Tell(r, o, items[o])
  /\ UNCHANGED <<catalogue, status, items, placing, report>>

-----------------------------------------------------------------------------
(***************************************************************************)
(* The report: of the number of orders per status only which orders were   *)
(* counted as earning is kept, and of the revenue the rows it is the sum   *)
(* of.                                                                     *)
(***************************************************************************)
Earning == {"confirmed", "shipped", "delivered"}

EarningOrders == {o \in Order : status[o] \in Earning}

\* The rows of the items of some orders.
RowsOf(lines, orders) == UNION {{<<o, l>> : l \in lines[o]} : o \in orders}

CountByStatus(r) ==
  /\ Free(r)
  /\ report' = [report EXCEPT ![r] = [step |-> "counted", counted |-> EarningOrders,
                                      summed |-> {}, moved |-> {}]]
  /\ read' = [read EXCEPT ![r] = NoOrders]
  /\ UNCHANGED <<catalogue, status, items, placing>>

Sum(r, rows) ==
  report' = [report EXCEPT ![r] = [step |-> "done", counted |-> @.counted,
                                   summed |-> rows, moved |-> @.moved]]

SumRevenue(r) ==
  /\ report[r].step = "counted"
  /\ Sum(r, RowsOf(items, EarningOrders))
  /\ UNCHANGED <<catalogue, status, items, placing, read>>

-----------------------------------------------------------------------------
Stock ==
  \/ \E list \in PriceLists : StartSeed(list)
  \/ UpsertProduct \/ SeedFails
  \/ \E p \in Product : Deactivate(p)

Place(o) ==
  \/ Arrive(o) \/ AskPrices(o) \/ InsertOrder(o) \/ InsertItem(o)
  \/ Commit(o) \/ Abort(o) \/ MoveOrder(o)

Read(r) ==
  \/ \E u \in Customer \cup {Staff} :
       \/ \E o \in Order : FindById(r, u, o)
       \/ \E s \in OrderStatus : FindByStatus(r, u, s)
  \/ ReadItems(r)
  \/ CountByStatus(r) \/ SumRevenue(r)

Next ==
  \/ Stock
  \/ \E o \in Order : Place(o)
  \/ \E r \in Reader : Read(r)

Spec == Init /\ [][Next]_vars

-----------------------------------------------------------------------------
(***************************************************************************)
(* Properties                                                              *)
(***************************************************************************)
Item == [product : Product, quantity : 1..500, unitPrice : Nat \ {NotListed}]

TypeOK ==
  /\ price \in [Product -> Nat] /\ inactive \subseteq Product
  /\ seed \in [DOMAIN seed -> Nat] /\ DOMAIN seed \subseteq Product
  /\ status \in [Order -> OrderStatus \cup {Absent}]
  /\ items \in [Order -> SUBSET Item] /\ sale \in [Order -> SUBSET Item]
  /\ step \in [Order -> {"unsent", "arrived", "priced", "inserting", "done"}]
  /\ staged \in [Order -> SUBSET Item] /\ \A o \in Order : staged[o] \subseteq sale[o]
  /\ read \in [Reader -> [user : Customer \cup {Staff}, rows : SUBSET Order,
                          told : SUBSET [order : Order, lines : SUBSET Item]]]
  /\ report \in [Reader -> [step : {"counted", "done"}, counted : SUBSET Order,
                            summed : SUBSET (Order \X Item), moved : SUBSET Order]]

\* Prices come from the catalogue (openapi.yaml:113), all of an order from the
\* catalogue of one moment after the request arrived, although the seed script
\* replaces them one by one.
QuotedTogether ==
  \A o \in Order : step[o] = "priced" =>
    \E offer \in offers[o] :
      /\ DOMAIN CartOf[o] \subseteq DOMAIN offer
      /\ sale[o] = {Line(o, p, offer[p]) : p \in DOMAIN CartOf[o]}

\* Whoever reads an order, whenever and in however many statements, is told the
\* complete items it was sold with, whatever became of the catalogue since
\* ("Order items are a snapshot", README.md:383), and a customer is told of his
\* own orders only (openapi.yaml:168).
ToldTheSale ==
  \A r \in Reader : \A t \in read[r].told :
    /\ t.lines = sale[t.order] /\ t.lines # {}
    /\ read[r].user \in {Staff, CustomerOf[t.order]}

\* The two statements of a report disagree about the orders placed or moved
\* between them, and about nothing else: the revenue is that of orders counted
\* as earning and of moved ones, each in full or not at all.
ReportAgrees ==
  \A r \in Reader :
    LET told == report[r]
    IN  told.step = "done" =>
          \E moved \in SUBSET told.moved :
            told.summed = RowsOf(sale, (told.counted \ told.moved) \cup moved)

=============================================================================
