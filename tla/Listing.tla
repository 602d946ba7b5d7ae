------------------------------- MODULE Listing -------------------------------
(***************************************************************************)
(* What a page of products or of orders consists of: the queries of        *)
(* ProductsRepository and OrdersRepository and their pagination.           *)
(*                                                                         *)
(* A parameter of a request is the set of values it lets through.          *)
(***************************************************************************)
EXTENDS Integers, Sequences, SequencesExt

\* PaginationParams and PaginatedResponse.
Offset(size, num)       == size * (num - 1)
LastPage(total, size)   == (total + size - 1) \div size
OnPage(i, size, num)    == Offset(size, num) < i /\ i <= Offset(size, num) + size

Slice(list, size, num) ==
  LET end == Offset(size, num) + size
  IN SubSeq(list, Offset(size, num) + 1, IF end < Len(list) THEN end ELSE Len(list))

-----------------------------------------------------------------------------
\* filter_paginated_list.  A product has the time of its creation, which all products of a
\* transaction share, its prices by region, and the state of its deal.

Discounted(product) == product.deal # "over" /\ product.discount > 0

Fits(product, params) ==
  /\ Discounted(product) \in params.discounted
  /\ product.in_stock \in params.in_stock
  /\ product.platform \in params.platforms

Regions(product) == DOMAIN product.prices

\* A line of the result: to sort by price joins the prices of all regions, and a product
\* comes once for each.
Lines(products, params) ==
  IF params.price_ordering = "none"
  THEN {[product |-> p, price |-> 0] : p \in products}
  ELSE UNION {{[product |-> p, price |-> p.prices[r]] : r \in Regions(p)} : p \in products}

\* The newest come first; the price decides among those of one transaction only.
Before(x, y, params) ==
  \/ x.product.created_at > y.product.created_at
  \/ /\ x.product.created_at = y.product.created_at
     /\ \/ params.price_ordering = "asc"  /\ x.price < y.price
        \/ params.price_ordering = "desc" /\ x.price > y.price

\* Results that the database may give: lines that are equal in the order come in any.
Results(products, params) ==
  {result \in SetToSeqs(Lines({p \in products : Fits(p, params)}, params)) :
     \A i, j \in DOMAIN result : i < j => ~Before(result[j], result[i], params)}

\* Products without a price in the regions asked for are dropped, then the page is cut out.
Priced(result, params) ==
  SelectSeq(result, LAMBDA line : Regions(line.product) \cap params.regions # {})

ProductsPage(result, params) ==
  [objects       |-> Slice(Priced(result, params), params.page_size, params.page_num),
   total_records |-> Len(Priced(result, params))]

-----------------------------------------------------------------------------
\* list_orders.

Asked(order, params) ==
  /\ order.category \in params.categories
  /\ order.user_id \in params.users
  /\ order.status \in params.statuses

\* list_orders_for_user: the user is the one who asks, whatever the query says.
ForUser(params, user_id) == [params EXCEPT !.users = {user_id}]

\* By date; orders of one time come in any order.
OrderResults(orders, params) ==
  {result \in SetToSeqs({o \in orders : Asked(o, params)}) :
     \A i, j \in DOMAIN result : i < j =>
       IF params.date_ordering = "asc" THEN result[i].order_date <= result[j].order_date
                                       ELSE result[i].order_date >= result[j].order_date}

\* The database cuts out the page and counts: no line, no count.

OrdersPage(orders, size, num) ==
  LET page == Slice(orders, size, num)
  IN [objects |-> page, total_records |-> IF page = <<>> THEN 0 ELSE Len(orders)]
=============================================================================
