------------------------------- MODULE Samples -------------------------------
(***************************************************************************)
(* The operators of Pricing, Listing and Errors over bounded inputs.       *)
(***************************************************************************)
EXTENDS Pricing, Listing, Errors

Cents == 0 .. 1200

\* Mutual check of the table of _calc_for_us with test_price_calculator.py: the percents on
\* both sides of each limit.
ASSUME UsPercentsAreTested ==
  \A t \in {<<2990, 120>>, <<3000, 70>>, <<4990, 70>>, <<5000, 40>>, <<8990, 40>>, <<9000, 35>>,
            <<12990, 35>>, <<13000, 28>>, <<19990, 28>>, <<20000, 25>>, <<29990, 25>>,
            <<30000, 23>>, <<34990, 23>>, <<35000, 22>>} :
    Tier(UsTiers, 20, t[1]) = t[2]

\* A dearer game may be the cheaper one to buy, where it passes a limit.
ASSUME UsPriceMayFall ==
  \E p \in Cents : CalcForUs(p + 1, FALSE)[1] < CalcForUs(p, FALSE)[1]

ASSUME UsPriceFallsLittleHere ==
  \A p \in 300 .. 700, q \in 300 .. 700, withGp \in BOOLEAN :
    p <= q => 22 * CalcForUs(q, withGp)[1] >= 17 * CalcForUs(p, withGp)[1]

ASSUME ArPriceRisesHere == \A p \in Cents : CalcForAr(p)[1] <= CalcForAr(p + 1)[1]

ASSUME RoundingIsNearest ==
  \A n \in 0 .. 60, d \in 1 .. 12 :
    /\ \A m \in {RoundHalfEven(n, d), RoundHalfUp(n, d)}, k \in 0 .. 61 :
         LET Off(x) == IF d * x > n THEN d * x - n ELSE n - d * x IN Off(m) <= Off(k)
    /\ 2 * (n % d) = d => RoundHalfEven(n, d) % 2 = 0 /\ RoundHalfUp(n, d) * d > n

ASSUME GiftIsChargedAsShownHere ==
  \A base \in 0 .. 130, discount \in 0 .. 100 :
    \A charged \in TotalPrice(base, discount, FALSE) :
      100 * charged - DiscountedPrice(base, discount) \in -50 .. 50

\* Two products in one order, of roubles and half roubles.
ASSUME BillIsSumOfPrices ==
  \A a, b \in {0, 50, 149, 150, 151, 250}, m, n \in 1 .. 3 :
    LET total == InAppTotal(<<[price |-> 100 * a, quantity |-> m], [price |-> 100 * b, quantity |-> n]>>)
    IN /\ total = 100 * (a * m + b * n)
       /\ 2 * (Bill(total) - (m * Shown(a, 0) + n * Shown(b, 0))) \in (0 - (m + n + 1)) .. (m + n + 1)

-----------------------------------------------------------------------------
Sample(created, deal, discount, prices) ==
  [created_at |-> created, deal |-> deal, discount |-> discount, in_stock |-> TRUE,
   platform |-> "xbox", prices |-> prices]

Old    == Sample(1, "running", 10, [r \in {"us"} |-> 3])
New    == Sample(2, "over", 10, [r \in {"us", "tr"} |-> IF r = "us" THEN 2 ELSE 1])
Newer  == Sample(2, "none", 0, [r \in {"us"} |-> 5])
NoPrice == Sample(2, "none", 10, [r \in {} |-> 0])

Params(ordering, regions) ==
  [discounted |-> BOOLEAN, in_stock |-> BOOLEAN, platforms |-> {"xbox"}, regions |-> regions,
   price_ordering |-> ordering, page_size |-> 2, page_num |-> 1]

Listed(products, params) == {Priced(r, params) : r \in Results(products, params)}

\* A product whose deal is over, or has none, is not discounted; one without an end is.
ASSUME DiscountedNeedsRunningDeal ==
  Discounted(Old) /\ ~Discounted(New) /\ ~Discounted(Newer) /\ Discounted(NoPrice)

\* Unsorted, each product with a price comes once.
ASSUME EachComesOnce ==
  \A r \in Listed({Old, New, Newer, NoPrice}, Params("none", {"us", "tr"})) :
    IsInjective(r) /\ {r[i].product : i \in DOMAIN r} = {Old, New, Newer}

\* Sorted by price, an older product comes last all the same, and one with two prices twice.
ASSUME PriceIsSecondary ==
  \A r \in Listed({Old, New, Newer}, Params("asc", {"us", "tr"})) :
    [i \in DOMAIN r |-> r[i].product] = <<New, New, Newer, Old>>

\* Pages put together are the list, whatever the size of a page.
ASSUME PagesMakeTheList ==
  \A total \in 0 .. 9, size \in 1 .. 4 :
    LET list == [i \in 1 .. total |-> i]
    IN FlattenSeq([num \in 1 .. LastPage(total, size) |-> Slice(list, size, num)]) = list

\* Beyond the last page orders are not even counted.
ASSUME NothingBeyond ==
  \A total \in 1 .. 5 :
    OrdersPage([i \in 1 .. total |-> i], 2, LastPage(total, 2) + 1) = [objects |-> <<>>, total_records |-> 0]

-----------------------------------------------------------------------------
AnOrder(id, user, category, status, date) ==
  [id |-> id, user_id |-> user, category |-> category, status |-> status, order_date |-> date]

Orders == {AnOrder(1, 7, "IN_APP", "PENDING", 1), AnOrder(2, 7, "STEAM_GIFT", "COMPLETED", 2),
           AnOrder(3, 8, "IN_APP", "COMPLETED", 2), AnOrder(4, 7, "IN_APP", "COMPLETED", 2)}

AllOrders == [categories |-> {"IN_APP", "STEAM_TOP_UP", "STEAM_GIFT"}, users |-> {7, 8},
              statuses |-> {"PENDING", "COMPLETED", "FAILED"}, date_ordering |-> "desc"]

\* A user is shown all of the user's own orders, the newest first, and no other.
ASSUME OwnOrdersOnly ==
  \A r \in OrderResults(Orders, ForUser(AllOrders, 7)) :
    Len(r) = 3 /\ r[3].id = 1 /\ {r[i].id : i \in 1 .. 2} = {2, 4}

\* Nothing decides between orders of one time: pages asked for one after the other may show
\* an order twice and another never.
ASSUME PagesMayRepeat ==
  \E r1, r2 \in OrderResults(Orders, AllOrders) :
    /\ OrdersPage(r1, 2, 1).objects[1] = OrdersPage(r2, 2, 2).objects[1]
    /\ \E o \in Orders : \A i \in 1 .. 2 : o # OrdersPage(r1, 2, 1).objects[i] /\ o # OrdersPage(r2, 2, 2).objects[i]

-----------------------------------------------------------------------------
\* Every method that looks for a row answers with a status of its own when it is missing.
ASSUME MissingIsAnswered ==
  /\ \A method \in {GetProduct, UpdateProduct, DeleteProduct, GetNews, UpdateNews, DeleteNews,
                    UpdateOrder, DeleteOrder, GetOrder, ResendToken, ResetPassword, GetUser, RemoveFromCart} :
       Answer(method, "NotFoundError") = [status |-> 404, detail |-> "EntityNotFoundError", support |-> FALSE]
  /\ \A method \in {Signin, ActivateUser, UpdatePassword} : Answer(method, "NotFoundError").status = 401

ASSUME DuplicateIsAnswered ==
  \A method \in {CreateProduct, UpdateProduct} : Answer(method, "UniqueViolation").status = 409

\* The clause for OperationRestrictedByRefError is never reached: to delete a product that
\* orders refer to is an unknown error, of which support is told, and not a 403.
ASSUME ReferencedIsUnknown ==
  /\ Handle("EntityOperationRestrictedByRefError").status = 403
  /\ Map("StillReferenced") = "OperationRestrictedByRefError"
  /\ Answer(DeleteProduct, "StillReferenced").status = 500 /\ Answer(DeleteProduct, "StillReferenced").support

\* So is the e-mail of another user, when it is confirmed.
ASSUME TakenEmailIsUnknown == Answer(ConfirmEmail, "UniqueViolation").status = 500

\* ActionForbiddenError has no status: a payment that is notified twice is answered 500.
ASSUME ForbiddenIsUnknown == Handle("ActionForbiddenError").status = 500

\* A gateway that cannot be reached has a status: support is not told.
ASSUME GatewayIsKnown ==
  Handle(LogRequest("RequestError")) = [status |-> 500, detail |-> "Internal server error.", support |-> FALSE]

\* No unknown error is answered with anything but 500, and none of those tells the client more.
ASSUME UnknownIsServerError ==
  \A e \in ServiceErrors \cup DatabaseErrors \cup DriverErrors :
    /\ ~HasStatus(e) => Handle(e).status = 500
    /\ Handle(e).status = 500 => Handle(e).detail = "Internal server error."
=============================================================================
