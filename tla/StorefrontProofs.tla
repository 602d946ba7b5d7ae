-------------------------- MODULE StorefrontProofs --------------------------
(***************************************************************************)
(* What the writers of the table product do to each other, for any number  *)
(* of them: the invariants of Catalogue and Rates, as parts of Storefront. *)
(***************************************************************************)
EXTENDS CacheProofs, FiniteSetTheorems

\* A transaction that is over, or not yet begun, holds no row.
ClosedHoldNothing == \A t \in Transactions : state[t] \notin Open => Written(t) = {}

\* No row is held twice.
Exclusive == \A t, u \in Transactions : t # u => Written(t) \cap Written(u) = {}

\* Rows that a sweep holds are still those it looks for.
SweptMatch == \A t \in Transactions :
  state[t] = "sweep" => \A p \in Written(t) : Matches(t, product[p])

\* Rows that a script fills in are there.
DetailedArePresent == \A t \in Transactions :
  state[t] = "details" => \A p \in Written(t) : Present(p)

\* Rows of administrators are there and count as theirs, also as transactions will leave them.
Theirs(row) == row # NoRow /\ ~row.parsed

ManualAreTheirs == \A p \in manual :
  /\ Theirs(product[p])
  /\ \A t \in Transactions : p \in Written(t) => Theirs(image[t][p])

RowsInv ==
  /\ CatalogueTypeOK
  /\ ClosedHoldNothing
  /\ Exclusive
  /\ SweptMatch
  /\ DetailedArePresent
  /\ ManualAreTheirs

-----------------------------------------------------------------------------
LEMMA ImagesHoldRows ==
  ASSUME NEW i \in Images
  PROVE  /\ DOMAIN i \subseteq Products
         /\ \A p \in DOMAIN i : i[p] \in Row \cup {NoRow}
  BY DEF Images

LEMMA NothingIsImage == Nothing \in Images /\ DOMAIN Nothing = {}
  <1>1. Nothing \in [{} -> Row \cup {NoRow}]
    BY DEF Nothing
  <1>2. QED
    BY <1>1 DEF Images, Nothing

\* What the columns of a row may become.
LEMMA RowFields ==
  ASSUME NEW row \in Row, NEW discount \in {0, 1}, NEW deal \in {"none", "running", "over"}
  PROVE  /\ [row EXCEPT !.discount = discount, !.deal = deal] \in Row
         /\ [row EXCEPT !.discount = discount, !.deal = deal].parsed = row.parsed
         /\ [row EXCEPT !.deal = deal] \in Row
         /\ [row EXCEPT !.deal = deal].parsed = row.parsed
         /\ [row EXCEPT !.deal = deal].discount = row.discount
         /\ [row EXCEPT !.deal = deal].deal = deal
  BY DEF Row

\* The rows a script or a loop starts with.
LEMMA OrdersAreSequences ==
  ASSUME CatalogueAssumption, NEW rows \in SUBSET Products, NEW order \in SetToSeqs(rows)
  PROVE  order \in Seq(Products)
  <1>1. IsFiniteSet(rows)
    BY FS_Subset DEF CatalogueAssumption
  <1>2. Cardinality(rows) \in Nat
    BY <1>1, FS_CardinalityType
  <1>3. order \in [1 .. Cardinality(rows) -> rows]
    BY DEF SetToSeqs
  <1>4. QED
    BY <1>2, <1>3

-----------------------------------------------------------------------------
LEMMA InitRowsInv ==
  ASSUME CatalogueAssumption, CatalogueInit
  PROVE  RowsInv
  <1>1. [parsed |-> FALSE, discount |-> 0, deal |-> "none"] \in Row
    BY DEF Row
  <1>2. CatalogueTypeOK
    <2>1. product \in [Products -> Row \cup {NoRow}]
      BY <1>1 DEF CatalogueInit
    <2>2. todo \in [Transactions -> Seq(Products)] /\ image \in [Transactions -> Images]
      BY NothingIsImage DEF CatalogueInit
    <2>3. QED
      BY <2>1, <2>2 DEF CatalogueInit, CatalogueTypeOK, CatalogueAssumption
  <1>3. \A t \in Transactions : Written(t) = {} /\ state[t] = "idle"
    BY NothingIsImage DEF CatalogueInit, Written
  <1>4. \A p \in manual : Theirs(product[p])
    BY <1>1 DEF CatalogueInit, CatalogueAssumption, Theirs
  <1>5. QED
    BY <1>2, <1>3, <1>4
       DEF RowsInv, ClosedHoldNothing, Exclusive, SweptMatch, DetailedArePresent, ManualAreTheirs

\* A transaction begins.
LEMMA BeginKeeps ==
  ASSUME RowsInv, NEW t \in Transactions, NEW kind \in Open, NEW rows \in Seq(Products),
         Begin(t, kind, rows)
  PROVE  RowsInv'
  <1>1. /\ UNCHANGED <<product, referenced, image, edited, restarts, manual>>
        /\ state[t] = "idle" /\ state'[t] = kind
        /\ state' \in [Transactions -> Open \cup {"idle", "done", "dead"}]
        /\ todo' \in [Transactions -> Seq(Products)]
        /\ \A u \in Transactions \ {t} : state'[u] = state[u]
    BY DEF Begin, RowsInv, CatalogueTypeOK, Open
  <1>2. CatalogueTypeOK'
    BY <1>1 DEF RowsInv, CatalogueTypeOK
  <1>3. Written(t) = {} /\ \A u \in Transactions : Written(u)' = Written(u)
    BY <1>1 DEF RowsInv, ClosedHoldNothing, Open, Written
  <1>4. ClosedHoldNothing' /\ Exclusive'
    BY <1>1, <1>3 DEF RowsInv, ClosedHoldNothing, Exclusive
  <1>5. SweptMatch'
    BY <1>1, <1>3 DEF RowsInv, SweptMatch, Matches
  <1>6. DetailedArePresent' /\ ManualAreTheirs'
    BY <1>1, <1>3 DEF RowsInv, DetailedArePresent, Present, ManualAreTheirs, Theirs
  <1>7. QED
    BY <1>2, <1>4, <1>5, <1>6 DEF RowsInv

\* What taking a row leaves alone, and that nobody else holds it.
LEMMA TakeFrame ==
  ASSUME CatalogueTypeOK, NEW t \in Transactions, NEW kind \in Open, NEW p \in Products,
         Take(t, kind, p)
  PROVE  /\ UNCHANGED <<product, referenced, state, edited, restarts, manual>>
         /\ state[t] = kind
         /\ todo' \in [Transactions -> Seq(Products)]
         /\ \A u \in Transactions \ {t} : p \notin Written(u)
  <1>1. todo[t] \in Seq(Products) /\ todo[t] # <<>>
    BY DEF Take, CatalogueTypeOK
  <1>2. Tail(todo[t]) \in Seq(Products)
    BY <1>1
  <1>3. todo' \in [Transactions -> Seq(Products)]
    BY <1>2 DEF Take, CatalogueTypeOK
  <1>4. \A u \in Transactions \ {t} : p \notin Written(u)
    BY DEF Take, Waiting, Holder
  <1>5. QED
    BY <1>3, <1>4 DEF Take

LEMMA WriteFrame ==
  ASSUME CatalogueTypeOK, NEW t \in Transactions, NEW p \in Products, NEW row \in Row \cup {NoRow},
         WriteRow(t, p, row)
  PROVE  /\ image' \in [Transactions -> Images]
         /\ Written(t)' = Written(t) \cup {p}
         /\ image'[t][p] = row
         /\ \A x \in Written(t) \ {p} : image'[t][x] = image[t][x]
         /\ \A u \in Transactions \ {t} : image'[u] = image[u] /\ Written(u)' = Written(u)
  <1> DEFINE new == [x \in Written(t) \cup {p} |-> IF x = p THEN row ELSE image[t][x]]
  <1>1. image[t] \in Images
    BY DEF CatalogueTypeOK
  <1>2. new \in [Written(t) \cup {p} -> Row \cup {NoRow}] /\ Written(t) \cup {p} \subseteq Products
    BY <1>1, ImagesHoldRows DEF Written
  <1>3. new \in Images
    BY <1>2 DEF Images
  <1>4. image' = [image EXCEPT ![t] = new]
    BY DEF WriteRow
  <1>5. image'[t] = new /\ \A u \in Transactions \ {t} : image'[u] = image[u]
    BY <1>4 DEF CatalogueTypeOK
  <1>6. image' \in [Transactions -> Images]
    BY <1>3, <1>4 DEF CatalogueTypeOK
  <1>7. QED
    BY <1>5, <1>6 DEF Written

\* A row is passed over.
LEMMA SkipKeeps ==
  ASSUME RowsInv, NEW t \in Transactions, NEW kind \in Open, NEW p \in Products,
         Take(t, kind, p), UNCHANGED image
  PROVE  RowsInv'
  <1>1. /\ UNCHANGED <<product, referenced, state, edited, restarts, manual>>
        /\ todo' \in [Transactions -> Seq(Products)]
    BY TakeFrame DEF RowsInv
  <1>2. CatalogueTypeOK'
    BY <1>1 DEF RowsInv, CatalogueTypeOK
  <1>3. \A u \in Transactions : Written(u)' = Written(u)
    BY DEF Written
  <1>4. ClosedHoldNothing' /\ Exclusive' /\ SweptMatch'
    BY <1>1, <1>3 DEF RowsInv, ClosedHoldNothing, Exclusive, SweptMatch, Matches
  <1>5. DetailedArePresent' /\ ManualAreTheirs'
    BY <1>1, <1>3 DEF RowsInv, DetailedArePresent, Present, ManualAreTheirs, Theirs
  <1>6. QED
    BY <1>2, <1>4, <1>5 DEF RowsInv

\* A row is taken and written.
LEMMA WriteKeeps ==
  ASSUME RowsInv, NEW t \in Transactions, NEW kind \in Open, NEW p \in Products,
         NEW row \in Row \cup {NoRow},
         Take(t, kind, p), WriteRow(t, p, row),
         kind = "sweep" => Matches(t, product[p]),
         kind = "details" => Present(p),
         p \in manual => Theirs(row)
  PROVE  RowsInv'
  <1>1. /\ UNCHANGED <<product, referenced, state, edited, restarts, manual>>
        /\ state[t] = kind
        /\ todo' \in [Transactions -> Seq(Products)]
        /\ \A u \in Transactions \ {t} : p \notin Written(u)
    BY TakeFrame DEF RowsInv
  <1>2. /\ image' \in [Transactions -> Images]
        /\ Written(t)' = Written(t) \cup {p}
        /\ image'[t][p] = row
        /\ \A x \in Written(t) \ {p} : image'[t][x] = image[t][x]
        /\ \A u \in Transactions \ {t} : image'[u] = image[u] /\ Written(u)' = Written(u)
    BY WriteFrame DEF RowsInv
  <1>3. CatalogueTypeOK'
    BY <1>1, <1>2 DEF RowsInv, CatalogueTypeOK
  <1>4. ClosedHoldNothing'
    BY <1>1, <1>2 DEF RowsInv, ClosedHoldNothing
  <1>5. Exclusive'
    BY <1>1, <1>2 DEF RowsInv, Exclusive
  <1>6. SweptMatch'
    <2>1. \A u \in Transactions, x \in Products : Matches(u, product[x])' <=> Matches(u, product[x])
      BY <1>1 DEF Matches
    <2>2. ASSUME NEW u \in Transactions, state[u] = "sweep", NEW x \in Written(u)'
          PROVE  Matches(u, product[x])'
      BY <1>1, <1>2, <2>2 DEF RowsInv, SweptMatch, Matches
    <2>3. QED
      BY <1>1, <2>2 DEF SweptMatch
  <1>7. DetailedArePresent'
    BY <1>1, <1>2 DEF RowsInv, DetailedArePresent, Present
  <1>8. ManualAreTheirs'
    BY <1>1, <1>2 DEF RowsInv, ManualAreTheirs, Theirs
  <1>9. QED
    BY <1>3, <1>4, <1>5, <1>6, <1>7, <1>8 DEF RowsInv

\* What the end of a transaction leaves.
LEMMA LeaveFrame ==
  ASSUME CatalogueTypeOK, NEW t \in Transactions, NEW to \in {"idle", "done", "dead"}, Leave(t, to)
  PROVE  /\ UNCHANGED <<referenced, edited, restarts, manual>>
         /\ state' \in [Transactions -> Open \cup {"idle", "done", "dead"}]
         /\ todo' \in [Transactions -> Seq(Products)]
         /\ image' \in [Transactions -> Images]
         /\ state'[t] \notin Open /\ Written(t)' = {}
         /\ \A u \in Transactions \ {t} :
              state'[u] = state[u] /\ image'[u] = image[u] /\ Written(u)' = Written(u)
  <1>1. /\ image' = [image EXCEPT ![t] = Nothing]
        /\ image'[t] = Nothing /\ \A u \in Transactions \ {t} : image'[u] = image[u]
    BY DEF Leave, CatalogueTypeOK
  <1>2. image' \in [Transactions -> Images]
    BY <1>1, NothingIsImage DEF CatalogueTypeOK
  <1>3. /\ state' \in [Transactions -> Open \cup {"idle", "done", "dead"}]
        /\ state'[t] \notin Open
        /\ \A u \in Transactions \ {t} : state'[u] = state[u]
    BY DEF Leave, CatalogueTypeOK, Open
  <1>4. todo' \in [Transactions -> Seq(Products)]
    BY DEF Leave, CatalogueTypeOK
  <1>5. QED
    BY <1>1, <1>2, <1>3, <1>4, NothingIsImage DEF Leave, Written

\* With its writes or without them.
LEMMA LeaveKeeps ==
  ASSUME RowsInv, NEW t \in Transactions, NEW to \in {"idle", "done", "dead"}, Leave(t, to),
         \/ UNCHANGED product
         \/ product' = [p \in Products |-> IF p \in Written(t) THEN image[t][p] ELSE product[p]]
  PROVE  RowsInv'
  <1>1. /\ UNCHANGED <<referenced, edited, restarts, manual>>
        /\ state' \in [Transactions -> Open \cup {"idle", "done", "dead"}]
        /\ todo' \in [Transactions -> Seq(Products)]
        /\ image' \in [Transactions -> Images]
        /\ state'[t] \notin Open /\ Written(t)' = {}
        /\ \A u \in Transactions \ {t} :
             state'[u] = state[u] /\ image'[u] = image[u] /\ Written(u)' = Written(u)
    BY LeaveFrame DEF RowsInv
  <1>2. /\ product' \in [Products -> Row \cup {NoRow}]
        /\ \A p \in Products : product'[p] = product[p] \/ (p \in Written(t) /\ product'[p] = image[t][p])
    <2>1. image[t] \in Images /\ product \in [Products -> Row \cup {NoRow}]
      BY DEF RowsInv, CatalogueTypeOK
    <2>2. \A p \in Written(t) : image[t][p] \in Row \cup {NoRow}
      BY <2>1, ImagesHoldRows DEF Written
    <2>3. QED
      BY <2>1, <2>2
  <1>3. CatalogueTypeOK'
    BY <1>1, <1>2 DEF RowsInv, CatalogueTypeOK
  <1>4. ClosedHoldNothing' /\ Exclusive'
    BY <1>1 DEF RowsInv, ClosedHoldNothing, Exclusive
  <1>5. ASSUME NEW u \in Transactions \ {t}, NEW p \in Written(u)
        PROVE  p \in Products /\ product'[p] = product[p]
    <2>1. p \in Products
      BY ImagesHoldRows DEF RowsInv, CatalogueTypeOK, Written
    <2>2. p \notin Written(t)
      BY DEF RowsInv, Exclusive
    <2>3. QED
      BY <1>2, <2>1, <2>2
  <1>6. SweptMatch'
    BY <1>1, <1>5 DEF RowsInv, SweptMatch, Matches, Open
  <1>7. DetailedArePresent'
    BY <1>1, <1>5 DEF RowsInv, DetailedArePresent, Present, Open
  <1>8. ManualAreTheirs'
    <2>1. manual \subseteq Products
      BY DEF RowsInv, CatalogueTypeOK
    <2>2. ASSUME NEW p \in manual  PROVE Theirs(product'[p])
      BY <1>2, <2>1, <2>2 DEF RowsInv, ManualAreTheirs
    <2>3. ASSUME NEW p \in manual, NEW u \in Transactions, p \in Written(u)'
          PROVE  Theirs(image'[u][p])
      BY <1>1, <2>3 DEF RowsInv, ManualAreTheirs
    <2>4. QED
      BY <1>1, <2>2, <2>3 DEF ManualAreTheirs, Theirs
  <1>9. QED
    BY <1>3, <1>4, <1>6, <1>7, <1>8 DEF RowsInv

\* The loops forget what they hold.
LEMMA RestartKeeps ==
  ASSUME CatalogueAssumption, RowsInv, Restart
  PROVE  RowsInv'
  <1>1. /\ UNCHANGED <<product, referenced, edited, manual>> /\ restarts' \in 0 .. MaxRestarts
        /\ state' \in [Transactions -> Open \cup {"idle", "done", "dead"}]
        /\ todo' \in [Transactions -> Seq(Products)]
        /\ image' \in [Transactions -> Images]
    <2>1. restarts' \in 0 .. MaxRestarts
      BY DEF Restart, RowsInv, CatalogueTypeOK, CatalogueAssumption
    <2>2. todo' \in [Transactions -> Seq(Products)]
      BY DEF Restart, RowsInv, CatalogueTypeOK
    <2>3. image' \in [Transactions -> Images]
      BY NothingIsImage DEF Restart, RowsInv, CatalogueTypeOK
    <2>4. state' \in [Transactions -> Open \cup {"idle", "done", "dead"}]
      BY DEF Restart, RowsInv, CatalogueTypeOK
    <2>5. QED
      BY <2>1, <2>2, <2>3, <2>4 DEF Restart
  <1>2. CatalogueTypeOK'
    BY <1>1 DEF RowsInv, CatalogueTypeOK
  <1>3. ASSUME NEW t \in Transactions
        PROVE  \/ Written(t)' = {} /\ state'[t] = "idle"
               \/ image'[t] = image[t] /\ Written(t)' = Written(t) /\ state'[t] = state[t]
    BY NothingIsImage DEF Restart, Written
  <1>4. ClosedHoldNothing' /\ Exclusive'
    BY <1>3 DEF RowsInv, ClosedHoldNothing, Exclusive
  <1>5. SweptMatch'
    BY <1>1, <1>3 DEF RowsInv, SweptMatch, Matches
  <1>6. DetailedArePresent'
    BY <1>1, <1>3 DEF RowsInv, DetailedArePresent, Present
  <1>7. ManualAreTheirs'
    BY <1>1, <1>3 DEF RowsInv, ManualAreTheirs, Theirs
  <1>8. QED
    BY <1>2, <1>4, <1>5, <1>6, <1>7 DEF RowsInv

\* A row that nobody holds is changed, or one that is held in a way that matters to nobody.
LEMMA RowChangeKeeps ==
  ASSUME RowsInv, NEW p \in Products, NEW row \in Row \cup {NoRow},
         product' = [product EXCEPT ![p] = row],
         UNCHANGED <<state, todo, image>>,
         referenced' \subseteq Products, edited' \subseteq Edits, restarts' = restarts,
         manual' \subseteq manual \cup {p},
         p \in manual' => Theirs(row),
         \A t \in Transactions : p \in Written(t) =>
           /\ Matches(t, product[p]) => Matches(t, row)
           /\ row # NoRow
           /\ p \in manual' => Theirs(image[t][p])
  PROVE  RowsInv'
  <1>1. /\ product' \in [Products -> Row \cup {NoRow}]
        /\ product'[p] = row /\ \A x \in Products \ {p} : product'[x] = product[x]
        /\ \A t \in Transactions : Written(t)' = Written(t)
    BY DEF RowsInv, CatalogueTypeOK, Written
  <1>2. manual \subseteq Products /\ \A t \in Transactions : Written(t) \subseteq Products
    BY ImagesHoldRows DEF RowsInv, CatalogueTypeOK, Written
  <1>3. CatalogueTypeOK'
    BY <1>1, <1>2 DEF RowsInv, CatalogueTypeOK
  <1>4. ClosedHoldNothing' /\ Exclusive'
    BY <1>1 DEF RowsInv, ClosedHoldNothing, Exclusive
  <1>5. SweptMatch'
    <2>1. ASSUME NEW t \in Transactions, state[t] = "sweep", NEW x \in Written(t)
          PROVE  Matches(t, product'[x])
      <3>1. Matches(t, product[x]) /\ x \in Products
        BY <1>2, <2>1 DEF RowsInv, SweptMatch
      <3>2. CASE x = p
        BY <1>1, <3>1, <3>2
      <3>3. CASE x # p
        <4>1. product'[x] = product[x]
          BY <1>1, <3>1, <3>3
        <4>2. QED
          BY <3>1, <4>1
      <3>4. QED
        BY <3>2, <3>3
    <2>2. QED
      BY <1>1, <2>1 DEF SweptMatch, Matches
  <1>6. DetailedArePresent'
    BY <1>1, <1>2 DEF RowsInv, DetailedArePresent, Present
  <1>7. ManualAreTheirs'
    BY <1>1, <1>2 DEF RowsInv, ManualAreTheirs, Theirs
  <1>8. QED
    BY <1>3, <1>4, <1>5, <1>6, <1>7 DEF RowsInv

\* What leaves all rows and transactions alone.
LEMMA OthersKeep ==
  ASSUME RowsInv, UNCHANGED <<product, transaction, manual>>,
         referenced' \subseteq Products, edited' \subseteq Edits, restarts' = restarts
  PROVE  RowsInv'
  <1>1. UNCHANGED <<product, state, todo, image, manual>>
    BY DEF transaction
  <1>2. \A t \in Transactions : Written(t)' = Written(t)
    BY <1>1 DEF Written
  <1>3. CatalogueTypeOK'
    BY <1>1 DEF RowsInv, CatalogueTypeOK
  <1>4. ClosedHoldNothing' /\ Exclusive' /\ SweptMatch'
    BY <1>1, <1>2 DEF RowsInv, ClosedHoldNothing, Exclusive, SweptMatch, Matches
  <1>5. DetailedArePresent' /\ ManualAreTheirs'
    BY <1>1, <1>2 DEF RowsInv, DetailedArePresent, Present, ManualAreTheirs, Theirs
  <1>6. QED
    BY <1>3, <1>4, <1>5 DEF RowsInv

-----------------------------------------------------------------------------
\* The steps of scripts and loops.

LEMMA SaveItemKeeps ==
  ASSUME RowsInv, NEW s \in Scripts, NEW p \in Products, SaveItem(s, p)
  PROVE  RowsInv'
  <1>1. Take(s, "save", p) /\ "save" \in Open /\ s \in Transactions
    BY DEF SaveItem, Open, Transactions
  <1>2. ASSUME NEW row \in Parsed(p)
        PROVE  row \in Row
    BY DEF Parsed, Row
  <1>3. CASE InsertRow(s, p)
    <2>1. p \notin manual
      BY <1>3 DEF InsertRow, RowsInv, ManualAreTheirs, Theirs, Present
    <2>2. PICK row \in Parsed(p) : WriteRow(s, p, row)
      BY <1>3 DEF InsertRow
    <2>3. QED
      BY <1>1, <1>2, <2>1, <2>2, WriteKeeps
  <1>4. CASE UpdateDiscount(s, p)
    <2>1. PICK row \in Parsed(p) : WriteRow(s, p, UpsertRow(product[p], row))
      BY <1>4 DEF UpdateDiscount
    <2>2. product[p] \in Row
      BY <1>4 DEF UpdateDiscount, Present, RowsInv, CatalogueTypeOK
    <2>3. row.discount \in {0, 1} /\ row.deal \in {"none", "running", "over"}
      BY <1>2 DEF Row
    <2>4. UpsertRow(product[p], row) \in Row /\ UpsertRow(product[p], row).parsed = product[p].parsed
      BY <2>2, <2>3 DEF UpsertRow, Row
    <2>5. p \in manual => ~product[p].parsed
      BY DEF RowsInv, ManualAreTheirs, Theirs
    <2>6. UpsertRow(product[p], row) # NoRow
      BY <2>4, CatalogueAssumption DEF CatalogueAssumption
    <2>7. QED
      BY <1>1, <2>1, <2>4, <2>5, <2>6, WriteKeeps DEF Theirs
  <1>5. CASE IgnoreConflict(s, p)
    BY <1>1, <1>5, SkipKeeps DEF IgnoreConflict
  <1>6. QED
    BY <1>3, <1>4, <1>5 DEF SaveItem

LEMMA SaveDetailsKeeps ==
  ASSUME RowsInv, NEW s \in Scripts, NEW p \in Products, SaveDetails(s, p)
  PROVE  RowsInv'
  <1>1. Take(s, "details", p) /\ "details" \in Open /\ s \in Transactions
    BY DEF SaveDetails, Open, Transactions
  <1>2. CASE Present(p) /\ product[p].parsed
    <2>1. PICK deal \in {"running", "over"} : WriteRow(s, p, [product[p] EXCEPT !.deal = deal])
      BY <1>2 DEF SaveDetails
    <2>2. product[p] \in Row
      BY <1>2 DEF Present, RowsInv, CatalogueTypeOK
    <2>3. [product[p] EXCEPT !.deal = deal] \in Row
      BY <2>2, RowFields
    <2>4. p \notin manual
      BY <1>2 DEF RowsInv, ManualAreTheirs, Theirs
    <2>5. QED
      BY <1>1, <1>2, <2>1, <2>3, <2>4, WriteKeeps
  <1>3. CASE ~(Present(p) /\ product[p].parsed)
    <2>1. UNCHANGED image
      BY <1>3 DEF SaveDetails
    <2>2. QED
      BY <1>1, <2>1, SkipKeeps
  <1>4. QED
    BY <1>2, <1>3

LEMMA SweepRowKeeps ==
  ASSUME RowsInv, NEW t \in Transactions, NEW p \in Products, SweepRow(t, p)
  PROVE  RowsInv'
  <1>1. Take(t, "sweep", p) /\ "sweep" \in Open
    BY DEF SweepRow, Open
  <1>2. CASE Matches(t, product[p])
    <2>1. WriteRow(t, p, Swept(t, product[p]))
      BY <1>2 DEF SweepRow, StillMatches
    <2>2. product[p] \in Row
      BY <1>2 DEF Matches, RowsInv, CatalogueTypeOK
    <2>3. Swept(t, product[p]) \in Row \cup {NoRow}
      BY <2>2, RowFields DEF Swept
    <2>4. ASSUME p \in manual  PROVE Theirs(Swept(t, product[p]))
      <3>1. ~product[p].parsed
        BY <2>4 DEF RowsInv, ManualAreTheirs, Theirs
      <3>2. t # Clean
        BY <1>2, <3>1 DEF Matches
      <3>3. Swept(t, product[p]) \in Row /\ Swept(t, product[p]).parsed = product[p].parsed
        BY <2>2, <3>2, RowFields DEF Swept
      <3>4. QED
        BY <3>1, <3>3, CatalogueAssumption DEF Theirs, CatalogueAssumption
    <2>5. QED
      BY <1>1, <1>2, <2>1, <2>3, <2>4, WriteKeeps
  <1>3. CASE ~Matches(t, product[p])
    BY <1>1, <1>3, SkipKeeps DEF SweepRow, StillMatches
  <1>4. QED
    BY <1>2, <1>3

LEMMA TransactionsKeep ==
  ASSUME RowsInv, NEW t \in Transactions,
         \/ BeginSweep(t) \/ SweepFails(t) \/ Commit(t) \/ Abort(t)
         \/ t \in Scripts /\ (BeginScript(t) \/ ScriptFails(t))
  PROVE  RowsInv'
  <1>1. CASE BeginSweep(t)
    <2>1. PICK order \in SetToSeqs({p \in Products : Matches(t, product[p])}) : Begin(t, "sweep", order)
      BY <1>1 DEF BeginSweep
    <2>2. order \in Seq(Products)
      BY OrdersAreSequences, CatalogueAssumption
    <2>3. QED
      BY <2>1, <2>2, BeginKeeps DEF Open
  <1>2. CASE BeginScript(t)
    <2>1. PICK kind \in {"save", "details"}, rows \in SUBSET Products :
            \E order \in SetToSeqs(rows) : Begin(t, kind, order)
      BY <1>2 DEF BeginScript
    <2>2. PICK order \in SetToSeqs(rows) : Begin(t, kind, order)
      BY <2>1
    <2>3. order \in Seq(Products)
      BY OrdersAreSequences, CatalogueAssumption
    <2>4. QED
      BY <2>2, <2>3, BeginKeeps DEF Open
  <1>3. CASE SweepFails(t) \/ ScriptFails(t) \/ Abort(t)
    BY <1>3, LeaveKeeps DEF SweepFails, ScriptFails, Abort
  <1>4. CASE Commit(t)
    BY <1>4, LeaveKeeps DEF Commit
  <1>5. QED
    BY <1>1, <1>2, <1>3, <1>4

\* The steps of administrators, of orders and of time.
LEMMA EditsKeep ==
  ASSUME RowsInv, NEW e \in Edits, NEW p \in Products,
         CreateProduct(e, p) \/ UpdateProduct(e, p) \/ DeleteProduct(e, p)
  PROVE  RowsInv'
  <1>1. /\ Unlocked(p) /\ restarts' = restarts
        /\ UNCHANGED <<state, todo, image, referenced>>
        /\ referenced' \subseteq Products /\ edited' \subseteq Edits
    BY DEF CreateProduct, UpdateProduct, DeleteProduct, Edit, transaction, RowsInv, CatalogueTypeOK
  <1>2. CASE CreateProduct(e, p)
    <2>1. PICK discount \in {0, 1}, deal \in {"none", "running"} :
            Edit(e, p, [parsed |-> FALSE, discount |-> discount, deal |-> deal])
      BY <1>2 DEF CreateProduct
    <2> DEFINE row == [parsed |-> FALSE, discount |-> discount, deal |-> deal]
    <2>2. row \in Row /\ ~row.parsed
      BY DEF Row
    <2>3. row # NoRow
      BY <2>2, CatalogueAssumption DEF CatalogueAssumption
    <2>4. product' = [product EXCEPT ![p] = row] /\ manual' = manual \cup {p}
      BY <1>2, <2>1 DEF Edit, CreateProduct
    <2> HIDE DEF row
    <2>5. QED
      BY <1>1, <2>2, <2>3, <2>4, RowChangeKeeps DEF Theirs, Unlocked
  <1>3. CASE UpdateProduct(e, p)
    <2>1. PICK discount \in {0, 1}, deal \in {product[p].deal, "running"} :
            Edit(e, p, [product[p] EXCEPT !.discount = discount, !.deal = deal])
      BY <1>3 DEF UpdateProduct
    <2> DEFINE row == [product[p] EXCEPT !.discount = discount, !.deal = deal]
    <2>2. product[p] \in Row
      BY <1>3 DEF UpdateProduct, Present, RowsInv, CatalogueTypeOK
    <2>3. deal \in {"none", "running", "over"}
      BY <2>2 DEF Row
    <2>4. row \in Row /\ row.parsed = product[p].parsed
      BY <2>2, <2>3 DEF Row
    <2>5. row # NoRow
      BY <2>4, CatalogueAssumption DEF CatalogueAssumption
    <2>6. product' = [product EXCEPT ![p] = row] /\ manual' = manual
      BY <1>3, <2>1 DEF Edit, UpdateProduct
    <2>7. p \in manual => ~product[p].parsed
      BY DEF RowsInv, ManualAreTheirs, Theirs
    <2> HIDE DEF row
    <2>8. QED
      BY <1>1, <2>4, <2>5, <2>6, <2>7, RowChangeKeeps DEF Theirs, Unlocked
  <1>4. CASE DeleteProduct(e, p)
    <2>1. product' = [product EXCEPT ![p] = NoRow] /\ manual' = manual \ {p}
      BY <1>4 DEF DeleteProduct, Edit
    <2>2. QED
      BY <1>1, <2>1, RowChangeKeeps DEF Unlocked
  <1>5. QED
    BY <1>2, <1>3, <1>4

LEMMA DealEndsKeeps ==
  ASSUME RowsInv, NEW p \in Products, DealEnds(p)
  PROVE  RowsInv'
  <1> DEFINE row == [product[p] EXCEPT !.deal = "over"]
  <1>1. product[p] \in Row /\ product[p].deal = "running"
    BY DEF DealEnds, Present, RowsInv, CatalogueTypeOK
  <1>2. /\ row \in Row /\ row.parsed = product[p].parsed /\ row.discount = product[p].discount
        /\ row.deal = "over"
    BY <1>1, RowFields
  <1>3. row # NoRow
    BY <1>2, CatalogueAssumption DEF CatalogueAssumption
  <1>4. product' = [product EXCEPT ![p] = row]
    BY DEF DealEnds
  <1>5. /\ UNCHANGED <<state, todo, image, referenced, edited, restarts, manual>>
        /\ referenced' \subseteq Products /\ edited' \subseteq Edits
    BY DEF DealEnds, transaction, RowsInv, CatalogueTypeOK
  <1> HIDE DEF row
  <1>6. \A t \in Transactions : Matches(t, product[p]) => Matches(t, row)
    BY <1>2, <1>3 DEF Matches
  <1>7. p \in manual => Theirs(row)
    BY <1>2, <1>3 DEF RowsInv, ManualAreTheirs, Theirs
  <1>8. \A t \in Transactions : p \in Written(t) /\ p \in manual => Theirs(image[t][p])
    BY DEF RowsInv, ManualAreTheirs
  <1>9. QED
    BY <1>2, <1>3, <1>4, <1>5, <1>6, <1>7, <1>8, RowChangeKeeps

LEMMA NextRowsInv ==
  ASSUME RowsInv, [CatalogueNext]_catalogueVars
  PROVE  RowsInv'
  <1>1. CASE UNCHANGED catalogueVars
    BY <1>1, OthersKeep DEF catalogueVars, RowsInv, CatalogueTypeOK
  <1>2. ASSUME NEW s \in Scripts, ScriptStep(s)  PROVE RowsInv'
    <2>1. s \in Transactions
      BY DEF Transactions
    <2>2. QED
      BY <1>2, <2>1, TransactionsKeep, SaveItemKeeps, SaveDetailsKeeps, SweepRowKeeps DEF ScriptStep
  <1>3. ASSUME NEW j \in Jobs, JobStep(j)  PROVE RowsInv'
    <2>1. j \in Transactions
      BY DEF Transactions
    <2>2. QED
      BY <1>3, <2>1, TransactionsKeep, SweepRowKeeps DEF JobStep
  <1>4. ASSUME NEW t \in Transactions, Commit(t) \/ Abort(t)  PROVE RowsInv'
    BY <1>4, TransactionsKeep
  <1>5. ASSUME NEW e \in Edits, EditPrices(e)  PROVE RowsInv'
    BY <1>5, OthersKeep DEF EditPrices, RowsInv, CatalogueTypeOK
  <1>6. ASSUME NEW p \in Products, OrderRefers(p) \/ OrderGoes(p)  PROVE RowsInv'
    BY <1>6, OthersKeep DEF OrderRefers, OrderGoes, RowsInv, CatalogueTypeOK
  <1>7. QED
    BY <1>1, <1>2, <1>3, <1>4, <1>5, <1>6, EditsKeep, DealEndsKeeps, RestartKeeps, CatalogueAssumption
       DEF CatalogueNext, EditStep

-----------------------------------------------------------------------------
\* With prices and the cache around it, the catalogue takes no other steps.
LEMMA StepsOfCatalogue ==
  ASSUME [Next]_storefrontVars
  PROVE  [CatalogueNext]_catalogueVars
  <1>1. ASSUME UNCHANGED storefrontVars \/ RatesStep \/ CacheStep  PROVE UNCHANGED catalogueVars
    BY <1>1 DEF storefrontVars, RatesStep, CacheStep
  <1>2. ASSUME NEW s \in Scripts, Start(s) \/ SaveSome(s) \/ CommitScript(s) \/ GiveUp(s)
        PROVE  CatalogueNext \/ RatesStep
    <2>1. CASE Start(s)
      BY <2>1 DEF Start, CatalogueNext, ScriptStep
    <2>2. CASE SaveSome(s)
      BY <2>2 DEF SaveSome, ConvertItem, Save, Detail, CatalogueNext, ScriptStep
    <2>3. CASE CommitScript(s) \/ GiveUp(s)
      BY <2>3 DEF CommitScript, GiveUp, CatalogueNext, ScriptStep, Transactions
    <2>4. QED
      BY <1>2, <2>1, <2>2, <2>3
  <1>3. ASSUME NEW j \in Jobs, Sweep(j) \/ CommitSweep(j) \/ LoopDies(j)
        PROVE  CatalogueNext
    BY <1>3 DEF Sweep, CommitSweep, LoopDies, CatalogueNext, Transactions
  <1>4. ASSUME NEW e \in Edits,
               UpdatePrices(e) \/ \E p \in Products : Create(e, p) \/ Update(e, p) \/ Delete(e, p)
        PROVE  CatalogueNext
    BY <1>4 DEF UpdatePrices, Create, Update, Delete, CatalogueNext, EditStep
  <1>5. ASSUME \/ \E q \in Setters : SetExchangeRate(q)
               \/ \E r \in Readers : Read(r) \/ List(r)
        PROVE  RatesStep \/ CacheStep
    BY <1>5 DEF SetExchangeRate, Read, List
  <1>6. ASSUME NEW p \in Products, OrderOrEnd(p)  PROVE CatalogueNext
    BY <1>6 DEF OrderOrEnd, CatalogueNext
  <1>7. ASSUME PassTime \/ ServerRestarts  PROVE [CatalogueNext]_catalogueVars
    BY <1>7 DEF PassTime, ServerRestarts, CatalogueNext
  <1>8. QED
    BY <1>1, <1>2, <1>3, <1>4, <1>5, <1>6, <1>7 DEF Next

LEMMA RowsInvHolds == Spec => []RowsInv
  <1>1. Init => RowsInv
    BY InitRowsInv, CatalogueAssumption DEF Init
  <1>2. RowsInv /\ [Next]_storefrontVars => RowsInv'
    BY StepsOfCatalogue, NextRowsInv
  <1>3. QED
    BY <1>1, <1>2, PTL DEF Spec

\* Put together with prices, a cache, a clock and restarts, the table product is still
\* written as Catalogue says: what holds of Catalogue holds of Storefront.
THEOREM StorefrontHasCatalogue == Spec => CatalogueInit /\ [][CatalogueNext]_catalogueVars
  <1>1. Init => CatalogueInit
    BY DEF Init
  <1>2. [Next]_storefrontVars => [CatalogueNext]_catalogueVars
    BY StepsOfCatalogue
  <1>3. QED
    BY <1>1, <1>2, PTL DEF Spec

\* Parsers that find it on sale, the reset of its discount and the daily clean-up, in any
\* number and order: none of them makes a product that an administrator has created one
\* that delete_expired_sales deletes.
THEOREM ManualProductsStay == Spec => []ManualStays
  <1>1. RowsInv => ManualStays
    BY DEF RowsInv, ManualAreTheirs, Theirs, ManualStays, Present
  <1>2. QED
    BY <1>1, RowsInvHolds, PTL

\* Neither loop, nor the reset of a script, ever commits over a discount that is still
\* running, however often it was renewed while the statement waited for its row.
THEOREM RunningDealsStay == Spec => RunningDealsAreKept
  <1>1. ASSUME RowsInv, NEW t \in Transactions, state[t] = "sweep", Commit(t),
               NEW p \in Products, OnSale(p)
        PROVE  product'[p] = product[p]
    <2>1. ~Matches(t, product[p])
      BY <1>1 DEF OnSale, Matches
    <2>2. p \notin Written(t)
      BY <1>1, <2>1 DEF RowsInv, SweptMatch
    <2>3. product' = [x \in Products |-> IF x \in Written(t) THEN image[t][x] ELSE product[x]]
      BY <1>1 DEF Commit
    <2>4. QED
      BY <2>2, <2>3
  <1>2. RowsInv => [\A t \in Transactions : state[t] = "sweep" /\ Commit(t) =>
                      \A p \in Products : OnSale(p) => product'[p] = product[p]]_catalogueVars
    BY <1>1
  <1>3. QED
    BY <1>2, RowsInvHolds, PTL DEF RunningDealsAreKept

-----------------------------------------------------------------------------
(***************************************************************************)
(* Prices.  While one request has written a rate to roubles and not yet    *)
(* the prices, the prices are still those at the rate it has read; two     *)
(* such requests make all prices doubtful.                                 *)
(***************************************************************************)

Settled(p) == rate["rub"] # NoRate /\ price[p] = worth[p] + rate["rub"]

AlmostSettled(q, p) == asks[q].to = "rub" =>
  /\ rate["rub"] = asks[q].new
  /\ price[p] = worth[p] + old[q]

\* What a request carries from one of its commands to the next.
Carried == \A q \in Setters :
  /\ setting[q] \in {"write", "scale"} => asks[q] \in [to : Targets, new : Int]
  /\ setting[q] = "scale" => old[q] \in Int

HalfWay == \A q \in Unsettled, p \in Priced \ skewed : AlmostSettled(q, p)

OneHalfWay == \A q, r \in Unsettled : q # r => skewed = Products

QuotesAreNew == \A s \in Scripts : \A p \in Quoted(s) \ skewed :
  Unsettled = {} /\ quote[s][p] = rate["rub"]

PriceInv ==
  /\ RatesTypeOK
  /\ Carried
  /\ HalfWay
  /\ OneHalfWay
  /\ QuotesAreNew
  /\ PricesFollowRate

\* What a script saves it has converted.
SavedAreQuoted == \A s \in Scripts :
  state[s] = "save" => \A p \in Written(s) : quote[s][p] # NoRate

-----------------------------------------------------------------------------
LEMMA InitPriceInv ==
  ASSUME RatesAssumption, RatesInit
  PROVE  PriceInv
  <1>1. RatesTypeOK
    <2>1. rate \in [Targets -> Int \cup {NoRate}]
      BY DEF RatesInit
    <2>2. price \in [Products -> Int \cup {NoPrice}] /\ worth \in [Products -> Int] /\ skewed \subseteq Products
      BY DEF RatesInit
    <2>3. quote \in [Scripts -> [Products -> Int \cup {NoRate}]]
      BY DEF RatesInit, NoQuotes
    <2>4. QED
      BY <2>1, <2>2, <2>3 DEF RatesInit, RatesTypeOK
  <1>2. Carried /\ Unsettled = {}
    BY DEF RatesInit, Carried, Unsettled
  <1>3. HalfWay /\ OneHalfWay
    BY <1>2 DEF HalfWay, OneHalfWay
  <1>4. \A s \in Scripts : Quoted(s) = {}
    BY DEF RatesInit, Quoted, NoQuotes
  <1>5. PricesFollowRate
    <2>1. rate["rub"] = 0 /\ 0 # NoRate
      BY DEF RatesInit, RatesAssumption, Targets
    <2>2. \A p \in Priced : price[p] = 0 /\ worth[p] = 0
      BY DEF RatesInit, Priced
    <2>3. QED
      BY <2>1, <2>2 DEF PricesFollowRate
  <1>6. QED
    BY <1>1, <1>2, <1>3, <1>4, <1>5 DEF PriceInv, QuotesAreNew

LEMMA ConvertKeeps ==
  ASSUME PriceInv, NEW s \in Scripts, NEW p \in Products, Convert(s, p)
  PROVE  PriceInv'
  <1>1. /\ UNCHANGED <<rate, price, setting, asks, old, worth>>
        /\ rate["rub"] \in Int
        /\ quote' = [quote EXCEPT ![s] = [quote[s] EXCEPT ![p] = rate["rub"]]]
    BY DEF Convert, rateRequests, PriceInv, RatesTypeOK, Targets
  <1>2. /\ quote' \in [Scripts -> [Products -> Int \cup {NoRate}]]
        /\ \A u \in Scripts, x \in Products :
             quote'[u][x] = IF u = s /\ x = p THEN rate["rub"] ELSE quote[u][x]
    BY <1>1 DEF PriceInv, RatesTypeOK
  <1>3. /\ skewed \subseteq skewed' /\ skewed' \subseteq Products
        /\ Unsettled # {} => p \in skewed'
    BY DEF Convert, PriceInv, RatesTypeOK
  <1>4. RatesTypeOK' /\ Carried'
    BY <1>1, <1>2, <1>3 DEF PriceInv, RatesTypeOK, Carried
  <1>5. Unsettled' = Unsettled /\ Priced' = Priced
    BY <1>1 DEF Unsettled, Priced
  <1>6. HalfWay'
    BY <1>1, <1>3, <1>5 DEF PriceInv, HalfWay, AlmostSettled
  <1>7. OneHalfWay'
    BY <1>3, <1>5 DEF PriceInv, OneHalfWay
  <1>8. QuotesAreNew'
    BY <1>1, <1>2, <1>3, <1>5 DEF PriceInv, QuotesAreNew, Quoted
  <1>9. PricesFollowRate'
    BY <1>1, <1>3, <1>5 DEF PriceInv, PricesFollowRate
  <1>10. QED
    BY <1>4, <1>6, <1>7, <1>8, <1>9 DEF PriceInv

\* A script's quotes are used for new products, or forgotten.
LEMMA InsertKeeps ==
  ASSUME PriceInv, NEW s \in Scripts, NEW new \in SUBSET Products,
         \A p \in new : quote[s][p] # NoRate,
         \/ InsertPrices(s, new)
         \/ ForgetQuotes(s)
  PROVE  PriceInv'
  <1>1. /\ UNCHANGED <<rate, setting, asks, old, skewed>>
        /\ quote' = [quote EXCEPT ![s] = NoQuotes]
    BY DEF InsertPrices, ForgetQuotes, rateRequests
  <1>2. /\ quote' \in [Scripts -> [Products -> Int \cup {NoRate}]]
        /\ \A u \in Scripts, x \in Products : quote'[u][x] \in {quote[u][x], NoRate}
    BY <1>1 DEF PriceInv, RatesTypeOK, NoQuotes
  <1>3. \A p \in new : quote[s][p] \in Int /\ p \in Quoted(s)
    BY DEF PriceInv, RatesTypeOK, Quoted
  <1>4. /\ price' \in [Products -> Int \cup {NoPrice}] /\ worth' \in [Products -> Int]
        /\ \A p \in Products : \/ price'[p] = price[p] /\ worth'[p] = worth[p]
                               \/ p \in new /\ price'[p] = quote[s][p] /\ worth'[p] = 0
    BY <1>3 DEF InsertPrices, ForgetQuotes, PriceInv, RatesTypeOK
  <1>5. RatesTypeOK' /\ Carried'
    BY <1>1, <1>2, <1>4 DEF PriceInv, RatesTypeOK, Carried
  <1>6. Unsettled' = Unsettled
    BY <1>1 DEF Unsettled
  <1>7. ASSUME NEW p \in Priced' \ skewed
        PROVE  \/ p \in Priced \ skewed /\ price'[p] = price[p] /\ worth'[p] = worth[p]
               \/ Unsettled = {} /\ rate["rub"] \in Int /\ price'[p] = rate["rub"] /\ worth'[p] = 0
    BY <1>3, <1>4 DEF Priced, PriceInv, QuotesAreNew
  <1>8. HalfWay'
    BY <1>1, <1>6, <1>7 DEF PriceInv, HalfWay, AlmostSettled
  <1>9. OneHalfWay'
    BY <1>1, <1>6 DEF PriceInv, OneHalfWay
  <1>10. QuotesAreNew'
    BY <1>1, <1>2, <1>6 DEF PriceInv, QuotesAreNew, Quoted
  <1>11. PricesFollowRate'
    BY <1>1, <1>6, <1>7, RatesAssumption DEF PriceInv, PricesFollowRate, RatesAssumption
  <1>12. QED
    BY <1>5, <1>8, <1>9, <1>10, <1>11 DEF PriceInv

LEMMA DropKeeps ==
  ASSUME PriceInv, NEW gone \in SUBSET Products, DropPrices(gone)
  PROVE  PriceInv'
  <1>1. /\ UNCHANGED <<rate, quote, setting, asks, old, worth, skewed>>
        /\ price' \in [Products -> Int \cup {NoPrice}]
        /\ \A p \in Products : price'[p] \in {price[p], NoPrice}
    BY DEF DropPrices, rateRequests, PriceInv, RatesTypeOK
  <1>2. RatesTypeOK' /\ Carried'
    BY <1>1 DEF PriceInv, RatesTypeOK, Carried
  <1>3. Unsettled' = Unsettled /\ \A s \in Scripts : Quoted(s)' = Quoted(s)
    BY <1>1 DEF Unsettled, Quoted
  <1>4. \A p \in Priced' : p \in Priced /\ price'[p] = price[p]
    BY <1>1 DEF Priced
  <1>5. HalfWay' /\ OneHalfWay'
    BY <1>1, <1>3, <1>4 DEF PriceInv, HalfWay, OneHalfWay, AlmostSettled
  <1>6. QuotesAreNew' /\ PricesFollowRate'
    BY <1>1, <1>3, <1>4 DEF PriceInv, QuotesAreNew, PricesFollowRate
  <1>7. QED
    BY <1>2, <1>5, <1>6 DEF PriceInv

LEMMA SetPriceKeeps ==
  ASSUME PriceInv, NEW p \in Products, NEW value \in Int, SetPrice(p, value)
  PROVE  PriceInv'
  <1>1. /\ UNCHANGED <<rate, quote, setting, asks, old>>
        /\ rate["rub"] \in Int \cup {NoRate}
    BY DEF SetPrice, rateRequests, PriceInv, RatesTypeOK, Targets
  <1>2. /\ price' \in [Products -> Int \cup {NoPrice}] /\ worth' \in [Products -> Int]
        /\ price'[p] = value /\ (rate["rub"] # NoRate => worth'[p] = value - rate["rub"])
        /\ \A x \in Products \ {p} : price'[x] = price[x] /\ worth'[x] = worth[x]
    BY <1>1 DEF SetPrice, PriceInv, RatesTypeOK
  <1>3. /\ skewed' \subseteq Products /\ skewed \ {p} \subseteq skewed'
        /\ Unsettled # {} \/ rate["rub"] = NoRate => skewed' = skewed \cup {p}
        /\ \A s \in Scripts : p \in Quoted(s) => skewed \subseteq skewed'
    BY DEF SetPrice, PriceInv, RatesTypeOK
  <1>4. RatesTypeOK' /\ Carried'
    BY <1>1, <1>2, <1>3 DEF PriceInv, RatesTypeOK, Carried
  <1>5. Unsettled' = Unsettled /\ \A s \in Scripts : Quoted(s)' = Quoted(s)
    BY <1>1 DEF Unsettled, Quoted
  <1>6. \A x \in Priced' \ {p} : x \in Priced /\ price'[x] = price[x] /\ worth'[x] = worth[x]
    BY <1>2 DEF Priced
  <1>7. HalfWay'
    BY <1>1, <1>3, <1>5, <1>6 DEF PriceInv, HalfWay, AlmostSettled
  <1>8. OneHalfWay'
    BY <1>3, <1>5 DEF PriceInv, OneHalfWay
  <1>9. QuotesAreNew'
    BY <1>1, <1>3, <1>5 DEF PriceInv, QuotesAreNew
  <1>10. PricesFollowRate'
    BY <1>1, <1>2, <1>3, <1>5, <1>6 DEF PriceInv, PricesFollowRate
  <1>11. QED
    BY <1>4, <1>7, <1>8, <1>9, <1>10 DEF PriceInv

LEMMA AddPercentKeeps ==
  ASSUME PriceInv, NEW chosen, NEW change \in Int, AddPercent(chosen, change)
  PROVE  PriceInv'
  <1>1. /\ UNCHANGED <<rate, quote, setting, asks, old, skewed>>
        /\ rate["rub"] \in Int \cup {NoRate}
    BY DEF AddPercent, rateRequests, PriceInv, RatesTypeOK, Targets
  <1>2. /\ price' \in [Products -> Int \cup {NoPrice}] /\ worth' \in [Products -> Int]
        /\ \A p \in Products :
             \/ price'[p] = price[p] /\ worth'[p] = worth[p]
             \/ price[p] \in Int /\ price'[p] = price[p] + change /\ worth'[p] = worth[p] + change
    BY DEF AddPercent, Priced, PriceInv, RatesTypeOK
  <1>3. RatesTypeOK' /\ Carried'
    BY <1>1, <1>2 DEF PriceInv, RatesTypeOK, Carried
  <1>4. Unsettled' = Unsettled /\ \A s \in Scripts : Quoted(s)' = Quoted(s)
    BY <1>1 DEF Unsettled, Quoted
  <1>5. \A p \in Priced' : p \in Priced /\ worth[p] \in Int /\ price[p] \in Int
    BY <1>2, RatesAssumption DEF Priced, RatesAssumption, PriceInv, RatesTypeOK
  <1>6. HalfWay'
    <2>1. ASSUME NEW q \in Unsettled, NEW p \in Priced' \ skewed, asks[q].to = "rub"
          PROVE  rate["rub"] = asks[q].new /\ price'[p] = worth'[p] + old[q]
      <3>1. rate["rub"] = asks[q].new /\ price[p] = worth[p] + old[q] /\ old[q] \in Int
        BY <1>5, <2>1 DEF PriceInv, HalfWay, AlmostSettled, Carried, Unsettled
      <3>2. QED
        BY <1>2, <1>5, <3>1 DEF Priced
    <2>2. QED
      BY <1>1, <1>4, <2>1 DEF HalfWay, AlmostSettled
  <1>7. OneHalfWay' /\ QuotesAreNew'
    BY <1>1, <1>4 DEF PriceInv, OneHalfWay, QuotesAreNew
  <1>8. PricesFollowRate'
    <2>1. ASSUME Unsettled = {}, NEW p \in Priced' \ skewed
          PROVE  rate["rub"] # NoRate /\ price'[p] = worth'[p] + rate["rub"]
      <3>1. rate["rub"] # NoRate /\ price[p] = worth[p] + rate["rub"]
        BY <1>5, <2>1 DEF PriceInv, PricesFollowRate
      <3>2. QED
        BY <1>1, <1>2, <1>5, <3>1 DEF Priced
    <2>2. QED
      BY <1>1, <1>4, <2>1 DEF PricesFollowRate
  <1>9. QED
    BY <1>3, <1>6, <1>7, <1>8 DEF PriceInv

-----------------------------------------------------------------------------
\* set_exchange_rate, command by command.

LEMMA ReadRateKeeps ==
  ASSUME RatesAssumption, PriceInv, NEW q \in Setters, ReadOldRate(q)
  PROVE  PriceInv'
  <1>1. PICK to \in Targets, new \in NewRates :
          /\ asks' = [asks EXCEPT ![q] = [to |-> to, new |-> new]]
          /\ old' = [old EXCEPT ![q] = rate[to]]
    BY DEF ReadOldRate
  <1>2. /\ UNCHANGED <<rate, price, quote, worth, skewed>>
        /\ setting[q] = "idle" /\ setting' = [setting EXCEPT ![q] = "write"]
    BY DEF ReadOldRate, Advance
  <1>3. /\ [to |-> to, new |-> new] \in [to : Targets, new : Int]
        /\ rate[to] \in Int \cup {NoRate}
    BY DEF RatesAssumption, PriceInv, RatesTypeOK
  <1>4. /\ setting' \in [Setters -> {"idle", "write", "scale", "done"}]
        /\ asks' \in [Setters -> [to : Targets, new : Int] \cup {NoRate}]
        /\ old' \in [Setters -> Int \cup {NoRate}]
        /\ setting'[q] = "write" /\ asks'[q] \in [to : Targets, new : Int]
        /\ \A r \in Setters \ {q} : setting'[r] = setting[r] /\ asks'[r] = asks[r] /\ old'[r] = old[r]
    BY <1>1, <1>2, <1>3 DEF PriceInv, RatesTypeOK
  <1>5. RatesTypeOK' /\ Carried'
    BY <1>2, <1>4 DEF PriceInv, RatesTypeOK, Carried
  <1>6. /\ Unsettled' = Unsettled /\ q \notin Unsettled
        /\ Priced' = Priced /\ \A s \in Scripts : Quoted(s)' = Quoted(s)
    BY <1>2, <1>4 DEF Unsettled, Priced, Quoted
  <1>7. HalfWay'
    <2>1. \A r \in Unsettled : r \in Setters \ {q}
      BY <1>6 DEF Unsettled
    <2>2. QED
      BY <1>2, <1>4, <1>6, <2>1 DEF PriceInv, HalfWay, AlmostSettled
  <1>8. OneHalfWay' /\ QuotesAreNew' /\ PricesFollowRate'
    BY <1>2, <1>6 DEF PriceInv, OneHalfWay, QuotesAreNew, PricesFollowRate
  <1>9. QED
    BY <1>5, <1>7, <1>8 DEF PriceInv

\* The rate is written: prices that followed the old one are half way to the new one.
LEMMA WriteRateKeeps ==
  ASSUME RatesAssumption, PriceInv, NEW q \in Setters, WriteRate(q)
  PROVE  PriceInv'
  <1>1. /\ UNCHANGED <<price, quote, asks, old, worth>>
        /\ setting[q] = "write"
        /\ setting' = [setting EXCEPT ![q] = IF old[q] = NoRate THEN "done" ELSE "scale"]
        /\ rate' = [rate EXCEPT ![asks[q].to] = asks[q].new]
    BY DEF WriteRate, Advance
  <1>2. asks[q].to \in Targets /\ asks[q].new \in Int /\ old[q] \in Int \cup {NoRate}
    BY <1>1 DEF PriceInv, Carried, RatesTypeOK
  <1>3. /\ rate' \in [Targets -> Int \cup {NoRate}]
        /\ asks[q].to = "rub" => rate'["rub"] = asks[q].new
        /\ asks[q].to # "rub" => rate'["rub"] = rate["rub"]
    BY <1>1, <1>2 DEF PriceInv, RatesTypeOK, Targets
  <1>4. /\ setting' \in [Setters -> {"idle", "write", "scale", "done"}]
        /\ setting'[q] = IF old[q] = NoRate THEN "done" ELSE "scale"
        /\ \A r \in Setters \ {q} : setting'[r] = setting[r]
    BY <1>1 DEF PriceInv, RatesTypeOK
  <1>5. /\ skewed' \subseteq Products
        /\ \/ skewed' = Products
           \/ /\ Unsettled = {} /\ old[q] = rate[asks[q].to]
              /\ skewed \subseteq skewed' /\ \A s \in Scripts : Quoted(s) \subseteq skewed'
    BY DEF WriteRate, PriceInv, RatesTypeOK, Quoted
  <1>6. RatesTypeOK' /\ Carried'
    BY <1>1, <1>2, <1>3, <1>4, <1>5 DEF PriceInv, RatesTypeOK, Carried
  <1>7. Priced' = Priced /\ \A s \in Scripts : Quoted(s)' = Quoted(s)
    BY <1>1 DEF Priced, Quoted
  <1>8. CASE skewed' = Products
    <2>1. Priced' \ skewed' = {} /\ \A s \in Scripts : Quoted(s)' \ skewed' = {}
      BY <1>8 DEF Priced, Quoted
    <2>2. QED
      BY <1>6, <1>8, <2>1 DEF PriceInv, HalfWay, OneHalfWay, QuotesAreNew, PricesFollowRate
  <1>9. CASE /\ Unsettled = {} /\ old[q] = rate[asks[q].to]
             /\ skewed \subseteq skewed' /\ \A s \in Scripts : Quoted(s) \subseteq skewed'
    <2>1. Unsettled' = IF old[q] = NoRate THEN {} ELSE {q}
      BY <1>4, <1>9 DEF Unsettled
    <2>2. OneHalfWay' /\ QuotesAreNew'
      BY <1>7, <1>9, <2>1 DEF OneHalfWay, QuotesAreNew
    <2>3. \A p \in Priced' \ skewed' : rate["rub"] # NoRate /\ price[p] = worth[p] + rate["rub"]
      BY <1>7, <1>9 DEF PriceInv, PricesFollowRate
    <2>4. HalfWay'
      BY <1>1, <1>3, <1>9, <2>1, <2>3 DEF HalfWay, AlmostSettled
    <2>5. PricesFollowRate'
      BY <1>1, <1>3, <1>9, <2>1, <2>3 DEF PricesFollowRate
    <2>6. QED
      BY <1>6, <2>2, <2>4, <2>5 DEF PriceInv
  <1>10. QED
    BY <1>5, <1>8, <1>9

\* The prices are written: what was half way arrives.
LEMMA ScaleKeeps ==
  ASSUME RatesAssumption, PriceInv, NEW q \in Setters, ScalePrices(q)
  PROVE  PriceInv'
  <1>1. /\ UNCHANGED <<rate, quote, asks, old, worth>>
        /\ setting[q] = "scale" /\ setting' = [setting EXCEPT ![q] = "done"]
        /\ skewed' = IF asks[q].to = "rub" THEN skewed ELSE Products
    BY DEF ScalePrices, Advance
  <1>2. asks[q].new \in Int /\ old[q] \in Int /\ q \in Unsettled
    BY <1>1 DEF PriceInv, Carried, Unsettled
  <1>3. /\ price' \in [Products -> Int \cup {NoPrice}]
        /\ \A p \in Products : IF p \in Priced
                               THEN price[p] \in Int /\ price'[p] = price[p] + asks[q].new - old[q]
                               ELSE price'[p] = NoPrice
    BY <1>2 DEF ScalePrices, Rescale, Priced, PriceInv, RatesTypeOK
  <1>4. /\ setting' \in [Setters -> {"idle", "write", "scale", "done"}]
        /\ setting'[q] = "done" /\ \A r \in Setters \ {q} : setting'[r] = setting[r]
    BY <1>1 DEF PriceInv, RatesTypeOK
  <1>5. RatesTypeOK' /\ Carried'
    BY <1>1, <1>3, <1>4 DEF PriceInv, RatesTypeOK, Carried
  <1>6. Unsettled' = Unsettled \ {q} /\ \A s \in Scripts : Quoted(s)' = Quoted(s)
    BY <1>1, <1>4 DEF Unsettled, Quoted
  <1>7. skewed \subseteq skewed' /\ skewed' \subseteq Products
    BY <1>1 DEF PriceInv, RatesTypeOK
  <1>8. QuotesAreNew'
    BY <1>1, <1>2, <1>6, <1>7 DEF PriceInv, QuotesAreNew
  <1>9. OneHalfWay'
    BY <1>6, <1>7 DEF PriceInv, OneHalfWay
  <1>10. Priced' \subseteq Priced
    BY <1>3 DEF Priced
  <1>11. \A p \in Priced' \ skewed' : Unsettled = {q} /\ asks[q].to = "rub" /\ p \in Priced \ skewed
    <2>1. ASSUME NEW p \in Priced' \ skewed'  PROVE p \in Priced \ skewed /\ skewed # Products /\ skewed' # Products
      BY <1>7, <1>10, <2>1 DEF Priced
    <2>2. QED
      BY <1>1, <1>2, <2>1 DEF PriceInv, OneHalfWay
  <1>12. HalfWay'
    BY <1>6, <1>11 DEF HalfWay
  <1>13. ASSUME NEW p \in Priced' \ skewed'
        PROVE  rate["rub"] # NoRate /\ price'[p] = worth[p] + rate["rub"]
    <2>1. rate["rub"] = asks[q].new /\ price[p] = worth[p] + old[q]
      BY <1>2, <1>11 DEF PriceInv, HalfWay, AlmostSettled
    <2>2. p \in Priced /\ worth[p] \in Int /\ price[p] \in Int /\ price'[p] = price[p] + asks[q].new - old[q]
      BY <1>3, <1>11 DEF Priced, PriceInv, RatesTypeOK
    <2>3. price'[p] = worth[p] + asks[q].new
      BY <1>2, <2>1, <2>2
    <2>4. QED
      BY <1>2, <2>1, <2>3 DEF RatesAssumption
  <1>14. PricesFollowRate'
    BY <1>1, <1>13 DEF PricesFollowRate
  <1>15. QED
    BY <1>5, <1>8, <1>9, <1>12, <1>14 DEF PriceInv

\* Requests end half way, one by one or all together.
LEMMA SettingEndsKeep ==
  ASSUME PriceInv, (\E q \in Setters : SettingFails(q)) \/ RatesCrash
  PROVE  PriceInv'
  <1>1. /\ UNCHANGED <<rate, price, quote, asks, old, worth>>
        /\ setting' \in [Setters -> {"idle", "write", "scale", "done"}]
        /\ \A q \in Setters : setting'[q] \in {setting[q], "done"}
    BY DEF SettingFails, RatesCrash, PriceInv, RatesTypeOK
  <1>2. skewed' \in {skewed, Products}
    BY DEF SettingFails, RatesCrash
  <1>3. skewed' = Products \/ Unsettled' = Unsettled
    BY DEF SettingFails, RatesCrash, Unsettled, PriceInv, RatesTypeOK
  <1>4. RatesTypeOK' /\ Carried'
    BY <1>1, <1>2 DEF PriceInv, RatesTypeOK, Carried
  <1>5. Priced' = Priced /\ \A s \in Scripts : Quoted(s)' = Quoted(s)
    BY <1>1 DEF Priced, Quoted
  <1>6. CASE skewed' = Products
    <2>1. Priced' \ skewed' = {} /\ \A s \in Scripts : Quoted(s)' \ skewed' = {}
      BY <1>6 DEF Priced, Quoted
    <2>2. QED
      BY <1>4, <1>6, <2>1 DEF PriceInv, HalfWay, OneHalfWay, QuotesAreNew, PricesFollowRate
  <1>7. CASE skewed' = skewed /\ Unsettled' = Unsettled
    <2>1. HalfWay' /\ OneHalfWay'
      BY <1>1, <1>5, <1>7 DEF PriceInv, HalfWay, OneHalfWay, AlmostSettled
    <2>2. QuotesAreNew' /\ PricesFollowRate'
      BY <1>1, <1>5, <1>7 DEF PriceInv, QuotesAreNew, PricesFollowRate
    <2>3. QED
      BY <1>4, <2>1, <2>2 DEF PriceInv
  <1>8. QED
    BY <1>2, <1>3, <1>6, <1>7

LEMMA RatesStayKeeps ==
  ASSUME PriceInv, UNCHANGED ratesVars
  PROVE  PriceInv'
  <1>1. UNCHANGED <<rate, price, quote, setting, asks, old, worth, skewed>>
    BY DEF ratesVars, rateRequests
  <1>2. Unsettled' = Unsettled /\ Priced' = Priced /\ \A s \in Scripts : Quoted(s)' = Quoted(s)
    BY <1>1 DEF Unsettled, Priced, Quoted
  <1>3. RatesTypeOK' /\ Carried'
    BY <1>1 DEF PriceInv, RatesTypeOK, Carried
  <1>4. HalfWay' /\ OneHalfWay'
    BY <1>1, <1>2 DEF PriceInv, HalfWay, OneHalfWay, AlmostSettled
  <1>5. QuotesAreNew' /\ PricesFollowRate'
    BY <1>1, <1>2 DEF PriceInv, QuotesAreNew, PricesFollowRate
  <1>6. QED
    BY <1>3, <1>4, <1>5 DEF PriceInv

-----------------------------------------------------------------------------
\* Scripts save what they have converted.

\* It is enough that no script saves what it has not converted, or forgets what it has
\* converted and goes on.
LEMMA QuotedStay ==
  ASSUME SavedAreQuoted,
         \A s \in Scripts :
           \/ Written(s)' = {}
           \/ /\ state'[s] = state[s]
              /\ state[s] = "save" => \A p \in Written(s)' :
                   /\ p \in Written(s) \/ quote'[s][p] # NoRate
                   /\ quote[s][p] # NoRate => quote'[s][p] # NoRate
  PROVE  SavedAreQuoted'
  BY DEF SavedAreQuoted

LEMMA ScriptsKeepQuoted ==
  ASSUME RowsInv, PriceInv, SavedAreQuoted, NEW s \in Scripts,
         Start(s) \/ SaveSome(s) \/ CommitScript(s) \/ GiveUp(s)
  PROVE  SavedAreQuoted'
  <1>1. s \in Transactions /\ s \notin Jobs /\ Scripts \subseteq Transactions
    BY CatalogueAssumption DEF Transactions, CatalogueAssumption
  <1>2. CASE Start(s)
    <2>1. /\ UNCHANGED image /\ UNCHANGED quote /\ state[s] = "idle"
          /\ \A u \in Scripts \ {s} : state'[u] = state[u]
      BY <1>1, <1>2 DEF Start, BeginScript, BeginSweep, Begin, ratesVars, RowsInv, CatalogueTypeOK
    <2>2. Written(s)' = {} /\ \A u \in Scripts : Written(u)' = Written(u)
      BY <1>1, <2>1 DEF RowsInv, ClosedHoldNothing, Open, Written
    <2>3. QED
      BY <2>1, <2>2, QuotedStay
  <1>3. ASSUME NEW p \in Products, ConvertItem(s, p)  PROVE SavedAreQuoted'
    <2>1. /\ UNCHANGED <<state, image>>
          /\ \A u \in Scripts, x \in Products : quote[u][x] # NoRate => quote'[u][x] # NoRate
      BY <1>3 DEF ConvertItem, Convert, RatesStep, catalogueVars, transaction, PriceInv, RatesTypeOK
    <2>2. \A u \in Scripts : Written(u)' = Written(u) /\ Written(u) \subseteq Products
      BY <1>1, <2>1, ImagesHoldRows DEF Written, RowsInv, CatalogueTypeOK
    <2>3. QED
      BY <2>1, <2>2, QuotedStay
  <1>4. ASSUME NEW p \in Products, Save(s, p)  PROVE SavedAreQuoted'
    <2>1. UNCHANGED quote /\ quote[s][p] # NoRate /\ SaveItem(s, p)
      BY <1>4 DEF Save, ratesVars
    <2>2. UNCHANGED state
      BY <1>1, <2>1, TakeFrame DEF SaveItem, RowsInv, Open
    <2>3. \A u \in Scripts : Written(u)' = Written(u) \/ (u = s /\ Written(u)' = Written(u) \cup {p})
      <3>1. CASE UNCHANGED image
        BY <3>1 DEF Written
      <3>2. CASE \E row : WriteRow(s, p, row)
        <4>1. \A u \in Scripts \ {s} : image'[u] = image[u]
          BY <1>1, <3>2 DEF WriteRow, RowsInv, CatalogueTypeOK
        <4>2. DOMAIN image'[s] = Written(s) \cup {p}
          BY <1>1, <3>2 DEF WriteRow, RowsInv, CatalogueTypeOK
        <4>3. QED
          BY <4>1, <4>2 DEF Written
      <3>3. QED
        BY <2>1, <3>1, <3>2 DEF SaveItem, InsertRow, UpdateDiscount, IgnoreConflict
    <2>4. QED
      BY <2>1, <2>2, <2>3, QuotedStay
  <1>5. ASSUME NEW p \in Products, Detail(s, p)  PROVE SavedAreQuoted'
    <2>1. UNCHANGED quote /\ (SaveDetails(s, p) \/ SweepRow(s, p))
      BY <1>5 DEF Detail, ratesVars
    <2>2. UNCHANGED state /\ state[s] # "save"
      BY <2>1 DEF SaveDetails, SweepRow, Take
    <2>3. \A u \in Scripts \ {s} : image'[u] = image[u]
      <3>1. CASE UNCHANGED image
        BY <3>1
      <3>2. CASE \E row : WriteRow(s, p, row)
        BY <1>1, <3>2 DEF WriteRow, RowsInv, CatalogueTypeOK
      <3>3. QED
        BY <2>1, <3>1, <3>2 DEF SaveDetails, SweepRow
    <2>4. QED
      BY <2>1, <2>2, <2>3, QuotedStay DEF Written
  <1>6. CASE CommitScript(s) \/ GiveUp(s)
    <2>1. (\E to \in {"idle", "done", "dead"} : Leave(s, to)) /\ quote' = [quote EXCEPT ![s] = NoQuotes]
      BY <1>6 DEF CommitScript, GiveUp, Commit, ScriptFails, Abort, InsertPrices, ForgetQuotes
    <2>2. /\ Written(s)' = {}
          /\ \A u \in Scripts \ {s} : state'[u] = state[u] /\ Written(u)' = Written(u)
      BY <1>1, <2>1, LeaveFrame DEF RowsInv
    <2>3. \A u \in Scripts \ {s} : quote'[u] = quote[u]
      BY <2>1 DEF PriceInv, RatesTypeOK
    <2>4. QED
      BY <2>2, <2>3, QuotedStay
  <1>7. QED
    BY <1>2, <1>3, <1>4, <1>5, <1>6 DEF SaveSome

\* Nobody else touches what a script has saved and converted.
LEMMA OthersKeepQuoted ==
  ASSUME RowsInv, PriceInv, SavedAreQuoted,
         \/ \E j \in Jobs : Sweep(j) \/ CommitSweep(j) \/ LoopDies(j)
         \/ \E e \in Edits : UpdatePrices(e) \/ \E p \in Products : Create(e, p) \/ Update(e, p) \/ Delete(e, p)
         \/ \E q \in Setters : SetExchangeRate(q)
         \/ \E r \in Readers : Read(r) \/ List(r)
         \/ \E p \in Products : OrderOrEnd(p)
         \/ PassTime \/ ServerRestarts
         \/ UNCHANGED storefrontVars
  PROVE  SavedAreQuoted'
  <1>1. Scripts \subseteq Transactions \ Jobs /\ Jobs \subseteq Transactions
    BY CatalogueAssumption DEF Transactions, CatalogueAssumption
  <1>2. SUFFICES UNCHANGED quote /\ \A s \in Scripts : state'[s] = state[s] /\ image'[s] = image[s]
    BY QuotedStay DEF Written
  <1>3. ASSUME NEW j \in Jobs, Sweep(j) \/ CommitSweep(j) \/ LoopDies(j)
        PROVE  UNCHANGED quote /\ \A s \in Scripts : state'[s] = state[s] /\ image'[s] = image[s]
    <2>1. UNCHANGED quote
      BY <1>3 DEF Sweep, CommitSweep, LoopDies, DropPrices, ratesVars
    <2>2. \/ \E to \in {"idle", "done", "dead"} : Leave(j, to)
          \/ BeginSweep(j)
          \/ \E p \in Products : SweepRow(j, p)
      BY <1>3 DEF Sweep, CommitSweep, LoopDies, JobStep, SweepFails, Commit, Abort
    <2>3. CASE \E to \in {"idle", "done", "dead"} : Leave(j, to)
      BY <1>1, <2>1, <2>3, LeaveFrame DEF RowsInv
    <2>4. CASE BeginSweep(j)
      BY <1>1, <2>1, <2>4 DEF BeginSweep, Begin, RowsInv, CatalogueTypeOK
    <2>5. ASSUME NEW p \in Products, SweepRow(j, p)
          PROVE  UNCHANGED quote /\ \A s \in Scripts : state'[s] = state[s] /\ image'[s] = image[s]
      <3>1. UNCHANGED state
        BY <2>5 DEF SweepRow, Take
      <3>2. UNCHANGED image \/ WriteRow(j, p, Swept(j, product[p]))
        BY <2>5 DEF SweepRow
      <3>3. \A s \in Scripts : image'[s] = image[s]
        BY <1>1, <3>2 DEF WriteRow, RowsInv, CatalogueTypeOK
      <3>4. QED
        BY <2>1, <3>1, <3>3
    <2>6. QED
      BY <2>2, <2>3, <2>4, <2>5
  <1>4. ASSUME NEW e \in Edits,
               UpdatePrices(e) \/ \E p \in Products : Create(e, p) \/ Update(e, p) \/ Delete(e, p)
        PROVE  UNCHANGED <<quote, transaction>>
    <2>1. CASE UpdatePrices(e)
      BY <2>1 DEF UpdatePrices, EditPrices, AddPercent
    <2>2. ASSUME NEW p \in Products, Create(e, p) \/ Delete(e, p)  PROVE UNCHANGED <<quote, transaction>>
      BY <2>2 DEF Create, Delete, CreateProduct, DeleteProduct, Edit, SetPrice, DropPrices
    <2>3. ASSUME NEW p \in Products, Update(e, p)  PROVE UNCHANGED <<quote, transaction>>
      BY <2>3 DEF Update, UpdateProduct, Edit, SetPrice, ratesVars
    <2>4. QED
      BY <1>4, <2>1, <2>2, <2>3
  <1>5. ASSUME \/ \E q \in Setters : SetExchangeRate(q)
               \/ \E r \in Readers : Read(r) \/ List(r)
               \/ PassTime
               \/ UNCHANGED storefrontVars
        PROVE  UNCHANGED <<quote, transaction>>
    BY <1>5 DEF SetExchangeRate, SetterStep, ReadOldRate, WriteRate, ScalePrices, SettingFails, Read,
                List, PassTime, RatesStep, CacheStep, catalogueVars, ratesVars, storefrontVars
  <1>6. ASSUME NEW p \in Products, OrderOrEnd(p)  PROVE UNCHANGED <<quote, transaction>>
    BY <1>6 DEF OrderOrEnd, OrderRefers, OrderGoes, DealEnds, ratesVars
  <1>7. CASE ServerRestarts
    BY <1>1, <1>7 DEF ServerRestarts, Restart, RatesCrash, RowsInv, CatalogueTypeOK
  <1>8. QED
    BY <1>3, <1>4, <1>5, <1>6, <1>7 DEF transaction

-----------------------------------------------------------------------------
LEMMA NextPriceInv ==
  ASSUME RowsInv, PriceInv, SavedAreQuoted, [Next]_storefrontVars
  PROVE  PriceInv'
  <1>1. ASSUME NEW s \in Scripts, Start(s) \/ SaveSome(s) \/ CommitScript(s) \/ GiveUp(s)
        PROVE  PriceInv'
    <2>1. CASE Start(s)
      BY <2>1, RatesStayKeeps DEF Start
    <2>2. CASE SaveSome(s)
      BY <2>2, RatesStayKeeps, ConvertKeeps DEF SaveSome, ConvertItem, Save, Detail
    <2>3. CASE CommitScript(s)
      <3> DEFINE new == {p \in Written(s) : ~Present(p)}
      <3>1. InsertPrices(s, new) /\ state[s] \in Open
        BY <2>3 DEF CommitScript, Commit
      <3>2. s \in Transactions /\ Written(s) \subseteq Products
        BY ImagesHoldRows DEF Transactions, RowsInv, CatalogueTypeOK, Written
      <3>3. \A p \in new : quote[s][p] # NoRate
        BY <3>1, <3>2 DEF Open, SavedAreQuoted, RowsInv, DetailedArePresent, SweptMatch, Matches, Present
      <3>4. new \in SUBSET Products
        BY <3>2
      <3> HIDE DEF new
      <3>5. QED
        BY <3>1, <3>3, <3>4, InsertKeeps
    <2>4. CASE GiveUp(s)
      <3>1. ForgetQuotes(s) /\ {} \in SUBSET Products /\ \A p \in {} : quote[s][p] # NoRate
        BY <2>4 DEF GiveUp
      <3>2. QED
        BY <3>1, InsertKeeps
    <2>5. QED
      BY <1>1, <2>1, <2>2, <2>3, <2>4
  <1>2. ASSUME NEW j \in Jobs, Sweep(j) \/ CommitSweep(j) \/ LoopDies(j)  PROVE PriceInv'
    <2>1. CASE Sweep(j) \/ LoopDies(j)
      BY <2>1, RatesStayKeeps DEF Sweep, LoopDies
    <2>2. CASE CommitSweep(j)
      <3>1. j \in Transactions /\ Written(j) \subseteq Products
        BY ImagesHoldRows DEF Transactions, RowsInv, CatalogueTypeOK, Written
      <3>2. QED
        BY <2>2, <3>1, DropKeeps DEF CommitSweep
    <2>3. QED
      BY <1>2, <2>1, <2>2
  <1>3. ASSUME NEW e \in Edits, UpdatePrices(e)  PROVE PriceInv'
    BY <1>3, AddPercentKeeps, StorefrontAssumption DEF UpdatePrices, StorefrontAssumption
  <1>4. ASSUME NEW e \in Edits, NEW p \in Products, Create(e, p) \/ Update(e, p) \/ Delete(e, p)
        PROVE  PriceInv'
    BY <1>4, SetPriceKeeps, DropKeeps, RatesStayKeeps, StorefrontAssumption
       DEF Create, Update, Delete, StorefrontAssumption
  <1>5. ASSUME NEW q \in Setters, SetExchangeRate(q)  PROVE PriceInv'
    BY <1>5, ReadRateKeeps, WriteRateKeeps, ScaleKeeps, SettingEndsKeep, RatesAssumption
       DEF SetExchangeRate, SetterStep
  <1>6. ASSUME NEW r \in Readers, Read(r) \/ List(r)  PROVE PriceInv'
    BY <1>6, RatesStayKeeps DEF Read, List, CacheStep
  <1>7. ASSUME NEW p \in Products, OrderOrEnd(p)  PROVE PriceInv'
    BY <1>7, RatesStayKeeps DEF OrderOrEnd
  <1>8. CASE PassTime \/ UNCHANGED storefrontVars
    BY <1>8, RatesStayKeeps DEF PassTime, storefrontVars
  <1>9. CASE ServerRestarts
    BY <1>9, SettingEndsKeep DEF ServerRestarts
  <1>10. QED
    BY <1>1, <1>2, <1>3, <1>4, <1>5, <1>6, <1>7, <1>8, <1>9 DEF Next

\* The types of what Storefront adds.
LEMMA NextRest ==
  ASSUME cast \in Casts, [Next]_storefrontVars
  PROVE  cast' \in Casts
  BY DEF Next, Start, SaveSome, ConvertItem, Save, Detail, CommitScript, GiveUp, Sweep, CommitSweep,
         LoopDies, UpdatePrices, Create, Update, Delete, SetExchangeRate, Read, List, OrderOrEnd,
         PassTime, ServerRestarts, CatalogueStep, RatesStep, CacheStep, storefrontVars

SInv == RowsInv /\ PriceInv /\ SavedAreQuoted /\ CInv /\ RInv /\ cast \in Casts

LEMMA SInvHolds == Spec => []SInv
  <1>1. Init => SInv
    <2>1. SUFFICES ASSUME Init  PROVE SInv
      OBVIOUS
    <2>2. RowsInv /\ PriceInv
      BY <2>1, InitRowsInv, InitPriceInv, CatalogueAssumption, RatesAssumption DEF Init
    <2>3. SavedAreQuoted
      BY <2>1 DEF Init, CatalogueInit, SavedAreQuoted, Transactions
    <2>4. CInv /\ RInv
      BY <2>1, InitCInv, InitRInv, CacheAssumption, StorefrontAssumption, CatalogueAssumption
    <2>5. QED
      BY <2>1, <2>2, <2>3, <2>4 DEF Init, SInv
  <1>2. SInv /\ [Next]_storefrontVars => SInv'
    <2>1. SUFFICES ASSUME SInv, [Next]_storefrontVars  PROVE SInv'
      OBVIOUS
    <2>2. RowsInv' /\ PriceInv'
      BY <2>1, StepsOfCatalogue, NextRowsInv, NextPriceInv DEF SInv
    <2>3. SavedAreQuoted'
      BY <2>1, ScriptsKeepQuoted, OthersKeepQuoted DEF SInv, Next
    <2>4. CInv' /\ RInv' /\ cast' \in Casts
      BY <2>1, NextCInv, NextRInv, NextRest, CacheAssumption, StorefrontAssumption DEF SInv
    <2>5. QED
      BY <2>2, <2>3, <2>4 DEF SInv
  <1>3. QED
    BY <1>1, <1>2, PTL DEF Spec

\* A price converted from another currency is worth what it was worth when it was set, at
\* the rate of today, unless a change of the rate met it half way, failed half way or was to
\* another currency: for all interleavings of set_exchange_rate, of update_prices, of edits
\* and of scripts.
THEOREM PricesFollowTheRate == Spec => []PricesFollowRate
  <1>1. SInv => PricesFollowRate
    BY DEF SInv, PriceInv
  <1>2. QED
    BY <1>1, SInvHolds, PTL

\* The state of the storefront is what TypeOK says it is.
THEOREM TypeCorrect == Spec => []TypeOK
  <1>1. SInv => TypeOK
    BY DEF SInv, RowsInv, PriceInv, CInv, RInv, TypeOK
  <1>2. QED
    BY <1>1, SInvHolds, PTL
=============================================================================
