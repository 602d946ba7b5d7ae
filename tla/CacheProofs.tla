----------------------------- MODULE CacheProofs -----------------------------
(***************************************************************************)
(* How old what a client shows can be, for any number of requests, any     *)
(* time to live and any catalogue: the invariants of ResponseCache and     *)
(* Storefront that are about the clock.                                    *)
(***************************************************************************)
EXTENDS Storefront, TLAPS

Offers == {p \in Products : Present(p)}

\* Everything that happens to the cache in a step of Storefront.
CacheNext ==
  \/ Tick \/ CacheCrash
  \/ \E r \in Readers : ReaderStep(r) \/ Compute(r, Offers)

\* What is stored lives now, and was computed no longer than a request's duration before.
EntryIsFresh == entry # NoEntry =>
  /\ entry.readAt <= now /\ now < entry.expires
  /\ entry.expires <= now + TTL
  /\ entry.expires <= entry.readAt + MaxDelay + TTL

\* A request has not taken longer than it may.
InTime == \A r \in Readers : step[r] \in Busy => since[r] <= now /\ now <= since[r] + MaxDelay

\* What it has read was stored when it came, or later.
BodyIsFresh == \A r \in Readers : step[r] \in {"ttl", "decide"} /\ body[r] # NoEntry =>
  /\ since[r] < body[r].expires
  /\ body[r].expires <= body[r].readAt + MaxDelay + TTL

\* The time to live it was told is of what was stored at that time.
TtlIsFresh == \A r \in Readers : step[r] \in {"get", "decide"} =>
  /\ ttlLeft[r] <= TTL
  /\ ttlOf[r] # NoEntry => ttlLeft[r] <= ttlOf[r].expires - since[r]

\* What it has computed it has computed since it came.
ComputedSince == \A r \in Readers : step[r] = "store" =>
  body[r] # NoEntry /\ since[r] <= body[r].readAt /\ body[r].readAt <= now

\* No client was told to show anything for longer than the time to live.
MaxAgeIsTtl == \A r \in Readers : shown[r] # NoEntry => shown[r].maxAge <= TTL

CInv ==
  /\ CacheTypeOK
  /\ EntryIsFresh
  /\ InTime
  /\ BodyIsFresh
  /\ TtlIsFresh
  /\ ComputedSince
  /\ MaxAgeIsTtl
  /\ AgeIsBounded

LEMMA InitCInv ==
  ASSUME CacheAssumption, StorefrontAssumption, CatalogueAssumption, Init
  PROVE  CInv
  <1>1. CacheInit(Created) /\ Created \in Contents
    BY DEF Init, StorefrontAssumption, CatalogueAssumption
  <1>2. CacheTypeOK
    BY <1>1 DEF CacheAssumption, CacheInit, CacheTypeOK, Entry, Gone
  <1>3. EntryIsFresh
    BY <1>1 DEF CacheAssumption, CacheInit, EntryIsFresh
  <1>4. InTime /\ BodyIsFresh /\ TtlIsFresh /\ ComputedSince /\ MaxAgeIsTtl /\ AgeIsBounded
    BY <1>1 DEF CacheInit, Busy, InTime, BodyIsFresh, TtlIsFresh, ComputedSince, MaxAgeIsTtl, AgeIsBounded
  <1>5. QED
    BY <1>2, <1>3, <1>4 DEF CInv

\* The clock does not pass a request by.
LEMMA TickKeepsCInv ==
  ASSUME CacheAssumption, CInv, Tick
  PROVE  CInv'
  <1>1. /\ now \in Nat /\ now' = now + 1 /\ UNCHANGED <<requests, shown>>
        /\ entry' \in {entry, NoEntry}
        /\ entry' # NoEntry => now' < entry.expires
    BY DEF Tick, CInv, CacheTypeOK, Entry
  <1>2. CacheTypeOK'
    BY <1>1 DEF Tick, CInv, CacheTypeOK, requests, CacheAssumption
  <1>3. EntryIsFresh'
    BY <1>1 DEF CInv, CacheTypeOK, Entry, EntryIsFresh, CacheAssumption
  <1>4. InTime'
    BY <1>1 DEF Tick, CInv, CacheTypeOK, InTime, requests, CacheAssumption
  <1>5. BodyIsFresh' /\ TtlIsFresh' /\ MaxAgeIsTtl' /\ AgeIsBounded'
    BY <1>1 DEF CInv, requests, BodyIsFresh, TtlIsFresh, MaxAgeIsTtl, AgeIsBounded, MaxAge
  <1>6. ComputedSince'
    BY <1>1 DEF CInv, CacheTypeOK, Entry, requests, ComputedSince
  <1>7. QED
    BY <1>2, <1>3, <1>4, <1>5, <1>6 DEF CInv

\* Nor does a request that comes, reads, gives up reading or computes disturb the others.
LEMMA RequestKeepsCInv ==
  ASSUME CacheAssumption, CInv, NEW r \in Readers,
         UNCHANGED <<now, entry, shown>>,
         \A q \in Readers \ {r} :
           /\ step'[q] = step[q] /\ since'[q] = since[q] /\ body'[q] = body[q]
           /\ ttlLeft'[q] = ttlLeft[q] /\ ttlOf'[q] = ttlOf[q],
         CacheTypeOK',
         step'[r] \in Busy => since'[r] <= now /\ now <= since'[r] + MaxDelay,
         step'[r] \in {"ttl", "decide"} /\ body'[r] # NoEntry =>
           since'[r] < body'[r].expires /\ body'[r].expires <= body'[r].readAt + MaxDelay + TTL,
         step'[r] \in {"get", "decide"} =>
           ttlLeft'[r] <= TTL /\ (ttlOf'[r] # NoEntry => ttlLeft'[r] <= ttlOf'[r].expires - since'[r]),
         step'[r] = "store" =>
           body'[r] # NoEntry /\ since'[r] <= body'[r].readAt /\ body'[r].readAt <= now
  PROVE  CInv'
  <1>1. EntryIsFresh' /\ MaxAgeIsTtl' /\ AgeIsBounded'
    BY DEF CInv, EntryIsFresh, MaxAgeIsTtl, AgeIsBounded, MaxAge
  <1>2. InTime'
    BY DEF CInv, InTime
  <1>3. BodyIsFresh'
    BY DEF CInv, BodyIsFresh
  <1>4. TtlIsFresh'
    BY DEF CInv, TtlIsFresh
  <1>5. ComputedSince'
    BY DEF CInv, ComputedSince
  <1>6. QED
    BY <1>1, <1>2, <1>3, <1>4, <1>5 DEF CInv

-----------------------------------------------------------------------------
\* The actions of one request.

LEMMA RequestStep ==
  ASSUME CacheAssumption, CInv, NEW r \in Readers, Request(r)
  PROVE  CInv'
  <1>1. /\ UNCHANGED <<now, entry, body, ttlLeft, ttlOf, shown>>
        /\ step'[r] = "both" /\ since'[r] = now
        /\ step' \in [Readers -> Busy \cup {"idle", "done"}] /\ since' \in [Readers -> Nat]
        /\ \A q \in Readers \ {r} : step'[q] = step[q] /\ since'[q] = since[q]
    BY DEF Request, Go, CInv, CacheTypeOK, Busy
  <1>2. CacheTypeOK'
    BY <1>1 DEF CInv, CacheTypeOK
  <1>3. now \in Nat /\ MaxDelay \in Nat
    BY DEF CInv, CacheTypeOK, CacheAssumption
  <1>4. QED
    BY <1>1, <1>2, <1>3, RequestKeepsCInv

LEMMA GetStep ==
  ASSUME CacheAssumption, CInv, NEW r \in Readers, Get(r)
  PROVE  CInv'
  <1>1. /\ UNCHANGED <<now, entry, since, ttlLeft, ttlOf, shown>>
        /\ \/ step[r] = "both" /\ step'[r] = "ttl"
           \/ (step[r] = "get" /\ step'[r] = "decide")
        /\ body'[r] = entry
        /\ step' \in [Readers -> Busy \cup {"idle", "done"}]
        /\ body' \in [Readers -> Entry \cup {NoEntry}]
        /\ \A q \in Readers \ {r} : step'[q] = step[q] /\ body'[q] = body[q]
    BY DEF Get, Go, CInv, CacheTypeOK, Busy
  <1>2. CacheTypeOK'
    BY <1>1 DEF CInv, CacheTypeOK
  <1>3. since[r] <= now /\ now <= since[r] + MaxDelay
    BY <1>1 DEF CInv, InTime, Busy
  <1>4. entry # NoEntry =>
          since[r] < entry.expires /\ entry.expires <= entry.readAt + MaxDelay + TTL
    BY <1>3 DEF CInv, EntryIsFresh, CacheTypeOK, Entry
  <1>5. step'[r] = "decide" =>
          ttlLeft[r] <= TTL /\ (ttlOf[r] # NoEntry => ttlLeft[r] <= ttlOf[r].expires - since[r])
    BY <1>1 DEF CInv, TtlIsFresh
  <1>6. QED
    BY <1>1, <1>2, <1>3, <1>4, <1>5, RequestKeepsCInv

LEMMA TtlStep ==
  ASSUME CacheAssumption, CInv, NEW r \in Readers, Ttl(r)
  PROVE  CInv'
  <1>1. /\ UNCHANGED <<now, entry, since, body, shown>>
        /\ \/ step[r] = "both" /\ step'[r] = "get"
           \/ (step[r] = "ttl" /\ step'[r] = "decide")
        /\ ttlOf'[r] = entry
        /\ ttlLeft'[r] = IF entry = NoEntry THEN Gone ELSE entry.expires - now
        /\ step' \in [Readers -> Busy \cup {"idle", "done"}]
        /\ ttlOf' \in [Readers -> Entry \cup {NoEntry}]
        /\ \A q \in Readers \ {r} :
             step'[q] = step[q] /\ ttlLeft'[q] = ttlLeft[q] /\ ttlOf'[q] = ttlOf[q]
    BY DEF Ttl, Go, CInv, CacheTypeOK, Busy
  <1>2. ttlLeft' \in [Readers -> Int]
    BY DEF Ttl, CInv, CacheTypeOK, Entry, Gone
  <1>3. CacheTypeOK'
    BY <1>1, <1>2 DEF CInv, CacheTypeOK
  <1>4. since[r] <= now /\ now <= since[r] + MaxDelay
    BY <1>1 DEF CInv, InTime, Busy
  <1>5. ttlLeft'[r] <= TTL /\ (ttlOf'[r] # NoEntry => ttlLeft'[r] <= ttlOf'[r].expires - since[r])
    BY <1>1, <1>4 DEF CInv, EntryIsFresh, CacheTypeOK, Entry, Gone, CacheAssumption
  <1>6. step'[r] = "decide" /\ body[r] # NoEntry =>
          since[r] < body[r].expires /\ body[r].expires <= body[r].readAt + MaxDelay + TTL
    BY <1>1 DEF CInv, BodyIsFresh
  <1>7. QED
    BY <1>1, <1>3, <1>4, <1>5, <1>6, RequestKeepsCInv

\* What was read is forgotten.
LEMMA ForgetStep ==
  ASSUME CacheAssumption, CInv, NEW r \in Readers, RetrieveFails(r) \/ IgnoreStored(r)
  PROVE  CInv'
  <1>1. /\ UNCHANGED <<now, entry, since, shown>>
        /\ step[r] \in Busy /\ step'[r] = "compute"
        /\ step' \in [Readers -> Busy \cup {"idle", "done"}]
        /\ \A q \in Readers \ {r} : step'[q] = step[q]
    BY DEF RetrieveFails, IgnoreStored, Go, CInv, CacheTypeOK, Busy
  <1>2. /\ ttlOf' \in [Readers -> Entry \cup {NoEntry}]
        /\ body' \in [Readers -> Entry \cup {NoEntry}]
        /\ ttlLeft' \in [Readers -> Int]
        /\ \A q \in Readers \ {r} :
             ttlLeft'[q] = ttlLeft[q] /\ ttlOf'[q] = ttlOf[q] /\ body'[q] = body[q]
    BY DEF RetrieveFails, IgnoreStored, CInv, CacheTypeOK, Gone
  <1>3. CacheTypeOK'
    BY <1>1, <1>2 DEF CInv, CacheTypeOK
  <1>4. since[r] <= now /\ now <= since[r] + MaxDelay
    BY <1>1 DEF CInv, InTime
  <1>5. QED
    BY <1>1, <1>2, <1>3, <1>4, RequestKeepsCInv

LEMMA ComputeStep ==
  ASSUME CacheAssumption, CInv, NEW r \in Readers, NEW content \in Contents, Compute(r, content)
  PROVE  CInv'
  <1>1. /\ UNCHANGED <<now, entry, since, ttlLeft, ttlOf, shown>>
        /\ step[r] = "compute" /\ step'[r] = "store"
        /\ body'[r] = [content |-> content, readAt |-> now, expires |-> now]
        /\ step' \in [Readers -> Busy \cup {"idle", "done"}]
        /\ \A q \in Readers \ {r} : step'[q] = step[q] /\ body'[q] = body[q]
    BY DEF Compute, Go, CInv, CacheTypeOK, Busy
  <1>2. now \in Nat /\ body'[r] \in Entry
    BY <1>1 DEF CInv, CacheTypeOK, CacheAssumption, Entry
  <1>3. body' \in [Readers -> Entry \cup {NoEntry}]
    BY <1>1, <1>2 DEF CInv, CacheTypeOK, Compute
  <1>4. CacheTypeOK'
    BY <1>1, <1>3 DEF CInv, CacheTypeOK
  <1>5. since[r] <= now /\ now <= since[r] + MaxDelay
    BY <1>1 DEF CInv, InTime, Busy
  <1>6. body'[r] # NoEntry
    BY <1>2 DEF CacheAssumption
  <1>7. QED
    BY <1>1, <1>2, <1>4, <1>5, <1>6, RequestKeepsCInv

\* What the end of a request leaves of it.
LEMMA FinishTypes ==
  ASSUME CacheTypeOK, NEW r \in Readers, Finish(r)
  PROVE  /\ now' = now
         /\ step' \in [Readers -> Busy \cup {"idle", "done"}] /\ since' \in [Readers -> Nat]
         /\ body' \in [Readers -> Entry \cup {NoEntry}] /\ ttlLeft' \in [Readers -> Int]
         /\ ttlOf' \in [Readers -> Entry \cup {NoEntry}]
         /\ step'[r] = "done"
         /\ \A q \in Readers \ {r} :
              /\ step'[q] = step[q] /\ since'[q] = since[q] /\ body'[q] = body[q]
              /\ ttlLeft'[q] = ttlLeft[q] /\ ttlOf'[q] = ttlOf[q]
  <1>1. step' \in [Readers -> Busy \cup {"idle", "done"}] /\ since' \in [Readers -> Nat]
    BY DEF Finish, CacheTypeOK
  <1>2. body' \in [Readers -> Entry \cup {NoEntry}] /\ ttlLeft' \in [Readers -> Int]
    BY DEF Finish, CacheTypeOK, Gone
  <1>3. ttlOf' \in [Readers -> Entry \cup {NoEntry}] /\ now' = now
    BY DEF Finish, CacheTypeOK
  <1>4. /\ step'[r] = "done"
        /\ \A q \in Readers \ {r} : step'[q] = step[q] /\ since'[q] = since[q] /\ body'[q] = body[q]
    BY DEF Finish, CacheTypeOK
  <1>5. \A q \in Readers \ {r} : ttlLeft'[q] = ttlLeft[q] /\ ttlOf'[q] = ttlOf[q]
    BY DEF Finish, CacheTypeOK
  <1>6. QED
    BY <1>1, <1>2, <1>3, <1>4, <1>5

\* A request that ends disturbs no other, when what it leaves in Redis is fresh and what it
\* answers is as young as is promised.
LEMMA FinishKeepsCInv ==
  ASSUME CacheAssumption, CInv, NEW r \in Readers, Finish(r),
         entry' \in Entry \cup {NoEntry}, EntryIsFresh',
         shown' \in [Readers -> Answer \cup {NoEntry}],
         \A q \in Readers \ {r} : shown'[q] = shown[q],
         shown'[r] # NoEntry => /\ shown'[r].maxAge <= TTL
                                /\ shown'[r].until <= shown'[r].readAt + MaxAge(shown'[r])
  PROVE  CInv'
  <1>1. CacheTypeOK
    BY DEF CInv
  <1>2. CacheTypeOK'
    BY <1>1, FinishTypes DEF CacheTypeOK
  <1>3. InTime'
    BY <1>1, FinishTypes DEF CInv, InTime, Busy
  <1>4. BodyIsFresh' /\ TtlIsFresh' /\ ComputedSince'
    BY <1>1, FinishTypes DEF CInv, BodyIsFresh, TtlIsFresh, ComputedSince
  <1>5. MaxAgeIsTtl' /\ AgeIsBounded'
    BY DEF CInv, MaxAgeIsTtl, AgeIsBounded, MaxAge
  <1>6. QED
    BY <1>2, <1>3, <1>4, <1>5 DEF CInv

\* A step that neither shows anything nor stores anything.
LEMMA FailStep ==
  ASSUME CacheAssumption, CInv, NEW r \in Readers, RequestFails(r)
  PROVE  CInv'
  <1>1. Finish(r) /\ UNCHANGED <<entry, shown>>
    BY DEF RequestFails
  <1>2. EntryIsFresh'
    BY <1>1 DEF Finish, CInv, EntryIsFresh
  <1>3. /\ entry' \in Entry \cup {NoEntry}
        /\ shown' \in [Readers -> Answer \cup {NoEntry}]
        /\ \A q \in Readers : shown'[q] = shown[q]
    BY <1>1 DEF CInv, CacheTypeOK
  <1>4. shown'[r] # NoEntry => /\ shown'[r].maxAge <= TTL
                               /\ shown'[r].until <= shown'[r].readAt + MaxAge(shown'[r])
    BY <1>1 DEF CInv, MaxAgeIsTtl, AgeIsBounded, MaxAge
  <1>5. QED
    BY <1>1, <1>2, <1>3, <1>4, FinishKeepsCInv

\* What is shown is as young as is promised, whether the response is answered in full, with
\* a max-age up to the bound, or a 304 lets the client's own max-age count once more.
LEMMA ShowsFresh ==
  ASSUME CacheAssumption, CInv, NEW r \in Readers, NEW response, NEW maxAge \in Int,
         NEW mixed \in BOOLEAN,
         response.content \in Contents, response.readAt \in Nat, maxAge <= TTL,
         now <= response.readAt + TTL + 2 * MaxDelay,
         now + maxAge <= response.readAt + TTL + 2 * MaxDelay + (IF mixed THEN TTL ELSE 0),
         Show(r, response, maxAge, mixed)
  PROVE  /\ Finish(r)
         /\ shown' \in [Readers -> Answer \cup {NoEntry}]
         /\ \A q \in Readers \ {r} : shown'[q] = shown[q]
         /\ shown'[r].maxAge <= TTL
         /\ shown'[r].until <= shown'[r].readAt + MaxAge(shown'[r])
  <1>1. PICK m \in Int, stretched \in BOOLEAN :
          /\ shown' = [shown EXCEPT ![r] = ToShow(response, m, stretched)]
          /\ m <= TTL
          /\ now + m <= response.readAt + TTL + 2 * MaxDelay + (IF stretched THEN TTL ELSE 0)
    <2>1. CASE shown' = [shown EXCEPT ![r] = ToShow(response, maxAge, mixed)]
      BY <2>1
    <2>2. CASE \E q \in Readers :
                 /\ shown[q] # NoEntry
                 /\ shown' = [shown EXCEPT ![r] = ToShow(response, shown[q].maxAge, TRUE)]
      <3>1. PICK q \in Readers :
              /\ shown[q] # NoEntry
              /\ shown' = [shown EXCEPT ![r] = ToShow(response, shown[q].maxAge, TRUE)]
        BY <2>2
      <3>2. shown[q].maxAge \in Int /\ shown[q].maxAge <= TTL
        BY <3>1 DEF CInv, CacheTypeOK, Answer, MaxAgeIsTtl
      <3>3. now \in Nat /\ TTL \in Nat /\ MaxDelay \in Nat
        BY DEF CInv, CacheTypeOK, CacheAssumption
      <3>4. now + shown[q].maxAge <= response.readAt + TTL + 2 * MaxDelay + TTL
        BY <3>2, <3>3
      <3>5. QED
        BY <3>1, <3>2, <3>4
    <2>3. QED
      BY <2>1, <2>2 DEF Show
  <1>2. now \in Nat /\ now + m \in Int
    BY DEF CInv, CacheTypeOK, CacheAssumption
  <1>3. ToShow(response, m, stretched) \in Answer
    BY <1>2 DEF Answer, ToShow
  <1>4. /\ shown' \in [Readers -> Answer \cup {NoEntry}]
        /\ \A q \in Readers \ {r} : shown'[q] = shown[q]
        /\ shown'[r] = ToShow(response, m, stretched)
    BY <1>1, <1>3 DEF CInv, CacheTypeOK
  <1>5. /\ shown'[r].maxAge = m /\ shown'[r].until = now + m
        /\ shown'[r].readAt = response.readAt /\ shown'[r].stretched = stretched
    BY <1>4 DEF ToShow
  <1>6. MaxAge(shown'[r]) = TTL + 2 * MaxDelay + (IF stretched THEN TTL ELSE 0)
    BY <1>5 DEF MaxAge
  <1>7. shown'[r].until <= shown'[r].readAt + MaxAge(shown'[r])
    BY <1>1, <1>2, <1>5, <1>6 DEF CacheAssumption
  <1>8. QED
    BY <1>1, <1>4, <1>5, <1>7 DEF Show

\* A stored response is announced for what is left of the time to live that was told: of
\* the same response, or of another one.
LEMMA UseStoredStep ==
  ASSUME CacheAssumption, CInv, NEW r \in Readers, UseStored(r)
  PROVE  CInv'
  <1> DEFINE mixed == body[r] # ttlOf[r]
  <1>1. /\ step[r] = "decide" /\ body[r] # NoEntry /\ UNCHANGED entry
        /\ Show(r, body[r], ttlLeft[r], mixed)
    BY DEF UseStored, Announced
  <1>2. /\ body[r] \in Entry /\ ttlLeft[r] \in Int /\ since[r] \in Nat /\ now \in Nat
        /\ TTL \in Nat /\ MaxDelay \in Nat
    BY <1>1 DEF CInv, CacheTypeOK, CacheAssumption
  <1>3. body[r].content \in Contents /\ body[r].readAt \in Nat /\ body[r].expires \in Nat
    BY <1>2 DEF Entry
  <1>4. since[r] <= now /\ now <= since[r] + MaxDelay
    BY <1>1 DEF CInv, InTime, Busy
  <1>5. since[r] < body[r].expires /\ body[r].expires <= body[r].readAt + MaxDelay + TTL
    BY <1>1 DEF CInv, BodyIsFresh
  <1>6. ttlLeft[r] <= TTL /\ (~mixed => ttlLeft[r] <= body[r].expires - since[r])
    BY <1>1 DEF CInv, TtlIsFresh
  <1>7. /\ now <= body[r].readAt + TTL + 2 * MaxDelay
        /\ now + ttlLeft[r] <= body[r].readAt + TTL + 2 * MaxDelay + (IF mixed THEN TTL ELSE 0)
    BY <1>2, <1>3, <1>4, <1>5, <1>6
  <1>8. mixed \in BOOLEAN
    OBVIOUS
  <1> HIDE DEF mixed
  <1>9. /\ Finish(r)
        /\ shown' \in [Readers -> Answer \cup {NoEntry}]
        /\ \A q \in Readers \ {r} : shown'[q] = shown[q]
        /\ shown'[r].maxAge <= TTL
        /\ shown'[r].until <= shown'[r].readAt + MaxAge(shown'[r])
    BY <1>1, <1>2, <1>3, <1>6, <1>7, <1>8, ShowsFresh
  <1>10. entry' \in Entry \cup {NoEntry}
    BY <1>1 DEF CInv, CacheTypeOK
  <1>11. EntryIsFresh'
    BY <1>1, <1>9 DEF Finish, CInv, EntryIsFresh
  <1>12. QED
    BY <1>9, <1>10, <1>11, FinishKeepsCInv

LEMMA StoreStep ==
  ASSUME CacheAssumption, CInv, NEW r \in Readers, Store(r)
  PROVE  CInv'
  <1> DEFINE mixed == FALSE
  <1>1. /\ step[r] = "store" /\ Show(r, body[r], TTL, mixed)
        /\ entry' = [body[r] EXCEPT !.expires = now + TTL]
    BY DEF Store, Expiry
  <1>2. body[r] \in Entry /\ since[r] <= body[r].readAt /\ body[r].readAt <= now
    BY <1>1 DEF CInv, CacheTypeOK, ComputedSince
  <1>3. /\ since[r] \in Nat /\ now \in Nat /\ TTL \in Nat \ {0} /\ MaxDelay \in Nat
        /\ body[r].content \in Contents /\ body[r].readAt \in Nat
    BY <1>2 DEF CInv, CacheTypeOK, CacheAssumption, Entry
  <1>4. now <= since[r] + MaxDelay
    BY <1>1 DEF CInv, InTime, Busy
  <1>5. /\ now <= body[r].readAt + TTL + 2 * MaxDelay
        /\ now + TTL <= body[r].readAt + TTL + 2 * MaxDelay + (IF mixed THEN TTL ELSE 0)
    BY <1>2, <1>3, <1>4
  <1>a. mixed \in BOOLEAN /\ TTL \in Int /\ TTL <= TTL
    BY <1>3
  <1> HIDE DEF mixed
  <1>6. /\ Finish(r)
        /\ shown' \in [Readers -> Answer \cup {NoEntry}]
        /\ \A q \in Readers \ {r} : shown'[q] = shown[q]
        /\ shown'[r].maxAge <= TTL
        /\ shown'[r].until <= shown'[r].readAt + MaxAge(shown'[r])
    BY <1>1, <1>3, <1>5, <1>a, ShowsFresh
  <1>7. entry' \in Entry /\ entry'.expires = now + TTL /\ entry'.readAt = body[r].readAt
    BY <1>1, <1>2, <1>3 DEF Entry
  <1>8. now' = now
    BY <1>6 DEF Finish
  <1>9. EntryIsFresh'
    BY <1>2, <1>3, <1>4, <1>7, <1>8 DEF EntryIsFresh
  <1>10. QED
    BY <1>6, <1>7, <1>9, FinishKeepsCInv

LEMMA CrashStep ==
  ASSUME CacheAssumption, CInv, CacheCrash
  PROVE  CInv'
  <1>1. /\ UNCHANGED <<now, entry, shown>>
        /\ \A r \in Readers : step'[r] \in {"idle", "done"}
        /\ step' \in [Readers -> Busy \cup {"idle", "done"}]
    BY DEF CacheCrash, CInv, CacheTypeOK, Busy
  <1>2. /\ since' \in [Readers -> Nat] /\ body' \in [Readers -> Entry \cup {NoEntry}]
        /\ ttlLeft' \in [Readers -> Int] /\ ttlOf' \in [Readers -> Entry \cup {NoEntry}]
    BY DEF CacheCrash, Gone
  <1>3. CacheTypeOK'
    BY <1>1, <1>2 DEF CInv, CacheTypeOK
  <1>4. EntryIsFresh' /\ MaxAgeIsTtl' /\ AgeIsBounded'
    BY <1>1 DEF CInv, EntryIsFresh, MaxAgeIsTtl, AgeIsBounded, MaxAge
  <1>5. InTime' /\ BodyIsFresh' /\ TtlIsFresh' /\ ComputedSince'
    BY <1>1 DEF Busy, InTime, BodyIsFresh, TtlIsFresh, ComputedSince
  <1>6. QED
    BY <1>3, <1>4, <1>5 DEF CInv

-----------------------------------------------------------------------------
\* The clock moves with Tick only, and whatever changes the catalogue is watched.
LEMMA NextSteps ==
  ASSUME Next
  PROVE  /\ CacheNext \/ UNCHANGED cacheVars
         /\ Watch \/ UNCHANGED <<product, lastSeen>>
  <1>1. ASSUME CatalogueStep \/ RatesStep  PROVE UNCHANGED cacheVars
    BY <1>1 DEF CatalogueStep, RatesStep
  <1>2. ASSUME CatalogueStep \/ RatesStep \/ CacheStep
        PROVE  Watch \/ UNCHANGED <<product, lastSeen>>
    BY <1>2 DEF CatalogueStep, RatesStep, CacheStep, catalogueVars
  <1>3. ASSUME NEW s \in Scripts, Start(s) \/ SaveSome(s) \/ CommitScript(s) \/ GiveUp(s)
        PROVE  CatalogueStep \/ RatesStep
    BY <1>3 DEF Start, SaveSome, ConvertItem, Save, Detail, CommitScript, GiveUp
  <1>4. ASSUME NEW j \in Jobs, Sweep(j) \/ CommitSweep(j) \/ LoopDies(j)
        PROVE  CatalogueStep
    BY <1>4 DEF Sweep, CommitSweep, LoopDies
  <1>5. ASSUME NEW e \in Edits,
               UpdatePrices(e) \/ \E p \in Products : Create(e, p) \/ Update(e, p) \/ Delete(e, p)
        PROVE  CatalogueStep
    BY <1>5 DEF UpdatePrices, Create, Update, Delete
  <1>6. ASSUME NEW q \in Setters, SetExchangeRate(q)  PROVE RatesStep
    BY <1>6 DEF SetExchangeRate
  <1>7. ASSUME NEW r \in Readers, Read(r) \/ List(r)
        PROVE  CacheStep /\ CacheNext
    BY <1>7 DEF Read, List, CacheNext, Offers
  <1>8. ASSUME NEW p \in Products, OrderOrEnd(p)  PROVE CatalogueStep
    BY <1>8 DEF OrderOrEnd
  <1>9. ASSUME PassTime \/ ServerRestarts  PROVE Watch /\ CacheNext
    BY <1>9 DEF PassTime, ServerRestarts, CacheNext
  <1>10. QED
    BY <1>1, <1>2, <1>3, <1>4, <1>5, <1>6, <1>7, <1>8, <1>9 DEF Next

LEMMA NextCInv ==
  ASSUME CacheAssumption, StorefrontAssumption, CInv, [Next]_storefrontVars
  PROVE  CInv'
  <1>1. CASE UNCHANGED cacheVars
    <2>1. UNCHANGED <<now, entry, step, since, body, ttlLeft, ttlOf, shown>>
      BY <1>1 DEF cacheVars, requests
    <2>2. CacheTypeOK' /\ EntryIsFresh' /\ InTime' /\ BodyIsFresh'
      BY <2>1 DEF CInv, CacheTypeOK, EntryIsFresh, InTime, BodyIsFresh
    <2>3. TtlIsFresh' /\ ComputedSince' /\ MaxAgeIsTtl' /\ AgeIsBounded'
      BY <2>1 DEF CInv, TtlIsFresh, ComputedSince, MaxAgeIsTtl, AgeIsBounded, MaxAge
    <2>4. QED
      BY <2>2, <2>3 DEF CInv
  <1>2. CASE CacheNext
    <2>1. Offers \in Contents
      BY DEF Offers, StorefrontAssumption
    <2>2. CASE Tick
      BY <2>2, TickKeepsCInv
    <2>3. CASE CacheCrash
      BY <2>3, CrashStep
    <2>4. ASSUME NEW r \in Readers, ReaderStep(r)  PROVE CInv'
      BY <2>4, RequestStep, GetStep, TtlStep, ForgetStep, UseStoredStep, StoreStep, FailStep
         DEF ReaderStep
    <2>5. ASSUME NEW r \in Readers, Compute(r, Offers)  PROVE CInv'
      BY <2>1, <2>5, ComputeStep
    <2>6. QED
      BY <1>2, <2>2, <2>3, <2>4, <2>5 DEF CacheNext
  <1>3. QED
    BY <1>1, <1>2, NextSteps DEF storefrontVars

\* However requests, failures, restarts and the clock interleave, no client may show a
\* response for longer than one time to live and twice the duration of a request after the
\* products were read, and one time to live more when a 304 of the decorator cache() renewed
\* what the client had, or GET and TTL were answered for different responses.
THEOREM AgesAreBounded == Spec => []AgeIsBounded
  <1>1. Init => CInv
    BY InitCInv, CacheAssumption, StorefrontAssumption, CatalogueAssumption
  <1>2. CInv /\ [Next]_storefrontVars => CInv'
    BY NextCInv, CacheAssumption, StorefrontAssumption
  <1>3. CInv => AgeIsBounded
    BY DEF CInv
  <1>4. QED
    BY <1>1, <1>2, <1>3, PTL DEF Spec

-----------------------------------------------------------------------------
\* A response names products that were there when it was computed, and are there or have
\* been seen since.
Known(content, t) ==
  /\ content \subseteq Products /\ t \in Int /\ t <= now
  /\ \A p \in content : Present(p) \/ t <= lastSeen[p]

RInv ==
  /\ lastSeen \in [Products -> Int]
  /\ entry # NoEntry => Known(entry.content, entry.readAt)
  /\ \A r \in Readers :
       /\ body[r] # NoEntry => Known(body[r].content, body[r].readAt)
       /\ shown[r] # NoEntry => Known(shown[r].content, shown[r].readAt)

LEMMA InitRInv ==
  ASSUME CacheAssumption, CatalogueAssumption, Init
  PROVE  RInv
  <1>1. lastSeen \in [Products -> Int]
    BY DEF Init
  <1>2. \A p \in Created : Present(p)
    <2>1. [parsed |-> FALSE, discount |-> 0, deal |-> "none"] \in Row
      BY DEF Row
    <2>2. QED
      BY <2>1 DEF Init, CatalogueInit, CatalogueAssumption, Present
  <1>3. ASSUME entry # NoEntry  PROVE Known(entry.content, entry.readAt)
    <2>1. entry.content = Created /\ entry.readAt = 0 /\ now = 0
      BY <1>3 DEF Init, CacheInit
    <2>2. QED
      BY <1>2, <2>1 DEF Known, CatalogueAssumption
  <1>4. \A r \in Readers : body[r] = NoEntry /\ shown[r] = NoEntry
    BY DEF Init, CacheInit
  <1>5. QED
    BY <1>1, <1>3, <1>4 DEF RInv

\* The clock and what is watched.
LEMMA NowMoves ==
  ASSUME CacheAssumption, CacheTypeOK, CacheNext \/ UNCHANGED cacheVars
  PROVE  now' \in {now, now + 1}
  BY DEF CacheNext, Tick, CacheCrash, ReaderStep, Request, Get, Ttl, RetrieveFails, UseStored,
         IgnoreStored, Store, RequestFails, Compute, Show, Finish, cacheVars

\* What was known stays known: what leaves the catalogue was there until now.
LEMMA KnownStays ==
  ASSUME CacheAssumption, CacheTypeOK, lastSeen \in [Products -> Int],
         Watch \/ UNCHANGED <<product, lastSeen>>, now' \in {now, now + 1}
  PROVE  /\ lastSeen' \in [Products -> Int]
         /\ \A content, t : Known(content, t) => Known(content, t)'
  <1>1. now \in Int
    BY DEF CacheTypeOK, CacheAssumption
  <1>2. lastSeen' \in [Products -> Int]
    BY <1>1 DEF Watch
  <1>3. ASSUME NEW content, NEW t, Known(content, t)  PROVE Known(content, t)'
    <2>1. content \subseteq Products /\ t \in Int /\ t <= now'
      BY <1>1, <1>3 DEF Known
    <2>2. ASSUME NEW p \in content  PROVE Present(p)' \/ t <= lastSeen'[p]
      <3>1. CASE Watch
        BY <1>1, <1>3, <3>1 DEF Watch, Known
      <3>2. CASE UNCHANGED <<product, lastSeen>>
        BY <1>3, <3>2 DEF Known, Present
      <3>3. QED
        BY <3>1, <3>2
    <2>3. QED
      BY <2>1, <2>2 DEF Known
  <1>4. QED
    BY <1>2, <1>3

\* What is stored, read or shown in a step was known before, or is in the catalogue.
Told(x) == x # NoEntry => Known(x.content, x.readAt)

LEMMA ContentsAreKnown ==
  ASSUME CacheAssumption, CInv, RInv, CacheNext \/ UNCHANGED cacheVars
  PROVE  Told(entry') /\ \A r \in Readers : Told(body'[r]) /\ Told(shown'[r])
  <1> USE DEF Told
  <1>1. Told(entry) /\ Told(NoEntry) /\ \A r \in Readers : Told(body[r]) /\ Told(shown[r])
    BY DEF RInv
  <1>2. Known(Offers, now)
    BY DEF Known, Offers, CInv, CacheTypeOK, CacheAssumption
  <1>3. /\ body \in [Readers -> Entry \cup {NoEntry}]
        /\ shown \in [Readers -> Answer \cup {NoEntry}]
    BY DEF CInv, CacheTypeOK
  <1> DEFINE computed == [content |-> Offers, readAt |-> now, expires |-> now]
  <1>4. Told(computed)
    BY <1>2
  <1>5. ASSUME NEW r \in Readers, NEW response, NEW maxAge, NEW mixed,
               Show(r, response, maxAge, mixed), Known(response.content, response.readAt)
        PROVE  \A q \in Readers : Told(body'[q]) /\ Told(shown'[q])
    <2>1. PICK m, stretched : shown' = [shown EXCEPT ![r] = ToShow(response, m, stretched)]
      BY <1>5 DEF Show
    <2>2. body' = [body EXCEPT ![r] = NoEntry]
      BY <1>5 DEF Show, Finish
    <2>3. \A q \in Readers : Told(body'[q])
      BY <1>1, <1>3, <2>2
    <2>4. \A q \in Readers : Told(shown'[q])
      BY <1>1, <1>3, <1>5, <2>1 DEF ToShow
    <2>5. QED
      BY <2>3, <2>4
  <1>6. ASSUME UNCHANGED shown,
               \/ UNCHANGED body
               \/ \E r \in Readers, x \in {entry, NoEntry, computed} : body' = [body EXCEPT ![r] = x]
        PROVE  \A q \in Readers : Told(body'[q]) /\ Told(shown'[q])
    BY <1>1, <1>3, <1>4, <1>6
  <1> HIDE DEF Told, computed
  <1>7. CASE UNCHANGED cacheVars \/ Tick
    BY <1>1, <1>6, <1>7 DEF cacheVars, requests, Tick
  <1>8. CASE CacheCrash
    BY <1>1, <1>8 DEF CacheCrash
  <1>9. ASSUME NEW r \in Readers, Request(r) \/ Get(r) \/ Ttl(r) \/ RetrieveFails(r) \/ IgnoreStored(r)
        PROVE  Told(entry') /\ \A q \in Readers : Told(body'[q]) /\ Told(shown'[q])
    <2>1. UNCHANGED <<entry, shown>>
      BY <1>9 DEF Request, Get, Ttl, RetrieveFails, IgnoreStored
    <2>2. \/ UNCHANGED body
          \/ \E x \in {entry, NoEntry, computed} : body' = [body EXCEPT ![r] = x]
      BY <1>9 DEF Request, Get, Ttl, RetrieveFails, IgnoreStored
    <2>3. QED
      BY <1>1, <1>6, <2>1, <2>2
  <1>10. ASSUME NEW r \in Readers, RequestFails(r)
        PROVE  Told(entry') /\ \A q \in Readers : Told(body'[q]) /\ Told(shown'[q])
    BY <1>1, <1>6, <1>10 DEF RequestFails, Finish
  <1>11. ASSUME NEW r \in Readers, UseStored(r)
        PROVE  Told(entry') /\ \A q \in Readers : Told(body'[q]) /\ Told(shown'[q])
    <2>1. UNCHANGED entry /\ body[r] # NoEntry /\ Show(r, body[r], ttlLeft[r], body[r] # ttlOf[r])
      BY <1>11 DEF UseStored, Announced
    <2>2. Known(body[r].content, body[r].readAt)
      BY <1>1, <2>1 DEF Told
    <2>3. QED
      BY <1>1, <1>5, <2>1, <2>2
  <1>12. ASSUME NEW r \in Readers, Store(r)
        PROVE  Told(entry') /\ \A q \in Readers : Told(body'[q]) /\ Told(shown'[q])
    <2>1. /\ body[r] # NoEntry /\ Show(r, body[r], TTL, FALSE)
          /\ entry' = [body[r] EXCEPT !.expires = Expiry(r)]
      BY <1>12 DEF Store, CInv, ComputedSince
    <2>2. Known(body[r].content, body[r].readAt)
      BY <1>1, <2>1 DEF Told
    <2>3. body[r] \in Entry
      BY <1>3, <2>1
    <2>4. entry'.content = body[r].content /\ entry'.readAt = body[r].readAt
      BY <2>1, <2>3 DEF Entry
    <2>5. Told(entry')
      BY <2>2, <2>4 DEF Told
    <2>6. QED
      BY <1>5, <2>1, <2>2, <2>5
  <1>13. ASSUME NEW r \in Readers, Compute(r, Offers)
        PROVE  Told(entry') /\ \A q \in Readers : Told(body'[q]) /\ Told(shown'[q])
    <2>1. UNCHANGED <<entry, shown>> /\ body' = [body EXCEPT ![r] = computed]
      BY <1>13 DEF Compute, computed
    <2>2. QED
      BY <1>1, <1>6, <2>1
  <1>14. QED
    BY <1>7, <1>8, <1>9, <1>10, <1>11, <1>12, <1>13 DEF CacheNext, ReaderStep

LEMMA NextRInv ==
  ASSUME CacheAssumption, CInv, RInv, [Next]_storefrontVars
  PROVE  RInv'
  <1>1. CacheNext \/ UNCHANGED cacheVars
    BY NextSteps DEF storefrontVars
  <1>2. Watch \/ UNCHANGED <<product, lastSeen>>
    BY NextSteps DEF storefrontVars, catalogueVars
  <1>3. CacheTypeOK /\ lastSeen \in [Products -> Int]
    BY DEF CInv, RInv
  <1>4. now' \in {now, now + 1}
    BY <1>1, <1>3, NowMoves
  <1>5. /\ lastSeen' \in [Products -> Int]
        /\ \A content, t : Known(content, t) => Known(content, t)'
    BY <1>2, <1>3, <1>4, KnownStays
  <1>6. Told(entry') /\ \A r \in Readers : Told(body'[r]) /\ Told(shown'[r])
    BY <1>1, ContentsAreKnown
  <1>7. entry' # NoEntry => Known(entry.content, entry.readAt)'
    BY <1>5, <1>6 DEF Told, Known
  <1>8. ASSUME NEW r \in Readers
        PROVE  /\ body'[r] # NoEntry => Known(body[r].content, body[r].readAt)'
               /\ shown'[r] # NoEntry => Known(shown[r].content, shown[r].readAt)'
    BY <1>5, <1>6 DEF Told, Known
  <1>9. QED
    BY <1>5, <1>7, <1>8 DEF RInv

\* Whatever scripts, loops, administrators, requests and restarts do at the same time, a
\* product that a client shows, while it may, is in the catalogue, or was there not longer
\* ago than AgesAreBounded allows.
THEOREM ShownProductsAreRecent == Spec => []ShownIsRecent
  <1>1. Init => CInv /\ RInv
    BY InitCInv, InitRInv, CacheAssumption, StorefrontAssumption, CatalogueAssumption
  <1>2. CInv /\ RInv /\ [Next]_storefrontVars => (CInv /\ RInv)'
    BY NextCInv, NextRInv, CacheAssumption, StorefrontAssumption
  <1>3. ASSUME CInv, RInv  PROVE ShownIsRecent
    <2>1. SUFFICES ASSUME NEW r \in Readers, shown[r] # NoEntry, now < shown[r].until,
                          NEW p \in shown[r].content, ~Present(p)
                   PROVE  now < lastSeen[p] + MaxAge(shown[r])
      BY DEF ShownIsRecent
    <2>2. shown[r] \in Answer /\ now \in Int
      BY <1>3, <2>1 DEF CInv, CacheTypeOK, CacheAssumption
    <2>3. shown[r].until <= shown[r].readAt + MaxAge(shown[r])
      BY <1>3, <2>1 DEF CInv, AgeIsBounded
    <2>4. shown[r].readAt <= lastSeen[p] /\ lastSeen[p] \in Int
      BY <1>3, <2>1 DEF RInv, Known
    <2>5. shown[r].readAt \in Int /\ shown[r].until \in Int /\ MaxAge(shown[r]) \in Int
      BY <2>2, CacheAssumption DEF Answer, MaxAge
    <2>6. QED
      BY <2>1, <2>2, <2>3, <2>4, <2>5
  <1>4. QED
    BY <1>1, <1>2, <1>3, PTL DEF Spec
=============================================================================
