--------------------------- MODULE ResponseCache ---------------------------
(***************************************************************************)
(* The decorator cache() of the handlers that list products, for one key.  *)
(*                                                                         *)
(* A request reads the stored response and its remaining time to live by   *)
(* two commands that are sent together and answered in any order, or it    *)
(* computes a response and stores it for TTL.  It takes MaxDelay at most,  *)
(* which bounds the runs of the clock and not the code.                    *)
(***************************************************************************)
EXTENDS Integers, FiniteSets

CONSTANTS
  Readers,     \* requests
  Contents,    \* what a response can say
  TTL,
  MaxDelay,    \* bound on the duration of a request
  MaxTime,     \* bound on the clock
  NoEntry

Entry  == [content : Contents, readAt : Nat, expires : Nat]
Answer == [content : Contents, readAt : Nat, maxAge : Int, until : Int, stretched : BOOLEAN]

ASSUME CacheAssumption ==
  /\ TTL \in Nat \ {0} /\ MaxDelay \in Nat /\ MaxTime \in Nat
  /\ NoEntry \notin Entry \cup Answer

VARIABLES
  now,
  entry,     \* what Redis holds under the key
  step,      \* progress of a request
  since,     \* when it came
  body,      \* the response it has read or computed
  ttlLeft,   \* answer to TTL
  ttlOf,     \* history: the response that answer was about
  shown      \* what the client has got, with its max-age, and may show until then; that is
             \* stretched when GET and TTL were answered for different responses, or by a 304

requests  == <<step, since, body, ttlLeft, ttlOf>>
cacheVars == <<now, entry, requests, shown>>

Busy == {"both", "get", "ttl", "decide", "compute", "store"}
Gone == -2     \* what TTL answers for a key that is not there

CacheTypeOK ==
  /\ now \in 0 .. MaxTime
  /\ entry \in Entry \cup {NoEntry}
  /\ step \in [Readers -> Busy \cup {"idle", "done"}]
  /\ since \in [Readers -> Nat]
  /\ body \in [Readers -> Entry \cup {NoEntry}]
  /\ ttlLeft \in [Readers -> Int]
  /\ ttlOf \in [Readers -> Entry \cup {NoEntry}]
  /\ shown \in [Readers -> Answer \cup {NoEntry}]

\* A response may have been stored just now.
CacheInit(content) ==
  /\ now     = 0
  /\ entry   \in {NoEntry, [content |-> content, readAt |-> 0, expires |-> TTL]}
  /\ step    = [r \in Readers |-> "idle"]
  /\ since   = [r \in Readers |-> 0]
  /\ body    = [r \in Readers |-> NoEntry]
  /\ ttlLeft = [r \in Readers |-> Gone]
  /\ ttlOf   = [r \in Readers |-> NoEntry]
  /\ shown   = [r \in Readers |-> NoEntry]

-----------------------------------------------------------------------------
\* Time passes; Redis drops the response when its time to live is over.
Tick ==
  /\ now < MaxTime
  /\ \A r \in Readers : step[r] \in Busy => now < since[r] + MaxDelay
  /\ now' = now + 1
  /\ entry' = IF entry # NoEntry /\ entry.expires <= now' THEN NoEntry ELSE entry
  /\ UNCHANGED <<requests, shown>>

Go(r, from, to) ==
  /\ step[r] = from
  /\ step' = [step EXCEPT ![r] = to]

\* A GET.  One with Cache-Control: no-store looks nothing up, and nobody stores its answer:
\* it is no step here.
Request(r) ==
  /\ Go(r, "idle", "both")
  /\ since' = [since EXCEPT ![r] = now]
  /\ UNCHANGED <<now, entry, body, ttlLeft, ttlOf, shown>>

\* Its end; it forgets what it has read.
Finish(r) ==
  /\ step'    = [step EXCEPT ![r] = "done"]
  /\ since'   = [since EXCEPT ![r] = 0]
  /\ body'    = [body EXCEPT ![r] = NoEntry]
  /\ ttlLeft' = [ttlLeft EXCEPT ![r] = Gone]
  /\ ttlOf'   = [ttlOf EXCEPT ![r] = NoEntry]
  /\ UNCHANGED now

\* The two commands of the gather.
Get(r) ==
  /\ Go(r, "both", "ttl") \/ Go(r, "get", "decide")
  /\ body' = [body EXCEPT ![r] = entry]
  /\ UNCHANGED <<now, entry, since, ttlLeft, ttlOf, shown>>

Ttl(r) ==
  /\ Go(r, "both", "get") \/ Go(r, "ttl", "decide")
  /\ ttlLeft' = [ttlLeft EXCEPT ![r] = IF entry = NoEntry THEN Gone ELSE entry.expires - now]
  /\ ttlOf' = [ttlOf EXCEPT ![r] = entry]
  /\ UNCHANGED <<now, entry, since, body, shown>>

RetrieveFails(r) ==
  /\ \E from \in {"both", "get", "ttl"} : Go(r, from, "compute")
  /\ body' = [body EXCEPT ![r] = NoEntry]
  /\ ttlLeft' = [ttlLeft EXCEPT ![r] = Gone]
  /\ ttlOf' = [ttlOf EXCEPT ![r] = NoEntry]
  /\ UNCHANGED <<now, entry, since, shown>>

ToShow(response, maxAge, stretched) ==
  [content |-> response.content, readAt |-> response.readAt,
   maxAge |-> maxAge, until |-> now + maxAge, stretched |-> stretched]

\* The answer.  A client that has the same response already, of an earlier request q, is
\* only told so: this 304 has no max-age, and so the one that came with q counts once more,
\* from now on.  (After a restart the ETags differ and there is no 304; it is allowed here.)
Show(r, response, maxAge, mixed) ==
  /\ \/ shown' = [shown EXCEPT ![r] = ToShow(response, maxAge, mixed)]
     \/ \E q \in Readers :
          /\ shown[q] # NoEntry /\ shown[q].content = response.content
          /\ shown' = [shown EXCEPT ![r] = ToShow(response, shown[q].maxAge, TRUE)]
  /\ Finish(r)

\* Mutant: what is left is not looked at.
AnnounceAll(r) == TTL

Announced(r) == ttlLeft[r]

UseStored(r) ==
  /\ step[r] = "decide" /\ body[r] # NoEntry
  /\ Show(r, body[r], Announced(r), body[r] # ttlOf[r])
  /\ UNCHANGED entry

\* Nothing is stored, or the client asks with no-cache.
IgnoreStored(r) ==
  /\ Go(r, "decide", "compute")
  /\ body' = [body EXCEPT ![r] = NoEntry]
  /\ ttlLeft' = [ttlLeft EXCEPT ![r] = Gone]
  /\ ttlOf' = [ttlOf EXCEPT ![r] = NoEntry]
  /\ UNCHANGED <<now, entry, since, shown>>

Compute(r, content) ==
  /\ Go(r, "compute", "store")
  /\ body' = [body EXCEPT ![r] = [content |-> content, readAt |-> now, expires |-> now]]
  /\ UNCHANGED <<now, entry, since, ttlLeft, ttlOf, shown>>

\* Mutant: the time to live is that of the response that was there.
KeepTtl(r) == IF entry = NoEntry THEN MaxTime + TTL ELSE entry.expires

Expiry(r) == now + TTL

Store(r) ==
  /\ step[r] = "store"
  /\ entry' = [body[r] EXCEPT !.expires = Expiry(r)]
  /\ Show(r, body[r], TTL, FALSE)

\* The handler fails, or SET does.
RequestFails(r) ==
  /\ step[r] \in {"compute", "store"}
  /\ Finish(r)
  /\ UNCHANGED <<entry, shown>>

\* The server dies with all requests.
CacheCrash ==
  /\ step'    = [r \in Readers |-> IF step[r] \in Busy THEN "done" ELSE step[r]]
  /\ since'   = [r \in Readers |-> 0]
  /\ body'    = [r \in Readers |-> NoEntry]
  /\ ttlLeft' = [r \in Readers |-> Gone]
  /\ ttlOf'   = [r \in Readers |-> NoEntry]
  /\ UNCHANGED <<now, entry, shown>>

ReaderStep(r) ==
  \/ Request(r) \/ Get(r) \/ Ttl(r) \/ RetrieveFails(r) \/ UseStored(r) \/ IgnoreStored(r)
  \/ Store(r) \/ RequestFails(r)

-----------------------------------------------------------------------------
\* How long after the products were read a client may show what it has got: one time to
\* live and twice the duration of a request; one time to live more if that was stretched.
MaxAge(answer) == TTL + 2 * MaxDelay + (IF answer.stretched THEN TTL ELSE 0)

AgeIsBounded ==
  \A r \in Readers : shown[r] # NoEntry => shown[r].until <= shown[r].readAt + MaxAge(shown[r])
=============================================================================
