--------------------------- MODULE CartContract ---------------------------
(***************************************************************************)
(* What the shop promises about carts.  A request is answered once; one    *)
(* that adds to a cart, or sets or removes an item of one, has its effect  *)
(* at a single instant if the answer is yes and none if it is no.  Signing *)
(* in writes items into the user's cart, once, and takes none out.  A      *)
(* session's cart is dropped as a whole when the session expires.          *)
(***************************************************************************)
EXTENDS Integers

CONSTANTS Requests, Owners, Sessions, Products, Absent, NoRequest

VARIABLES
  cart,     \* quantity of each product in each cart, or Absent
  asked,    \* what each open request asks for, or NoRequest
  outcome   \* "pending", "merged" (signing in), then "yes", "no" or "lost"

vars == <<cart, asked, outcome>>

Init ==
  /\ cart    = [o \in Owners |-> [p \in Products |-> Absent]]
  /\ asked   = [r \in Requests |-> NoRequest]
  /\ outcome = [r \in Requests |-> "pending"]

Ask(r) ==
  /\ asked[r] = NoRequest /\ outcome[r] = "pending"
  /\ asked'[r] \in [op : {"add", "remove", "set", "wish", "unwish", "signin"},
                    owner : Owners, user : Owners, item : Products \cup {Absent}, qty : Int]
  /\ asked' = [asked EXCEPT ![r] = asked'[r]]
  /\ UNCHANGED <<cart, outcome>>

Answer(r, from, to) ==
  /\ outcome[r] \in from
  /\ outcome' = [outcome EXCEPT ![r] = to]
  /\ asked' = [asked EXCEPT ![r] = IF to = "merged" THEN @ ELSE NoRequest]

\* The item the request is about gets this quantity.
Put(r, q) == cart' = [cart EXCEPT ![asked[r].owner][asked[r].item] = q]
Held(r)   == cart[asked[r].owner][asked[r].item]

Add(r) ==
  /\ asked[r] # NoRequest /\ asked[r].op = "add"
  /\ Answer(r, {"pending"}, "yes")
  /\ Put(r, IF Held(r) = Absent THEN asked[r].qty ELSE Held(r) + asked[r].qty)

\* An item is taken out only if it was in.
Remove(r) ==
  /\ asked[r] # NoRequest
  /\ \/ asked[r].op = "remove"
     \/ asked[r].op = "set" /\ asked[r].qty = 0
  /\ Held(r) # Absent
  /\ Answer(r, {"pending"}, "yes")
  /\ Put(r, Absent)

Set(r) ==
  /\ asked[r] # NoRequest /\ asked[r].op = "set"
  /\ asked[r].qty # 0
  /\ Answer(r, {"pending"}, "yes")
  /\ Put(r, asked[r].qty)

\* Requests about wishlists leave carts alone.
Wish(r) ==
  /\ asked[r] # NoRequest /\ asked[r].op \in {"wish", "unwish"}
  /\ Answer(r, {"pending"}, "yes")
  /\ UNCHANGED cart

\* Signing in takes no item out; the answer may come with the merge or later.
Merge(r) ==
  /\ asked[r] # NoRequest /\ asked[r].op = "signin"
  /\ \E to \in {"merged", "yes"} : Answer(r, {"pending"}, to)
  /\ LET u == asked[r].user IN
       /\ cart' = [cart EXCEPT ![u] = cart'[u]]
       /\ \A p \in Products : cart[u][p] # Absent => cart'[u][p] # Absent

SignedIn(r) ==
  /\ asked[r] # NoRequest /\ asked[r].op = "signin"
  /\ Answer(r, {"pending", "merged"}, "yes")
  /\ UNCHANGED cart

Refuse(r) ==
  /\ asked[r] # NoRequest
  /\ Answer(r, {"pending"}, "no")
  /\ UNCHANGED cart

Forget(s) ==
  /\ cart' = [cart EXCEPT ![s] = [p \in Products |-> Absent]]
  /\ UNCHANGED <<asked, outcome>>

\* The server dies with every request it has not answered.
Crash ==
  /\ outcome' = [r \in Requests |->
       IF asked[r] # NoRequest /\ outcome[r] \in {"pending", "merged"} THEN "lost" ELSE outcome[r]]
  /\ asked' = [r \in Requests |-> NoRequest]
  /\ UNCHANGED cart

Next ==
  \/ Crash
  \/ \E r \in Requests :
       Ask(r) \/ Add(r) \/ Remove(r) \/ Set(r) \/ Wish(r) \/ Merge(r) \/ SignedIn(r) \/ Refuse(r)
  \/ \E s \in Sessions : Forget(s)

Spec == Init /\ [][Next]_vars
=============================================================================
