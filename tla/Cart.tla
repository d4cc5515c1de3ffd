-------------------------------- MODULE Cart --------------------------------
(***************************************************************************)
(* The carts of one tenant, as CartService keeps them: created or merged   *)
(* by an owner (a customer, a session or both), changed line by line by    *)
(* cart id.  Tenants have separate cart lists, so one stands for all.      *)
(*                                                                         *)
(* POST /carts adds the items of its body one after the other and throws   *)
(* at the first it does not know: each addition is a step.  The handler is *)
(* synchronous, so no other request runs in between.  Carts are kept       *)
(* oldest first and named by position; the code prepends them.             *)
(***************************************************************************)
EXTENDS Integers, Sequences, SequencesExt

CONSTANTS
  Customers, Sessions,
  NoOne,          \* a customerId or sessionId that was not given
  Products,       \* product ids clients may send
  Catalog,        \* those the tenant's catalogue has, all active
  MaxCarts,       \* bound: carts stored
  MaxQuantity,    \* bound: lines with more units take no further ones
  MaxItems,       \* bound: items in the body of one POST /carts
  MaxRequest      \* bound: units asked for at once

ASSUME CartAssumption ==
  /\ Catalog \subseteq Products
  /\ NoOne \notin Customers /\ NoOne \notin Sessions
  /\ MaxCarts \in Nat /\ MaxQuantity \in Nat /\ MaxItems \in Nat /\ MaxRequest \in Nat

VARIABLES
  carts,   \* cartsByTenant: owner and lines of every cart
  job,     \* the POST /carts being handled, or Idle
  answer   \* status and event of the last finished request

vars == <<carts, job, answer>>

Owner == [customer : Customers \cup {NoOne}, session : Sessions \cup {NoOne}]
Owners == {o \in Owner : o.customer # NoOne \/ o.session # NoOne}
Item == [product : Products, quantity : 1 .. MaxRequest]
Bodies == UNION {[1 .. n -> Item] : n \in 1 .. MaxItems}

Line == [product : Catalog, quantity : Nat \ {0}]
CartRecord == [owner : Owners, lines : Seq(Line)]

\* target is the cart the items go to; 0 is the new cart of a creation, whose
\* lines wait in draft until it is stored.
Idle == [busy |-> FALSE]
Job == [busy : {TRUE}, owner : Owners, target : Nat, todo : Seq(Item), draft : Seq(Line)]

Init ==
  /\ carts = << >>
  /\ job = Idle
  /\ answer = [status |-> "none", event |-> "none"]

Answer(status, event) == answer' = [status |-> status, event |-> event]

-----------------------------------------------------------------------------
(* Lines *)

\* Definitions named Faulty... are variants with a bug the code could have had.
\* No specification uses one: each stands in for the definition after it when
\* the properties themselves are tested.

\* every addition opens a line
FaultyAddLine(lines, p, q) == Append(lines, [product |-> p, quantity |-> q])

\* A known product joins its line, or opens one at the end.
AddLine(lines, p, q) ==
  IF \E i \in 1 .. Len(lines) : lines[i].product = p
  THEN [i \in 1 .. Len(lines) |->
          IF lines[i].product = p THEN [product |-> p, quantity |-> lines[i].quantity + q]
          ELSE lines[i]]
  ELSE Append(lines, [product |-> p, quantity |-> q])

SetLine(lines, i, q) ==
  [lines EXCEPT ![i] = [product |-> lines[i].product, quantity |-> q]]

\* State-space bound on the units of a line; the code has none.
Small(lines) == \A i \in 1 .. Len(lines) : lines[i].quantity <= MaxQuantity

-----------------------------------------------------------------------------
(* POST /carts *)

\* the session counts only when no customer is named
FaultyOwns(o, cart) ==
  IF o.customer # NoOne THEN cart.owner.customer = o.customer
  ELSE cart.owner.session = o.session

\* The cart belongs to the customer named, or failing that to the session.
Owns(o, cart) ==
  \/ o.customer # NoOne /\ cart.owner.customer = o.customer
  \/ o.session # NoOne /\ cart.owner.session = o.session

Matches(o) == {k \in 1 .. Len(carts) : Owns(o, carts[k])}

\* findActiveCartForOwner: the newest cart that matches, 0 when none does.
IsTarget(o, k) ==
  IF Matches(o) = {} THEN k = 0
  ELSE k \in Matches(o) /\ \A other \in Matches(o) : other <= k

BeginCreate(o, body, k) ==
  /\ ~job.busy
  /\ IsTarget(o, k)
  /\ IF k = 0 THEN Len(carts) < MaxCarts ELSE Small(carts[k].lines)
  /\ job' = [busy |-> TRUE, owner |-> o, target |-> k, todo |-> body, draft |-> << >>]
  /\ UNCHANGED <<carts, answer>>

Growing == IF job.target = 0 THEN job.draft ELSE carts[job.target].lines

\* items are merged into the newest cart, whoever owns it
FaultyAddNext ==
  /\ job.busy /\ job.todo # << >>
  /\ LET item == Head(job.todo)
         lines == AddLine(Growing, item.product, item.quantity)
     IN  /\ item.product \in Catalog
         /\ IF job.target = 0
            THEN job' = [job EXCEPT !.todo = Tail(@), !.draft = lines] /\ UNCHANGED carts
            ELSE /\ carts' = [carts EXCEPT ![Len(carts)].lines = lines]
                 /\ job' = [job EXCEPT !.todo = Tail(@)]
  /\ UNCHANGED answer

AddNext ==
  /\ job.busy /\ job.todo # << >>
  /\ LET item == Head(job.todo)
         lines == AddLine(Growing, item.product, item.quantity)
     IN  /\ item.product \in Catalog
         /\ IF job.target = 0
            THEN job' = [job EXCEPT !.todo = Tail(@), !.draft = lines] /\ UNCHANGED carts
            ELSE /\ carts' = [carts EXCEPT ![job.target].lines = lines]
                 /\ job' = [job EXCEPT !.todo = Tail(@)]
  /\ UNCHANGED answer

\* The catalogue lacks the next product: a draft is lost, but what was merged
\* into a stored cart stays.
AddThrows ==
  /\ job.busy /\ job.todo # << >>
  /\ Head(job.todo).product \notin Catalog
  /\ job' = Idle
  /\ Answer("rejected", "none")
  /\ UNCHANGED carts

\* a merge stores a new cart as well
FaultyFinishCreate ==
  /\ job.busy /\ job.todo = << >>
  /\ carts' = Append(carts, [owner |-> job.owner, lines |-> job.draft])
  /\ job' = Idle
  /\ Answer("ok", "cart.created")

\* A merge publishes cart.created too.
FinishCreate ==
  /\ job.busy /\ job.todo = << >>
  /\ carts' = IF job.target = 0
              THEN Append(carts, [owner |-> job.owner, lines |-> job.draft])
              ELSE carts
  /\ job' = Idle
  /\ Answer("ok", "cart.created")

-----------------------------------------------------------------------------
(* Requests by cart id *)

\* POST /carts/:cartId/items
AddItem(k, p, q) ==
  /\ ~job.busy
  /\ p \in Catalog /\ Small(carts[k].lines)
  /\ carts' = [carts EXCEPT ![k].lines = AddLine(@, p, q)]
  /\ Answer("ok", "cart.item.added")
  /\ UNCHANGED job

\* zero does not remove the line
FaultyUpdateItem(k, i, q) ==
  /\ ~job.busy
  /\ carts' = [carts EXCEPT ![k].lines = SetLine(@, i, q)]
  /\ Answer("ok", "cart.item.updated")
  /\ UNCHANGED job

\* PATCH /carts/:cartId/items/:productId, which names line i; zero removes it.
UpdateItem(k, i, q) ==
  /\ ~job.busy
  /\ carts' = [carts EXCEPT ![k].lines =
                 IF q = 0 THEN RemoveAt(@, i) ELSE SetLine(@, i, q)]
  /\ Answer("ok", "cart.item.updated")
  /\ UNCHANGED job

\* DELETE /carts/:cartId/items/:productId
RemoveItem(k, i) ==
  /\ ~job.busy
  /\ carts' = [carts EXCEPT ![k].lines = RemoveAt(@, i)]
  /\ Answer("ok", "cart.item.removed")
  /\ UNCHANGED job

\* Requests refused before they touch a cart: no owner, no items, an unknown
\* cart, product or line, a quantity that is not positive.
RejectRequest ==
  /\ ~job.busy
  /\ Answer("rejected", "none")
  /\ UNCHANGED <<carts, job>>

Next ==
  \/ \E o \in Owners, body \in Bodies, k \in 0 .. Len(carts) : BeginCreate(o, body, k)
  \/ AddNext \/ AddThrows \/ FinishCreate
  \/ \E k \in 1 .. Len(carts) :
       \/ \E p \in Products, q \in 1 .. MaxRequest : AddItem(k, p, q)
       \/ \E i \in 1 .. Len(carts[k].lines), q \in 0 .. MaxRequest : UpdateItem(k, i, q)
       \/ \E i \in 1 .. Len(carts[k].lines) : RemoveItem(k, i)
  \/ RejectRequest

Spec == Init /\ [][Next]_vars

-----------------------------------------------------------------------------
(* Properties *)

TypeOK ==
  /\ carts \in Seq(CartRecord)
  /\ job \in Job \cup {Idle}
  /\ job.busy => job.target \in 0 .. Len(carts)
  /\ answer.status \in {"none", "ok", "rejected"}

\* A customer has at most one active cart, and so has a session: the cart a
\* creation merges into leaves no rival behind (cart.service.ts 61-67).
OwnerUnique ==
  \A i, k \in 1 .. Len(carts) :
    \/ carts[i].owner.customer = carts[k].owner.customer /\ carts[i].owner.customer # NoOne
    \/ carts[i].owner.session = carts[k].owner.session /\ carts[i].owner.session # NoOne
    => i = k

\* No cart and no draft has a product on two lines, whatever is added, merged,
\* updated and removed: checkout reserves line by line and relies on it.
Distinct(lines) ==
  \A i, k \in 1 .. Len(lines) : lines[i].product = lines[k].product => i = k
DistinctLines ==
  /\ \A k \in 1 .. Len(carts) : Distinct(carts[k].lines)
  /\ job.busy => Distinct(job.draft)

\* While a POST /carts runs, whether it succeeds or fails half way, no stored
\* cart but its target changes, and the target loses nothing.
Gains(old, new) ==
  \A i \in 1 .. Len(old) :
    i \in 1 .. Len(new) /\ new[i].product = old[i].product
                       /\ new[i].quantity >= old[i].quantity
OnlyAdds ==
  job.busy =>
    \A k \in 1 .. Len(carts) :
      /\ k # job.target => carts'[k] = carts[k]
      /\ carts'[k].owner = carts[k].owner
      /\ Gains(carts[k].lines, carts'[k].lines)
CreationOnlyAdds == [][OnlyAdds]_vars

\* "Merge repeated cart creation into existing active owner cart"
\* (FEATURE_CHECKLIST.md): once a creation is answered, the same request sent
\* again goes to the cart the first one filled.
Filled == IF job.target = 0 THEN Len(carts') ELSE job.target
Remembered ==
  \A o \in Owners :
    (job.busy /\ job.owner = o /\ ~job'.busy /\ answer'.status = "ok") =>
      \A k \in 1 .. Len(carts') : IsTarget(o, k)' <=> k = Filled
RepeatMerges == [][Remembered]_vars

\* The same sentence, for two customers: what a customer adds is not merged
\* into a cart that another customer owns.
MergeStaysWithOwner ==
  job.busy /\ job.target # 0 =>
    LET other == carts[job.target].owner.customer
    IN  job.owner.customer = NoOne \/ other = NoOne \/ other = job.owner.customer
=============================================================================
