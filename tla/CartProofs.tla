----------------------------- MODULE CartProofs -----------------------------
(***************************************************************************)
(* Proofs about Cart, for every catalogue, every set of customers and      *)
(* sessions and every bound.                                               *)
(***************************************************************************)
EXTENDS Cart, SequenceTheorems, TLAPS

-----------------------------------------------------------------------------
(* Operations on the lines of a cart *)

LEMMA LineFacts ==
  ASSUME NEW lines \in Seq(Line), NEW i \in 1 .. Len(lines)
  PROVE  /\ lines[i] \in Line /\ lines[i].product \in Catalog
         /\ lines[i].quantity \in Nat /\ lines[i].quantity # 0
<1>1. lines[i] \in Line
  BY ElementOfSeq
<1>2. PICK line \in Line : line = lines[i]
  BY <1>1
<1>3. /\ line.product \in Catalog /\ line.quantity \in Nat /\ line.quantity # 0
  BY DEF Line
<1>4. QED
  BY <1>1, <1>2, <1>3

LEMMA AddLineFacts ==
  ASSUME NEW lines \in Seq(Line), Distinct(lines), NEW p \in Catalog, NEW q \in Nat \ {0}
  PROVE  /\ AddLine(lines, p, q) \in Seq(Line)
         /\ Distinct(AddLine(lines, p, q))
         /\ Gains(lines, AddLine(lines, p, q))
<1>. DEFINE n == Len(lines)
            new == [product |-> p, quantity |-> q]
<1>1. n \in Nat /\ \A i \in 1 .. n : /\ lines[i] \in Line /\ lines[i].product \in Catalog
                                     /\ lines[i].quantity \in Nat \ {0}
  BY LineFacts, LenProperties
<1>2. new \in Line
  BY DEF Line
<1>3. CASE \E i \in 1 .. n : lines[i].product = p
  <2>. DEFINE res == [i \in 1 .. n |->
                        IF lines[i].product = p
                        THEN [product |-> p, quantity |-> lines[i].quantity + q]
                        ELSE lines[i]]
  <2>1. AddLine(lines, p, q) = res
    BY <1>3 DEF AddLine
  <2>2. \A i \in 1 .. n : res[i] \in Line /\ res[i].product = lines[i].product
                          /\ res[i].quantity >= lines[i].quantity
    <3>1. SUFFICES ASSUME NEW i \in 1 .. n
                   PROVE  /\ res[i] \in Line /\ res[i].product = lines[i].product
                          /\ res[i].quantity >= lines[i].quantity
      OBVIOUS
    <3>2. CASE lines[i].product = p
      BY <1>1, <3>2 DEF Line
    <3>3. CASE lines[i].product # p
      BY <1>1, <3>3
    <3>4. QED
      BY <3>2, <3>3
  <2>3. res \in [1 .. n -> Line]
    BY <2>2
  <2>4. res \in Seq(Line)
    BY <1>1, <2>3, SeqDef
  <2>5. Len(res) = n
    BY <1>1, <2>3, <2>4, LenProperties
  <2>. HIDE DEF res
  <2>6. Distinct(res)
    BY <2>2, <2>5 DEF Distinct
  <2>7. Gains(lines, res)
    BY <2>2, <2>5 DEF Gains
  <2>8. QED
    BY <2>1, <2>4, <2>6, <2>7
<1>4. CASE \A i \in 1 .. n : lines[i].product # p
  <2>1. AddLine(lines, p, q) = Append(lines, new)
    BY <1>4 DEF AddLine
  <2>. DEFINE res == Append(lines, new)
  <2>2. /\ res \in Seq(Line) /\ Len(res) = n + 1
        /\ \A i \in 1 .. n : res[i] = lines[i]
        /\ res[n + 1] = new
    <3>. HIDE DEF new
    <3>1. QED BY <1>2, AppendProperties
  <2>3. new.product = p
    OBVIOUS
  <2>. HIDE DEF res, new
  <2>4. \A i \in 1 .. n + 1 : i = n + 1 \/ i \in 1 .. n
    BY <1>1
  <2>5. Distinct(res)
    BY <1>1, <1>4, <2>2, <2>3, <2>4 DEF Distinct
  <2>6. Gains(lines, res)
    <3>1. \A i \in 1 .. n : i \in 1 .. Len(res)
      BY <1>1, <2>2
    <3>2. QED
      BY <1>1, <2>2, <3>1 DEF Gains
  <2>7. QED
    BY <2>1, <2>2, <2>5, <2>6 DEF res
<1>5. QED
  BY <1>3, <1>4

LEMMA SetLineFacts ==
  ASSUME NEW lines \in Seq(Line), Distinct(lines), NEW i \in 1 .. Len(lines),
         NEW q \in Nat \ {0}
  PROVE  SetLine(lines, i, q) \in Seq(Line) /\ Distinct(SetLine(lines, i, q))
<1>. DEFINE new == [product |-> lines[i].product, quantity |-> q]
            res == [lines EXCEPT ![i] = new]
<1>1. lines[i] \in Line /\ lines[i].product \in Catalog
  BY LineFacts
<1>2. new \in Line /\ new.product = lines[i].product
  BY <1>1 DEF Line
<1>. HIDE DEF new
<1>3. /\ res \in Seq(Line) /\ Len(res) = Len(lines)
      /\ \A j \in 1 .. Len(lines) : res[j] = IF j = i THEN new ELSE lines[j]
  BY <1>2, ExceptSeq
<1>4. \A j \in 1 .. Len(lines) : res[j].product = lines[j].product
  BY <1>2, <1>3
<1>5. Distinct(res)
  BY <1>3, <1>4 DEF Distinct
<1>6. QED
  BY <1>3, <1>5 DEF SetLine, new

LEMMA RemoveAtFacts ==
  ASSUME NEW lines \in Seq(Line), Distinct(lines), NEW i \in 1 .. Len(lines)
  PROVE  RemoveAt(lines, i) \in Seq(Line) /\ Distinct(RemoveAt(lines, i))
<1>. DEFINE n == Len(lines)
            l == SubSeq(lines, 1, i - 1)
            r == SubSeq(lines, i + 1, n)
            res == l \o r
<1>1. n \in Nat /\ i \in Nat /\ i >= 1 /\ i <= n /\ \A j \in 1 .. n : lines[j] \in Line
  BY ElementOfSeq, LenProperties
<1>2. /\ l \in Seq(Line) /\ Len(l) = i - 1
      /\ \A j \in 1 .. i - 1 : l[j] = lines[j]
  <2>1. \A j \in 1 .. i - 1 : lines[j] \in Line
    BY <1>1
  <2>2. /\ l \in Seq(Line)
        /\ Len(l) = IF 1 <= i - 1 THEN (i - 1) - 1 + 1 ELSE 0
        /\ \A j \in 1 .. (i - 1) - 1 + 1 : l[j] = lines[1 + j - 1]
    BY <1>1, <2>1, SubSeqProperties
  <2>. HIDE DEF l
  <2>3. Len(l) = i - 1
    BY <1>1, <2>2
  <2>4. \A j \in 1 .. i - 1 : l[j] = lines[j]
    BY <1>1, <2>2
  <2>5. QED
    BY <2>2, <2>3, <2>4
<1>3. /\ r \in Seq(Line) /\ Len(r) = n - i
      /\ \A j \in 1 .. n - i : r[j] = lines[j + i]
  <2>1. \A j \in i + 1 .. n : lines[j] \in Line
    BY <1>1
  <2>2. /\ r \in Seq(Line)
        /\ Len(r) = IF i + 1 <= n THEN n - (i + 1) + 1 ELSE 0
        /\ \A j \in 1 .. n - (i + 1) + 1 : r[j] = lines[(i + 1) + j - 1]
    BY <1>1, <2>1, SubSeqProperties
  <2>. HIDE DEF r
  <2>3. Len(r) = n - i
    BY <1>1, <2>2
  <2>4. \A j \in 1 .. n - i : r[j] = lines[j + i]
    BY <1>1, <2>2
  <2>5. QED
    BY <2>2, <2>3, <2>4
<1>. HIDE DEF l, r
<1>4. /\ res \in Seq(Line) /\ Len(res) = Len(l) + Len(r)
      /\ \A j \in 1 .. Len(l) + Len(r) :
           res[j] = IF j <= Len(l) THEN l[j] ELSE r[j - Len(l)]
  BY <1>2, <1>3, ConcatProperties
<1>. HIDE DEF res
<1>5. Len(res) = n - 1
  BY <1>1, <1>2, <1>3, <1>4
<1>6. \A j \in 1 .. n - 1 :
        /\ j < i => j \in 1 .. n /\ res[j] = lines[j]
        /\ j >= i => j + 1 \in 1 .. n /\ res[j] = lines[j + 1]
  <2>. SUFFICES ASSUME NEW j \in 1 .. n - 1
                PROVE  /\ j < i => j \in 1 .. n /\ res[j] = lines[j]
                       /\ j >= i => j + 1 \in 1 .. n /\ res[j] = lines[j + 1]
    OBVIOUS
  <2>. HIDE DEF n
  <2>1. j \in Nat /\ j >= 1 /\ j <= n - 1 /\ j \in 1 .. n /\ j + 1 \in 1 .. n
    BY <1>1
  <2>2. res[j] = IF j <= i - 1 THEN l[j] ELSE r[j - (i - 1)]
    BY <1>1, <1>2, <1>3, <1>4, <2>1
  <2>3. ASSUME j < i PROVE res[j] = lines[j]
    BY <1>1, <1>2, <2>1, <2>2, <2>3
  <2>4. ASSUME j >= i PROVE res[j] = lines[j + 1]
    <3>1. j - (i - 1) \in 1 .. n - i /\ (j - (i - 1)) + i = j + 1
      BY <1>1, <2>1, <2>4
    <3>2. r[j - (i - 1)] = lines[(j - (i - 1)) + i]
      BY <1>3, <3>1
    <3>3. QED
      BY <1>1, <2>1, <2>2, <2>4, <3>1, <3>2
  <2>5. QED
    BY <2>1, <2>3, <2>4
<1>7. Distinct(res)
  <2>1. SUFFICES ASSUME NEW j \in 1 .. n - 1, NEW k \in 1 .. n - 1,
                        res[j].product = res[k].product
                 PROVE  j = k
    BY <1>5 DEF Distinct
  <2>2. \A a, b \in 1 .. n : lines[a].product = lines[b].product => a = b
    BY DEF Distinct
  <2>3. CASE j < i /\ k < i
    BY <1>6, <2>1, <2>2, <2>3
  <2>4. CASE j >= i /\ k >= i
    <3>1. j + 1 = k + 1
      BY <1>6, <2>1, <2>2, <2>4
    <3>2. QED
      BY <3>1
  <2>5. CASE j < i /\ k >= i
    <3>1. j = k + 1
      BY <1>6, <2>1, <2>2, <2>5
    <3>2. QED
      BY <1>1, <2>5, <3>1
  <2>6. CASE j >= i /\ k < i
    <3>1. j + 1 = k
      BY <1>6, <2>1, <2>2, <2>6
    <3>2. QED
      BY <1>1, <2>6, <3>1
  <2>7. QED
    BY <1>1, <2>3, <2>4, <2>5, <2>6
<1>8. QED
  BY <1>4, <1>7 DEF RemoveAt, res, l, r

-----------------------------------------------------------------------------
(* Carts *)

LEMMA CartFacts ==
  ASSUME NEW cs \in Seq(CartRecord), NEW k \in 1 .. Len(cs)
  PROVE  /\ cs[k] \in CartRecord /\ cs[k].owner \in Owners /\ cs[k].lines \in Seq(Line)
         /\ cs[k] = [owner |-> cs[k].owner, lines |-> cs[k].lines]
<1>1. cs[k] \in CartRecord
  BY ElementOfSeq
<1>2. PICK c \in CartRecord : c = cs[k]
  BY <1>1
<1>3. c.owner \in Owners /\ c.lines \in Seq(Line) /\ c = [owner |-> c.owner, lines |-> c.lines]
  BY DEF CartRecord
<1>4. QED
  BY <1>1, <1>2, <1>3

Relined(cs, k, ls) == [cs EXCEPT ![k].lines = ls]

\* Giving one cart other lines leaves the owners and the other carts alone.
LEMMA WithLines ==
  ASSUME NEW cs \in Seq(CartRecord), NEW k \in 1 .. Len(cs), NEW ls \in Seq(Line),
         NEW new, new = Relined(cs, k, ls)
  PROVE  /\ new \in Seq(CartRecord) /\ Len(new) = Len(cs)
         /\ \A j \in 1 .. Len(cs) : new[j].owner = cs[j].owner
         /\ \A j \in 1 .. Len(cs) : j # k => new[j] = cs[j]
         /\ new[k].lines = ls
<1>1. PICK c \in CartRecord : c = cs[k]
  BY CartFacts
<1>. DEFINE d == [c EXCEPT !.lines = ls]
<1>2. d \in CartRecord /\ d.owner = c.owner /\ d.lines = ls
  BY DEF CartRecord
<1>3. new = [cs EXCEPT ![k] = d]
  BY <1>1 DEF Relined
<1>. HIDE DEF d
<1>4. /\ [cs EXCEPT ![k] = d] \in Seq(CartRecord) /\ Len([cs EXCEPT ![k] = d]) = Len(cs)
      /\ \A j \in 1 .. Len(cs) : [cs EXCEPT ![k] = d][j] = IF j = k THEN d ELSE cs[j]
  BY <1>2, ExceptSeq
<1>5. QED
  BY <1>1, <1>2, <1>3, <1>4

\* Who is merged into whom depends on the owners alone.
LEMMA SameOwners ==
  ASSUME Len(carts') = Len(carts),
         \A j \in 1 .. Len(carts) : carts'[j].owner = carts[j].owner
  PROVE  /\ OwnerUnique => OwnerUnique'
         /\ \A o \in Owners, k \in Nat : IsTarget(o, k)' <=> IsTarget(o, k)
<1>1. OwnerUnique => OwnerUnique'
  BY DEF OwnerUnique
<1>2. ASSUME NEW o \in Owners, NEW k \in Nat PROVE IsTarget(o, k)' <=> IsTarget(o, k)
  <2>1. Matches(o)' = Matches(o)
    BY DEF Matches, Owns
  <2>2. QED
    BY <2>1 DEF IsTarget
<1>3. QED
  BY <1>1, <1>2

-----------------------------------------------------------------------------
(* The inductive invariant *)

\* The cart a creation goes to is still the one its owner has: no request runs
\* between the search and the store.
TargetHolds == job.busy => IsTarget(job.owner, job.target)

IInv == TypeOK /\ DistinctLines /\ OwnerUnique /\ TargetHolds

LEMMA JobFacts ==
  ASSUME TypeOK, job.busy
  PROVE  /\ job \in Job /\ job.owner \in Owners /\ job.target \in Nat
         /\ job.target \in 0 .. Len(carts) /\ Len(carts) \in Nat
         /\ job.todo \in Seq(Item) /\ job.draft \in Seq(Line)
<1>1. job \in Job
  BY DEF TypeOK, Idle
<1>2. QED
  BY <1>1, LenProperties DEF TypeOK, Job

LEMMA ItemFacts ==
  ASSUME NEW todo \in Seq(Item), todo # << >>
  PROVE  /\ Head(todo).product \in Products /\ Head(todo).quantity \in Nat \ {0}
         /\ Tail(todo) \in Seq(Item)
<1>1. Head(todo) \in Item /\ Tail(todo) \in Seq(Item)
  BY HeadTailProperties
<1>2. PICK item \in Item : item = Head(todo)
  BY <1>1
<1>3. item.product \in Products /\ item.quantity \in Nat \ {0}
  BY CartAssumption DEF Item
<1>4. QED
  BY <1>1, <1>2, <1>3

LEMMA Initially == Init => IInv
<1>. SUFFICES ASSUME Init PROVE IInv
  OBVIOUS
<1>1. carts = << >> /\ Len(carts) = 0 /\ carts \in Seq(CartRecord)
  BY DEF Init
<1>2. ~job.busy
  BY DEF Init, Idle
<1>3. TypeOK
  BY <1>1, <1>2 DEF Init, TypeOK
<1>4. \A k \in 1 .. Len(carts) : FALSE
  BY <1>1
<1>5. DistinctLines /\ OwnerUnique /\ TargetHolds
  BY <1>2, <1>4 DEF DistinctLines, OwnerUnique, TargetHolds
<1>6. QED
  BY <1>3, <1>5 DEF IInv

\* A step that gives one cart other lines and leaves no creation behind, or
\* one that still goes where it went.
LEMMA LinesChanged ==
  ASSUME IInv, NEW k \in 1 .. Len(carts), NEW ls \in Seq(Line), Distinct(ls),
         carts' = [carts EXCEPT ![k].lines = ls],
         job' \in Job \cup {Idle},
         job'.busy => /\ job.busy /\ job'.owner = job.owner /\ job'.target = job.target
                      /\ job'.draft = job.draft,
         answer'.status \in {"none", "ok", "rejected"}
  PROVE  IInv'
<1>1. /\ carts' \in Seq(CartRecord) /\ Len(carts') = Len(carts)
      /\ \A j \in 1 .. Len(carts) : carts'[j].owner = carts[j].owner
      /\ \A j \in 1 .. Len(carts) : j # k => carts'[j] = carts[j]
      /\ carts'[k].lines = ls
  <2>1. PICK cs : cs = carts
    OBVIOUS
  <2>2. PICK new : new = carts'
    OBVIOUS
  <2>3. cs \in Seq(CartRecord) /\ k \in 1 .. Len(cs) /\ new = Relined(cs, k, ls)
    BY <2>1, <2>2 DEF IInv, TypeOK, Relined
  <2>4. /\ new \in Seq(CartRecord) /\ Len(new) = Len(cs)
        /\ \A j \in 1 .. Len(cs) : new[j].owner = cs[j].owner
        /\ \A j \in 1 .. Len(cs) : j # k => new[j] = cs[j]
        /\ new[k].lines = ls
    BY <2>3, WithLines
  <2>5. QED
    BY <2>1, <2>2, <2>4
<1>2. TypeOK'
  BY <1>1 DEF IInv, TypeOK
<1>3. DistinctLines'
  <2>1. \A j \in 1 .. Len(carts) : Distinct(carts'[j].lines)
    BY <1>1 DEF IInv, DistinctLines
  <2>2. QED
    BY <1>1, <2>1 DEF IInv, DistinctLines, Distinct
<1>4. OwnerUnique'
  BY <1>1, SameOwners DEF IInv
<1>5. TargetHolds'
  <2>. SUFFICES ASSUME job'.busy PROVE IsTarget(job.owner, job.target)'
    BY DEF TargetHolds
  <2>1. job.owner \in Owners /\ job.target \in Nat /\ IsTarget(job.owner, job.target)
    BY JobFacts DEF IInv, TargetHolds
  <2>2. QED
    BY <1>1, <2>1, SameOwners
<1>6. QED
  BY <1>2, <1>3, <1>4, <1>5 DEF IInv

\* A step that leaves the carts alone.
LEMMA CartsKept ==
  ASSUME IInv, UNCHANGED carts, job' \in Job \cup {Idle},
         answer'.status \in {"none", "ok", "rejected"},
         job'.busy => /\ job'.target \in 0 .. Len(carts)
                      /\ Distinct(job'.draft)
                      /\ IsTarget(job'.owner, job'.target)
  PROVE  IInv'
<1>1. TypeOK'
  BY DEF IInv, TypeOK
<1>2. DistinctLines'
  BY DEF IInv, DistinctLines, Distinct
<1>3. OwnerUnique'
  BY DEF IInv, OwnerUnique
<1>4. TargetHolds'
  BY DEF TargetHolds, IsTarget, Matches, Owns
<1>5. QED
  BY <1>1, <1>2, <1>3, <1>4 DEF IInv

LEMMA BeginCreateKeeps ==
  ASSUME IInv, NEW o \in Owners, NEW body \in Bodies, NEW k \in 0 .. Len(carts),
         BeginCreate(o, body, k)
  PROVE  IInv'
<1>1. body \in Seq(Item)
  BY SeqDef DEF Bodies
<1>2. Len(carts) \in Nat /\ << >> \in Seq(Line) /\ Len(<< >>) = 0
  BY LenProperties DEF IInv, TypeOK
<1>3. job' \in Job
  BY <1>1, <1>2 DEF BeginCreate, Job
<1>4. /\ job'.owner = o /\ job'.target = k /\ job'.draft = << >>
  BY DEF BeginCreate
<1>5. Distinct(job'.draft)
  BY <1>2, <1>4 DEF Distinct
<1>6. QED
  BY <1>3, <1>4, <1>5, CartsKept DEF BeginCreate, IInv, TypeOK

LEMMA GrowingFacts ==
  ASSUME IInv, job.busy
  PROVE  Growing \in Seq(Line) /\ Distinct(Growing)
<1>1. CASE job.target = 0
  BY <1>1, JobFacts DEF Growing, IInv, DistinctLines
<1>2. CASE job.target # 0
  <2>1. job.target \in 1 .. Len(carts)
    BY <1>2, JobFacts DEF IInv
  <2>2. carts[job.target].lines \in Seq(Line)
    BY <2>1, CartFacts DEF IInv, TypeOK
  <2>3. QED
    BY <1>2, <2>1, <2>2 DEF Growing, IInv, DistinctLines
<1>3. QED
  BY <1>1, <1>2

LEMMA AddNextKeeps ==
  ASSUME IInv, AddNext
  PROVE  IInv'
<1>. DEFINE p == Head(job.todo).product
            q == Head(job.todo).quantity
            lines == AddLine(Growing, p, q)
<1>1. /\ job \in Job /\ job.owner \in Owners /\ job.target \in Nat
      /\ job.target \in 0 .. Len(carts) /\ Len(carts) \in Nat
      /\ Tail(job.todo) \in Seq(Item) /\ job.draft \in Seq(Line)
      /\ p \in Catalog /\ q \in Nat \ {0} /\ job.busy
  BY JobFacts, ItemFacts DEF AddNext, IInv
<1>2. /\ lines \in Seq(Line) /\ Distinct(lines)
  BY <1>1, GrowingFacts, AddLineFacts
<1>3. answer'.status \in {"none", "ok", "rejected"}
  BY DEF AddNext, IInv, TypeOK
<1>4. CASE job.target = 0
  <2>1. UNCHANGED carts /\ job' = [job EXCEPT !.todo = Tail(@), !.draft = lines]
    BY <1>4 DEF AddNext
  <2>2. job' \in Job
    BY <1>1, <1>2, <2>1 DEF Job
  <2>3. job'.owner = job.owner /\ job'.target = job.target /\ job'.draft = lines
    BY <1>1, <2>1 DEF Job
  <2>. HIDE DEF lines
  <2>4. QED
    BY <1>1, <1>2, <1>3, <2>1, <2>2, <2>3, CartsKept DEF IInv, TargetHolds
<1>5. CASE job.target # 0
  <2>1. /\ carts' = [carts EXCEPT ![job.target].lines = lines]
        /\ job' = [job EXCEPT !.todo = Tail(@)]
    BY <1>5 DEF AddNext
  <2>2. job' \in Job
    BY <1>1, <2>1 DEF Job
  <2>3. /\ job'.owner = job.owner /\ job'.target = job.target /\ job'.draft = job.draft
    BY <1>1, <2>1 DEF Job
  <2>4. job.target \in 1 .. Len(carts)
    BY <1>1, <1>5
  <2>. HIDE DEF lines
  <2>5. QED
    BY <1>1, <1>2, <1>3, <2>1, <2>2, <2>3, <2>4, LinesChanged
<1>6. QED
  BY <1>4, <1>5

LEMMA FinishCreateKeeps ==
  ASSUME IInv, FinishCreate
  PROVE  IInv'
<1>1. /\ job.busy /\ job.owner \in Owners /\ job.draft \in Seq(Line)
      /\ job.target \in 0 .. Len(carts) /\ Distinct(job.draft)
      /\ IsTarget(job.owner, job.target) /\ carts \in Seq(CartRecord)
  BY JobFacts DEF FinishCreate, IInv, TypeOK, DistinctLines, TargetHolds
<1>2. job' = Idle /\ ~job'.busy /\ answer'.status = "ok"
  BY DEF FinishCreate, Idle, Answer
<1>3. CASE job.target # 0
  <2>1. UNCHANGED carts
    BY <1>3 DEF FinishCreate
  <2>2. QED
    BY <1>2, <2>1, CartsKept
<1>4. CASE job.target = 0
  <2>. DEFINE new == [owner |-> job.owner, lines |-> job.draft]
  <2>1. carts' = Append(carts, new)
    BY <1>4 DEF FinishCreate
  <2>2. new \in CartRecord /\ new.owner = job.owner /\ new.lines = job.draft
    BY <1>1 DEF CartRecord
  <2>. HIDE DEF new
  <2>3. /\ carts' \in Seq(CartRecord) /\ Len(carts') = Len(carts) + 1
        /\ \A j \in 1 .. Len(carts) : carts'[j] = carts[j]
        /\ carts'[Len(carts) + 1] = new
    BY <1>1, <2>1, <2>2, AppendProperties
  <2>4. /\ Len(carts) \in Nat
        /\ \A j \in 1 .. Len(carts') : j = Len(carts) + 1 \/ j \in 1 .. Len(carts)
    BY <1>1, <2>3, LenProperties
  <2>5. \A j \in 1 .. Len(carts) : ~Owns(job.owner, carts[j])
    BY <1>1, <1>4 DEF IsTarget, Matches
  <2>6. TypeOK'
    BY <1>2, <2>3 DEF TypeOK
  <2>7. DistinctLines'
    <3>1. \A j \in 1 .. Len(carts') : Distinct(carts'[j].lines)
      BY <1>1, <2>2, <2>3, <2>4 DEF IInv, DistinctLines
    <3>2. QED
      BY <1>2, <3>1 DEF DistinctLines, Distinct
  <2>8. OwnerUnique'
    BY <2>2, <2>3, <2>4, <2>5 DEF IInv, OwnerUnique, Owns
  <2>9. TargetHolds'
    BY <1>2 DEF TargetHolds
  <2>10. QED
    BY <2>6, <2>7, <2>8, <2>9 DEF IInv
<1>5. QED
  BY <1>3, <1>4

LEMMA AddItemKeeps ==
  ASSUME IInv, NEW k \in 1 .. Len(carts), NEW p \in Products, NEW q \in 1 .. MaxRequest,
         AddItem(k, p, q)
  PROVE  IInv'
<1>. DEFINE lines == AddLine(carts[k].lines, p, q)
<1>1. carts[k].lines \in Seq(Line) /\ Distinct(carts[k].lines)
  BY CartFacts DEF IInv, TypeOK, DistinctLines
<1>2. p \in Catalog /\ q \in Nat \ {0}
  BY CartAssumption DEF AddItem
<1>3. lines \in Seq(Line) /\ Distinct(lines)
  BY <1>1, <1>2, AddLineFacts
<1>4. carts' = [carts EXCEPT ![k].lines = lines] /\ UNCHANGED job /\ ~job.busy
  BY DEF AddItem
<1>5. answer'.status \in {"none", "ok", "rejected"}
  BY DEF AddItem, Answer
<1>. HIDE DEF lines
<1>6. QED
  BY <1>3, <1>4, <1>5, LinesChanged DEF IInv, TypeOK

LEMMA UpdateItemKeeps ==
  ASSUME IInv, NEW k \in 1 .. Len(carts), NEW i \in 1 .. Len(carts[k].lines),
         NEW q \in 0 .. MaxRequest, UpdateItem(k, i, q)
  PROVE  IInv'
<1>. DEFINE lines == IF q = 0 THEN RemoveAt(carts[k].lines, i) ELSE SetLine(carts[k].lines, i, q)
<1>1. carts[k].lines \in Seq(Line) /\ Distinct(carts[k].lines)
  BY CartFacts DEF IInv, TypeOK, DistinctLines
<1>2. q = 0 \/ q \in Nat \ {0}
  BY CartAssumption
<1>3. lines \in Seq(Line) /\ Distinct(lines)
  BY <1>1, <1>2, RemoveAtFacts, SetLineFacts
<1>4. carts' = [carts EXCEPT ![k].lines = lines] /\ UNCHANGED job /\ ~job.busy
  BY DEF UpdateItem
<1>5. answer'.status \in {"none", "ok", "rejected"}
  BY DEF UpdateItem, Answer
<1>. HIDE DEF lines
<1>6. QED
  BY <1>3, <1>4, <1>5, LinesChanged DEF IInv, TypeOK

LEMMA RemoveItemKeeps ==
  ASSUME IInv, NEW k \in 1 .. Len(carts), NEW i \in 1 .. Len(carts[k].lines),
         RemoveItem(k, i)
  PROVE  IInv'
<1>. DEFINE lines == RemoveAt(carts[k].lines, i)
<1>1. carts[k].lines \in Seq(Line) /\ Distinct(carts[k].lines)
  BY CartFacts DEF IInv, TypeOK, DistinctLines
<1>2. lines \in Seq(Line) /\ Distinct(lines)
  BY <1>1, RemoveAtFacts
<1>3. carts' = [carts EXCEPT ![k].lines = lines] /\ UNCHANGED job /\ ~job.busy
  BY DEF RemoveItem
<1>4. answer'.status \in {"none", "ok", "rejected"}
  BY DEF RemoveItem, Answer
<1>. HIDE DEF lines
<1>5. QED
  BY <1>2, <1>3, <1>4, LinesChanged DEF IInv, TypeOK

LEMMA Inductive == IInv /\ [Next]_vars => IInv'
<1>. SUFFICES ASSUME IInv, [Next]_vars PROVE IInv'
  OBVIOUS
<1>1. CASE \E o \in Owners, body \in Bodies, k \in 0 .. Len(carts) : BeginCreate(o, body, k)
  BY <1>1, BeginCreateKeeps
<1>2. CASE AddNext
  BY <1>2, AddNextKeeps
<1>3. CASE AddThrows
  <2>1. job' = Idle /\ ~job'.busy /\ UNCHANGED carts /\ answer'.status = "rejected"
    BY <1>3 DEF AddThrows, Idle, Answer
  <2>2. QED
    BY <2>1, CartsKept
<1>4. CASE FinishCreate
  BY <1>4, FinishCreateKeeps
<1>5. CASE \E k \in 1 .. Len(carts) : \E p \in Products, q \in 1 .. MaxRequest : AddItem(k, p, q)
  BY <1>5, AddItemKeeps
<1>6. CASE \E k \in 1 .. Len(carts) :
             \E i \in 1 .. Len(carts[k].lines), q \in 0 .. MaxRequest : UpdateItem(k, i, q)
  BY <1>6, UpdateItemKeeps
<1>7. CASE \E k \in 1 .. Len(carts) : \E i \in 1 .. Len(carts[k].lines) : RemoveItem(k, i)
  BY <1>7, RemoveItemKeeps
<1>8. CASE RejectRequest
  <2>1. UNCHANGED <<carts, job>> /\ ~job.busy /\ answer'.status = "rejected"
    BY <1>8 DEF RejectRequest, Answer
  <2>2. QED
    BY <2>1, CartsKept DEF IInv, TypeOK
<1>9. CASE UNCHANGED vars
  <2>1. UNCHANGED <<carts, job, answer>>
    BY <1>9 DEF vars
  <2>2. QED
    BY <2>1, CartsKept DEF IInv, TypeOK, DistinctLines, TargetHolds
<1>10. QED
  BY <1>1, <1>2, <1>3, <1>4, <1>5, <1>6, <1>7, <1>8, <1>9 DEF Next

\* Every state the engine reaches satisfies the inductive invariant, whose new
\* part says that the cart a POST /carts fills is, until it is answered, the
\* one findActiveCartForOwner would find again.
THEOREM Invariance == Spec => []IInv
  BY Initially, Inductive, PTL DEF Spec

-----------------------------------------------------------------------------
(* What the invariant gives *)

\* Every cart list, running creation and answer has its type: lines name
\* catalogue products and hold at least one unit (cart.service.ts).
THEOREM TypeCorrect == Spec => []TypeOK
<1>1. IInv => TypeOK
  BY DEF IInv
<1>2. QED
  BY <1>1, Invariance, PTL

\* No customer and no session has two active carts: findActiveCartForOwner
\* never has to choose.
THEOREM OneCartPerOwner == Spec => []OwnerUnique
<1>1. IInv => OwnerUnique
  BY DEF IInv
<1>2. QED
  BY <1>1, Invariance, PTL

\* Additions, merges, updates and removals never leave a product on two lines
\* of a cart (addItemToCart, updateItemQuantity).
THEOREM OneLinePerProduct == Spec => []DistinctLines
<1>1. IInv => DistinctLines
  BY DEF IInv
<1>2. QED
  BY <1>1, Invariance, PTL

-----------------------------------------------------------------------------
(* CreationOnlyAdds *)

LEMMA GainsItself ==
  ASSUME NEW lines \in Seq(Line)
  PROVE  Gains(lines, lines)
<1>1. \A i \in 1 .. Len(lines) : lines[i].quantity \in Nat
  BY LineFacts
<1>2. QED
  BY <1>1 DEF Gains

\* Steps that keep the stored carts, those of a draft being filled included.
LEMMA KeepingAdds ==
  ASSUME IInv, \A k \in 1 .. Len(carts) : carts'[k] = carts[k]
  PROVE  OnlyAdds
<1>1. \A k \in 1 .. Len(carts) : Gains(carts[k].lines, carts[k].lines)
  BY CartFacts, GainsItself DEF IInv, TypeOK
<1>2. \A k \in 1 .. Len(carts) : Gains(carts[k].lines, carts'[k].lines)
  BY <1>1
<1>3. QED
  BY <1>2 DEF OnlyAdds

LEMMA AddNextAdds ==
  ASSUME IInv, AddNext
  PROVE  OnlyAdds
<1>. DEFINE p == Head(job.todo).product
            q == Head(job.todo).quantity
            lines == AddLine(Growing, p, q)
<1>1. /\ job.busy /\ job.target \in 0 .. Len(carts) /\ Len(carts) \in Nat
      /\ p \in Catalog /\ q \in Nat \ {0}
  BY JobFacts, ItemFacts DEF AddNext, IInv
<1>2. lines \in Seq(Line) /\ Gains(Growing, lines)
  BY <1>1, GrowingFacts, AddLineFacts
<1>3. CASE job.target = 0
  <2>1. UNCHANGED carts
    BY <1>3 DEF AddNext
  <2>2. QED
    BY <2>1, KeepingAdds
<1>4. CASE job.target # 0
  <2>1. carts' = Relined(carts, job.target, lines)
    BY <1>4 DEF AddNext, Relined
  <2>2. Growing = carts[job.target].lines
    BY <1>4 DEF Growing
  <2>. HIDE DEF lines
  <2>3. PICK cs : cs = carts
    OBVIOUS
  <2>4. PICK new : new = carts'
    OBVIOUS
  <2>5. PICK t : t = job.target
    OBVIOUS
  <2>6. cs \in Seq(CartRecord) /\ t \in 1 .. Len(cs) /\ new = Relined(cs, t, lines)
    BY <1>1, <1>4, <2>1, <2>3, <2>4, <2>5 DEF IInv, TypeOK
  <2>7. /\ \A j \in 1 .. Len(cs) : new[j].owner = cs[j].owner
        /\ \A j \in 1 .. Len(cs) : j # t => new[j] = cs[j]
        /\ new[t].lines = lines
    BY <1>2, <2>6, WithLines
  <2>8. \A k \in 1 .. Len(carts) : Gains(carts[k].lines, carts'[k].lines)
    <3>1. ASSUME NEW k \in 1 .. Len(carts) PROVE Gains(carts[k].lines, carts'[k].lines)
      <4>1. CASE k = job.target
        BY <1>2, <2>2, <2>4, <2>5, <2>7, <4>1
      <4>2. CASE k # job.target
        <5>1. carts'[k] = carts[k]
          BY <2>3, <2>4, <2>5, <2>7, <4>2
        <5>2. carts[k].lines \in Seq(Line)
          BY CartFacts DEF IInv, TypeOK
        <5>3. QED
          BY <5>1, <5>2, GainsItself
      <4>3. QED
        BY <4>1, <4>2
    <3>2. QED
      BY <3>1
  <2>9. QED
    BY <2>3, <2>4, <2>5, <2>7, <2>8 DEF OnlyAdds
<1>5. QED
  BY <1>3, <1>4

LEMMA StepOnlyAdds == IInv /\ [Next]_vars => [OnlyAdds]_vars
<1>. SUFFICES ASSUME IInv, Next PROVE OnlyAdds
  OBVIOUS
<1>1. CASE ~job.busy
  BY <1>1 DEF OnlyAdds
<1>2. CASE AddNext
  BY <1>2, AddNextAdds
<1>3. CASE AddThrows
  <2>1. UNCHANGED carts
    BY <1>3 DEF AddThrows
  <2>2. QED
    BY <2>1, KeepingAdds
<1>4. CASE FinishCreate
  <2>1. carts \in Seq(CartRecord) /\ (job.busy => job.draft \in Seq(Line))
        /\ (job.busy => job.owner \in Owners)
    BY JobFacts DEF IInv, TypeOK
  <2>2. \A k \in 1 .. Len(carts) : carts'[k] = carts[k]
    <3>1. CASE job.target # 0
      BY <1>4, <3>1 DEF FinishCreate
    <3>2. CASE job.target = 0
      <4>. DEFINE new == [owner |-> job.owner, lines |-> job.draft]
      <4>1. new \in CartRecord /\ carts' = Append(carts, new)
        BY <1>4, <2>1, <3>2 DEF FinishCreate, CartRecord
      <4>. HIDE DEF new
      <4>2. QED
        BY <2>1, <4>1, AppendProperties
    <3>3. QED
      BY <3>1, <3>2
  <2>3. QED
    BY <2>2, KeepingAdds
<1>5. QED
  BY <1>1, <1>2, <1>3, <1>4
     DEF Next, BeginCreate, AddItem, UpdateItem, RemoveItem, RejectRequest

\* Even one that fails half way, a POST /carts changes no cart but its target
\* and takes nothing from it (createCart).
THEOREM CreationNeverTakes == Spec => CreationOnlyAdds
  BY Invariance, StepOnlyAdds, PTL DEF Spec, CreationOnlyAdds

-----------------------------------------------------------------------------
(* RepeatMerges *)

LEMMA StepRemembered == IInv /\ [Next]_vars => [Remembered]_vars
<1>. SUFFICES ASSUME IInv, Next, NEW o \in Owners, job.busy, job.owner = o,
                     ~job'.busy, answer'.status = "ok",
                     NEW k \in 1 .. Len(carts')
              PROVE  IsTarget(o, k)' <=> k = Filled
  BY DEF Remembered
<1>1. FinishCreate
  <2>1. ~AddNext
    <3>1. SUFFICES ASSUME AddNext PROVE job'.busy
      OBVIOUS
    <3>2. job \in Job
      BY JobFacts DEF IInv
    <3>3. job' \in Job \/ job'.busy
      BY <3>1, <3>2 DEF AddNext, Job
    <3>4. QED
      BY <3>3 DEF Job
  <2>2. ~AddThrows
    BY DEF AddThrows, Answer
  <2>3. QED
    BY <2>1, <2>2 DEF Next, BeginCreate, AddItem, UpdateItem, RemoveItem, RejectRequest
<1>2. /\ job.draft \in Seq(Line) /\ carts \in Seq(CartRecord)
      /\ job.target \in 0 .. Len(carts) /\ IsTarget(o, job.target)
  BY JobFacts DEF IInv, TypeOK, TargetHolds
<1>3. Len(carts) \in Nat
  BY <1>2, LenProperties
<1>4. CASE job.target # 0
  <2>1. UNCHANGED carts
    BY <1>1, <1>4 DEF FinishCreate
  <2>2. IsTarget(o, k)' <=> IsTarget(o, k)
    BY <2>1 DEF IsTarget, Matches, Owns
  <2>3. /\ k \in Nat /\ job.target \in Matches(o) /\ Matches(o) \subseteq Nat
        /\ \A other \in Matches(o) : other <= job.target
    BY <1>2, <1>3, <1>4, <2>1 DEF IsTarget, Matches
  <2>4. IsTarget(o, k) <=> k = job.target
    BY <2>3 DEF IsTarget
  <2>5. QED
    BY <1>4, <2>2, <2>4 DEF Filled
<1>5. CASE job.target = 0
  <2>. DEFINE new == [owner |-> o, lines |-> job.draft]
  <2>1. carts' = Append(carts, new) /\ new \in CartRecord /\ new.owner = o
    BY <1>1, <1>2, <1>5 DEF FinishCreate, CartRecord
  <2>. HIDE DEF new
  <2>2. /\ Len(carts') = Len(carts) + 1
        /\ \A j \in 1 .. Len(carts) : carts'[j] = carts[j]
        /\ carts'[Len(carts) + 1] = new
    BY <1>2, <2>1, AppendProperties
  <2>3. \A j \in 1 .. Len(carts) : ~Owns(o, carts[j])
    BY <1>2, <1>5 DEF IsTarget, Matches
  <2>4. Owns(o, new)
    BY <2>1 DEF Owns, Owners
  <2>5. \A j \in 1 .. Len(carts') : Owns(o, carts'[j]) <=> j = Len(carts')
    BY <1>3, <2>2, <2>3, <2>4
  <2>6. Matches(o)' = {Len(carts')}
    BY <1>3, <2>2, <2>5 DEF Matches, Owns
  <2>7. IsTarget(o, k)' <=> k = Len(carts')
    BY <1>3, <2>2, <2>6 DEF IsTarget
  <2>8. QED
    BY <1>5, <2>7 DEF Filled
<1>6. QED
  BY <1>4, <1>5

\* A creation sent again finds the cart the first one filled, and only that
\* one (createCart, findActiveCartForOwner).
THEOREM RepeatsFindTheirCart == Spec => RepeatMerges
  BY Invariance, StepRemembered, PTL DEF Spec, RepeatMerges
=============================================================================
