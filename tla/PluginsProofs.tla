--------------------------- MODULE PluginsProofs ---------------------------
(***************************************************************************)
(* Proofs about Plugins, for every registry, whatever its plugins are and  *)
(* depend on: it is refused exactly when it has to be, and otherwise every *)
(* tenant gets exactly what it needs.                                      *)
(***************************************************************************)
EXTENDS Plugins, SequenceTheorems, Sums, TLAPS

-----------------------------------------------------------------------------
(* The inductive invariant *)

Engines == {"validating", "refused", "up", "resolving"}
Calls == Seq([plugin : Known, next : Nat \ {0}])

TypeOK ==
  /\ dependencies \in [Known -> Seq(Ids)]
  /\ engine \in Engines
  /\ next \in 1 .. Len(Registry) + 1
  /\ calls \in Calls
  /\ finished \in Seq(Known)
  /\ enabled \subseteq Ids /\ listing \in Seq(Known)

\* The calls c in progress are a path through plugins not done: each is of a
\* dependency of the one before, and every dependency its loop has passed is
\* done, or is the next call.
Fresh(c, done) == \A i \in 1 .. Len(c) : c[i].plugin \notin done
Once(c) == \A i, j \in 1 .. Len(c) : c[i].plugin = c[j].plugin => i = j
Chain(deps, c) ==
  \A i \in 1 .. Len(c) - 1 : c[i + 1].plugin \in ToSet(deps[c[i].plugin])
PassedBy(deps, c, done, i) ==
  /\ c[i].next <= Len(deps[c[i].plugin]) + 1
  /\ \A j \in 1 .. c[i].next - 1 :
       \/ deps[c[i].plugin][j] \in done
       \/ i < Len(c) /\ c[i + 1].plugin = deps[c[i].plugin][j]
Path(deps, c, done) ==
  /\ Fresh(c, done) /\ Once(c) /\ Chain(deps, c)
  /\ \A i \in 1 .. Len(c) : PassedBy(deps, c, done, i)

\* A plugin is in a list once, after all it depends on.
Ordered(deps, list) ==
  /\ \A i \in DOMAIN list : \A d \in ToSet(deps[list[i]]) : \E j \in 1 .. i - 1 : list[j] = d
  /\ \A i, j \in DOMAIN list : list[i] = list[j] => i = j

\* The plugins the loop over the registry has passed.
Passed ==
  engine \in {"validating", "resolving"} =>
    \A i \in 1 .. next - 1 :
      engine = "validating" \/ Registry[i] \in enabled =>
        \/ Registry[i] \in Visited
        \/ calls # << >> /\ calls[1].plugin = Registry[i]

\* A request comes only to plugins it needs.
Needed ==
  engine = "resolving" => \A plugins \in Sufficient : Visited \cup Visiting \subseteq plugins

Verdict ==
  /\ engine = "refused" => ~(Defined /\ NoCircle)
  /\ engine \in {"up", "resolving"} => Defined /\ NoCircle

Answered ==
  /\ engine = "validating" => enabled = {} /\ listing = << >>
  /\ engine \in {"up", "refused"} => calls = << >>
  /\ engine = "up" =>
       /\ Ordered(dependencies, listing) /\ ToSet(listing) \in Sufficient
       /\ \A plugins \in Sufficient : ToSet(listing) \subseteq plugins

IInv ==
  /\ TypeOK /\ Path(dependencies, calls, Visited) /\ Ordered(dependencies, finished)
  /\ Passed /\ Needed /\ Verdict /\ Answered

-----------------------------------------------------------------------------
(* Paths: what a step does to one, for any dependencies and any calls *)

Dependencies == [Known -> Seq(Ids)]
Advance(c) == [c EXCEPT ![Len(c)].next = @ + 1]

LEMMA CallsFacts ==
  ASSUME NEW deps \in Dependencies, NEW c \in Calls
  PROVE  /\ Len(c) \in Nat /\ DOMAIN c = 1 .. Len(c)
         /\ c # << >> => Len(c) >= 1 /\ Last(c) = c[Len(c)]
         /\ \A i \in 1 .. Len(c) :
              /\ c[i] \in [plugin : Known, next : Nat \ {0}]
              /\ c[i].plugin \in Known /\ c[i].next \in Nat \ {0}
              /\ deps[c[i].plugin] \in Seq(Ids) /\ Len(deps[c[i].plugin]) \in Nat
              /\ DOMAIN deps[c[i].plugin] = 1 .. Len(deps[c[i].plugin])
<1>1. Len(c) \in Nat /\ DOMAIN c = 1 .. Len(c)
  BY LenProperties DEF Calls
<1>2. c # << >> => Len(c) >= 1 /\ Last(c) = c[Len(c)]
  BY <1>1, EmptySeq DEF Calls, Last
<1>3. ASSUME NEW i \in 1 .. Len(c)
      PROVE  c[i] \in [plugin : Known, next : Nat \ {0}]
  BY <1>1, ElementOfSeq DEF Calls
<1>4. ASSUME NEW p \in Known
      PROVE  deps[p] \in Seq(Ids) /\ Len(deps[p]) \in Nat /\ DOMAIN deps[p] = 1 .. Len(deps[p])
  BY LenProperties DEF Dependencies
<1>5. QED
  BY <1>1, <1>2, <1>3, <1>4

LEMMA AdvanceFacts ==
  ASSUME NEW c \in Calls, c # << >>
  PROVE  /\ Advance(c) \in Calls /\ Advance(c) # << >> /\ Len(Advance(c)) = Len(c)
         /\ \A i \in 1 .. Len(c) :
              /\ Advance(c)[i].plugin = c[i].plugin
              /\ Advance(c)[i].next = c[i].next + (IF i = Len(c) THEN 1 ELSE 0)
<1>. DEFINE a == Advance(c)
            n == Len(c)
<1>1. /\ n \in Nat /\ DOMAIN c = 1 .. n /\ n >= 1
      /\ \A i \in DOMAIN c : c[i] \in [plugin : Known, next : Nat \ {0}]
  <2>1. n \in Nat /\ DOMAIN c = 1 .. n
    BY LenProperties DEF Calls
  <2>2. n >= 1
    BY <2>1, EmptySeq DEF Calls
  <2>3. QED
    BY <2>1, <2>2, ElementOfSeq DEF Calls
<1>2. PICK last \in [plugin : Known, next : Nat \ {0}] :
        /\ last.plugin = c[n].plugin /\ last.next = c[n].next + 1
  <2>1. n \in DOMAIN c /\ c[n].plugin \in Known /\ c[n].next + 1 \in Nat \ {0}
    BY <1>1
  <2>2. [plugin |-> c[n].plugin, next |-> c[n].next + 1] \in [plugin : Known, next : Nat \ {0}]
    BY <2>1
  <2>3. QED
    BY <2>2
<1>3. a = [c EXCEPT ![n] = last]
  <2>1. a = [c EXCEPT ![n] = [c[n] EXCEPT !.next = c[n].next + 1]]
    BY DEF Advance
  <2>2. [c[n] EXCEPT !.next = c[n].next + 1] = last
    BY <1>1, <1>2
  <2>3. QED
    BY <2>1, <2>2
<1>. HIDE DEF a
<1>4. /\ DOMAIN a = DOMAIN c
      /\ \A i \in DOMAIN c : a[i] = IF i = n THEN last ELSE c[i]
  BY <1>1, <1>3
<1>5. a \in [1 .. n -> [plugin : Known, next : Nat \ {0}]]
  BY <1>1, <1>3
<1>6. a \in Calls /\ Len(a) = n
  BY <1>1, <1>5, SeqDef, LenProperties DEF Calls
<1>7. a # << >>
  BY <1>1, <1>6, EmptySeq
<1>8. \A i \in 1 .. n :
        /\ a[i].plugin = c[i].plugin
        /\ a[i].next = c[i].next + (IF i = n THEN 1 ELSE 0)
  <2>1. SUFFICES ASSUME NEW i \in 1 .. n
                 PROVE  /\ a[i].plugin = c[i].plugin
                        /\ a[i].next = c[i].next + (IF i = n THEN 1 ELSE 0)
    OBVIOUS
  <2>2. a[i] = (IF i = n THEN last ELSE c[i]) /\ c[i] \in [plugin : Known, next : Nat \ {0}]
    BY <1>1, <1>4
  <2>3. c[i].next \in Nat
    BY <2>2
  <2>4. CASE i = n
    BY <1>2, <2>2, <2>4
  <2>5. CASE i # n
    BY <2>2, <2>3, <2>5
  <2>6. QED
    BY <2>4, <2>5
<1>9. QED
  BY <1>6, <1>7, <1>8 DEF a

\* A call is entered on top of others.
LEMMA EnterFacts ==
  ASSUME NEW c \in Calls, NEW p \in Known
  PROVE  /\ Append(c, Call(p)) \in Calls /\ Append(c, Call(p)) # << >>
         /\ Len(c) \in Nat /\ Len(Append(c, Call(p))) = Len(c) + 1
         /\ \A i \in 1 .. Len(c) : Append(c, Call(p))[i] = c[i]
         /\ Append(c, Call(p))[Len(c) + 1].plugin = p
         /\ Append(c, Call(p))[Len(c) + 1].next = 1
<1>1. Call(p) \in [plugin : Known, next : Nat \ {0}] /\ Call(p).plugin = p /\ Call(p).next = 1
  BY DEF Call
<1>2. Len(c) \in Nat /\ DOMAIN c = 1 .. Len(c)
  BY LenProperties DEF Calls
<1>. DEFINE call == Call(p)
<1>. HIDE DEF call
<1>3. /\ Append(c, call) \in Calls /\ Append(c, call) # << >>
      /\ Len(Append(c, call)) = Len(c) + 1
      /\ \A i \in 1 .. Len(c) : Append(c, call)[i] = c[i]
      /\ Append(c, call)[Len(c) + 1] = call
  BY <1>1, AppendProperties DEF Calls, call
<1>4. QED
  BY <1>1, <1>2, <1>3 DEF call

\* A loop that has not moved has passed the same.
LEMMA PassedBySame ==
  ASSUME NEW deps, NEW c, NEW d, NEW done, NEW more, done \subseteq more, NEW i \in Nat,
         PassedBy(deps, c, done, i), d[i].plugin = c[i].plugin, d[i].next = c[i].next,
         i < Len(c) =>
           \/ i < Len(d) /\ d[i + 1].plugin = c[i + 1].plugin
           \/ c[i + 1].plugin \in more
  PROVE  PassedBy(deps, d, more, i)
<1>1. d[i].next <= Len(deps[d[i].plugin]) + 1
  BY DEF PassedBy
<1>2. ASSUME NEW j \in 1 .. d[i].next - 1
      PROVE  \/ deps[d[i].plugin][j] \in more
             \/ i < Len(d) /\ d[i + 1].plugin = deps[d[i].plugin][j]
  <2>1. \/ deps[c[i].plugin][j] \in done
        \/ i < Len(c) /\ c[i + 1].plugin = deps[c[i].plugin][j]
    BY DEF PassedBy
  <2>2. QED
    BY <2>1
<1>3. QED
  BY <1>1, <1>2 DEF PassedBy

\* The loop over the registry enters a plugin.
LEMMA EnterFirst ==
  ASSUME NEW deps \in Dependencies, NEW done, NEW p \in Known, p \notin done
  PROVE  Path(deps, Append(<< >>, Call(p)), done)
<1>1. << >> \in Calls /\ Len(<< >>) = 0
  BY EmptySeq DEF Calls
<1>. DEFINE d == Append(<< >>, Call(p))
<1>2. Len(d) = 1 /\ d[1].plugin = p /\ d[1].next = 1
  BY <1>1, EnterFacts
<1>3. Len(deps[p]) \in Nat
  BY LenProperties DEF Dependencies
<1>. HIDE DEF d
<1>4. Fresh(d, done) /\ Once(d) /\ Chain(deps, d)
  BY <1>2 DEF Fresh, Once, Chain
<1>5. \A i \in 1 .. 1 : PassedBy(deps, d, done, i)
  BY <1>2, <1>3 DEF PassedBy
<1>6. QED
  BY <1>2, <1>4, <1>5 DEF Path, d

\* A call goes on behind a dependency that is done.
LEMMA PassOne ==
  ASSUME NEW deps \in Dependencies, NEW c \in Calls, NEW done, Path(deps, c, done), c # << >>,
         Last(c).next <= Len(deps[Last(c).plugin]),
         deps[Last(c).plugin][Last(c).next] \in done
  PROVE  Path(deps, Advance(c), done)
<1>. DEFINE a == Advance(c)
            n == Len(c)
<1>1. /\ Len(a) = n /\ n = Len(c) /\ n \in Nat /\ n >= 1 /\ Last(c) = c[n]
      /\ \A i \in 1 .. n :
           /\ a[i].plugin = c[i].plugin
           /\ a[i].next = c[i].next + (IF i = n THEN 1 ELSE 0)
           /\ c[i].next \in Nat \ {0} /\ Len(deps[c[i].plugin]) \in Nat
  BY AdvanceFacts, CallsFacts
<1>. HIDE DEF a, n
<1>2. Fresh(c, done) /\ Once(c) /\ Chain(deps, c) /\ \A i \in 1 .. n : PassedBy(deps, c, done, i)
  BY <1>1 DEF Path
<1>3. Fresh(a, done)
  BY <1>1, <1>2 DEF Fresh
<1>4. Once(a)
  BY <1>1, <1>2 DEF Once
<1>5. Chain(deps, a)
  <2>1. ASSUME NEW i \in 1 .. n - 1
        PROVE  a[i + 1].plugin \in ToSet(deps[a[i].plugin])
    <3>1. i \in 1 .. n /\ i + 1 \in 1 .. n
      BY <1>1
    <3>2. a[i].plugin = c[i].plugin /\ a[i + 1].plugin = c[i + 1].plugin
      BY <1>1, <3>1
    <3>3. c[i + 1].plugin \in ToSet(deps[c[i].plugin])
      BY <1>1, <1>2 DEF Chain
    <3>4. QED
      BY <3>2, <3>3
  <2>2. QED
    BY <1>1, <2>1 DEF Chain
<1>6. ASSUME NEW i \in 1 .. n PROVE PassedBy(deps, a, done, i)
  <2>1. PassedBy(deps, c, done, i)
    BY <1>2
  <2>2. CASE i = n
    <3>1. a[n].plugin = c[n].plugin /\ a[n].next = c[n].next + 1 /\ c[n].next \in Nat \ {0}
      BY <1>1
    <3>2. c[n].next <= Len(deps[c[n].plugin]) /\ deps[c[n].plugin][c[n].next] \in done
      BY <1>1
    <3>3. \A j \in 1 .. c[n].next - 1 : deps[c[n].plugin][j] \in done
      BY <1>1, <2>1, <2>2 DEF PassedBy
    <3>4. QED
      BY <1>1, <2>2, <3>1, <3>2, <3>3 DEF PassedBy
  <2>3. CASE i # n
    <3>1. a[i].plugin = c[i].plugin /\ a[i].next = c[i].next /\ i \in Nat
      BY <1>1, <2>3
    <3>2. i < Len(a) /\ a[i + 1].plugin = c[i + 1].plugin
      BY <1>1, <2>3
    <3>3. QED
      BY <2>1, <3>1, <3>2, PassedBySame
  <2>4. QED
    BY <2>2, <2>3
<1>7. Path(deps, a, done)
  BY <1>1, <1>3, <1>4, <1>5, <1>6 DEF Path
<1>8. QED
  BY <1>7 DEF a

\* A call enters its next dependency.
LEMMA EnterNext ==
  ASSUME NEW deps \in Dependencies, NEW c \in Calls, NEW done, Path(deps, c, done), c # << >>,
         Last(c).next <= Len(deps[Last(c).plugin]),
         NEW p \in Known, p = deps[Last(c).plugin][Last(c).next], p \notin done,
         \A i \in 1 .. Len(c) : c[i].plugin # p
  PROVE  Path(deps, Append(Advance(c), Call(p)), done)
<1>. DEFINE a == Advance(c)
            n == Len(c)
            b == Append(a, Call(p))
<1>1. /\ a \in Calls /\ Len(a) = n /\ n = Len(c) /\ n \in Nat /\ n >= 1 /\ Last(c) = c[n]
      /\ \A i \in 1 .. n :
           /\ a[i].plugin = c[i].plugin
           /\ a[i].next = c[i].next + (IF i = n THEN 1 ELSE 0)
           /\ c[i].next \in Nat \ {0} /\ Len(deps[c[i].plugin]) \in Nat
           /\ DOMAIN deps[c[i].plugin] = 1 .. Len(deps[c[i].plugin])
  BY AdvanceFacts, CallsFacts
<1>. HIDE DEF a, n
<1>2. /\ Len(b) = n + 1 /\ b[n + 1].plugin = p /\ b[n + 1].next = 1
      /\ \A i \in 1 .. n : b[i] = a[i]
  BY <1>1, EnterFacts
<1>. HIDE DEF b
<1>3. /\ \A i \in 1 .. n : b[i].plugin = c[i].plugin
      /\ \A i \in 1 .. n : b[i].next = c[i].next + (IF i = n THEN 1 ELSE 0)
      /\ Len(deps[p]) \in Nat
  <2>1. Len(deps[p]) \in Nat
    BY LenProperties DEF Dependencies
  <2>2. QED
    BY <1>1, <1>2, <2>1
<1>4. Fresh(b, done)
  BY <1>1, <1>2, <1>3 DEF Path, Fresh
<1>5. Once(b)
  BY <1>1, <1>2, <1>3 DEF Path, Once
<1>6. Chain(deps, b)
  <2>1. p \in ToSet(deps[c[n].plugin])
    BY <1>1 DEF ToSet
  <2>2. QED
    BY <1>1, <1>2, <1>3, <2>1 DEF Path, Chain
<1>7. ASSUME NEW i \in 1 .. n + 1 PROVE PassedBy(deps, b, done, i)
  <2>1. CASE i = n + 1
    BY <1>1, <1>2, <1>3, <2>1 DEF PassedBy
  <2>2. CASE i = n
    <3>1. PassedBy(deps, c, done, n)
      BY <1>1 DEF Path
    <3>2. b[n].plugin = c[n].plugin /\ b[n].next = c[n].next + 1 /\ c[n].next \in Nat \ {0}
      BY <1>1, <1>3
    <3>3. c[n].next <= Len(deps[c[n].plugin]) /\ deps[c[n].plugin][c[n].next] = p
      BY <1>1
    <3>4. \A j \in 1 .. c[n].next - 1 : deps[c[n].plugin][j] \in done
      BY <1>1, <3>1 DEF PassedBy
    <3>5. QED
      BY <1>1, <1>2, <2>2, <3>2, <3>3, <3>4 DEF PassedBy
  <2>3. CASE i \in 1 .. n - 1
    <3>1. PassedBy(deps, c, done, i) /\ i < n /\ i < n + 1
      BY <1>1, <2>3 DEF Path
    <3>2. /\ b[i].plugin = c[i].plugin /\ b[i].next = c[i].next
          /\ b[i + 1].plugin = c[i + 1].plugin
      BY <1>1, <1>3, <2>3
    <3>3. i \in Nat /\ done \subseteq done
      BY <2>3
    <3>4. QED
      BY <3>1, <3>2, <3>3, <1>2, PassedBySame
  <2>4. QED
    BY <1>1, <2>1, <2>2, <2>3
<1>8. QED
  BY <1>1, <1>2, <1>4, <1>5, <1>6, <1>7 DEF Path, b, a

\* The last call ends: all its plugin depends on is done, and so is it.
LEMMA EndLast ==
  ASSUME NEW deps \in Dependencies, NEW c \in Calls, NEW done, Path(deps, c, done), c # << >>,
         ~(Last(c).next <= Len(deps[Last(c).plugin]))
  PROVE  /\ ToSet(deps[Last(c).plugin]) \subseteq done /\ Last(c).plugin \in Known \ done
         /\ Front(c) \in Calls /\ Path(deps, Front(c), done \cup {Last(c).plugin})
         /\ Len(Front(c)) = Len(c) - 1 /\ \A i \in 1 .. Len(c) - 1 : Front(c)[i] = c[i]
         /\ Front(c) # << >> => Front(c)[1] = c[1]
         /\ Front(c) = << >> => Last(c) = c[1]
<1>. DEFINE n == Len(c)
            f == Front(c)
            p == Last(c).plugin
<1>1. /\ n = Len(c) /\ n \in Nat /\ n >= 1 /\ Last(c) = c[n]
      /\ \A i \in 1 .. n :
           /\ c[i] \in [plugin : Known, next : Nat \ {0}]
           /\ c[i].plugin \in Known /\ c[i].next \in Nat \ {0}
           /\ Len(deps[c[i].plugin]) \in Nat
           /\ DOMAIN deps[c[i].plugin] = 1 .. Len(deps[c[i].plugin])
  BY CallsFacts
<1>2. /\ f \in Calls /\ Len(f) = n - 1
      /\ \A i \in 1 .. n - 1 : f[i] = c[i]
  <2>1. f = [i \in 1 .. n - 1 |-> c[i]]
    BY <1>1, SubSeqProperties DEF Front, Calls
  <2>2. f \in [1 .. n - 1 -> [plugin : Known, next : Nat \ {0}]]
    BY <1>1, <2>1
  <2>3. QED
    BY <1>1, <2>1, <2>2, SeqDef, LenProperties DEF Calls
<1>3. p \in Known \ done /\ p = c[n].plugin
  BY <1>1 DEF Path, Fresh
<1>4. ToSet(deps[p]) \subseteq done
  <2>1. PassedBy(deps, c, done, n)
    BY <1>1 DEF Path
  <2>2. \A j \in 1 .. Len(deps[p]) : deps[p][j] \in done
    BY <1>1, <2>1 DEF PassedBy
  <2>3. QED
    BY <1>1, <1>3, <2>2 DEF ToSet
<1>. HIDE DEF f, p, n
<1>5. Fresh(f, done \cup {p})
  BY <1>1, <1>2, <1>3 DEF Path, Fresh, Once
<1>6. Once(f) /\ Chain(deps, f)
  <2>1. Once(f)
    <3>1. \A i \in 1 .. n - 1 : i \in 1 .. n /\ f[i].plugin = c[i].plugin
      BY <1>1, <1>2
    <3>2. \A i, j \in 1 .. n : c[i].plugin = c[j].plugin => i = j
      BY <1>1 DEF Path, Once
    <3>3. QED
      BY <1>2, <3>1, <3>2 DEF Once
  <2>2. ASSUME NEW i \in 1 .. (n - 1) - 1
        PROVE  f[i + 1].plugin \in ToSet(deps[f[i].plugin])
    <3>1. i \in 1 .. n - 1 /\ i + 1 \in 1 .. n - 1 /\ i \in 1 .. Len(c) - 1
      BY <1>1
    <3>2. c[i + 1].plugin \in ToSet(deps[c[i].plugin])
      BY <3>1 DEF Path, Chain
    <3>3. QED
      BY <1>2, <3>1, <3>2
  <2>3. QED
    BY <1>2, <2>1, <2>2 DEF Chain
<1>7. ASSUME NEW i \in 1 .. n - 1 PROVE PassedBy(deps, f, done \cup {p}, i)
  <2>1. PassedBy(deps, c, done, i) /\ f[i] = c[i] /\ i < n
    BY <1>1, <1>2 DEF Path
  <2>2. CASE i = n - 1
    <3>1. c[i + 1].plugin = p /\ i \in Nat
      BY <1>1, <1>3, <2>2
    <3>2. QED
      BY <2>1, <3>1, PassedBySame
  <2>3. CASE i # n - 1
    <3>1. i + 1 \in 1 .. n - 1 /\ i < n - 1 /\ i \in Nat
      BY <1>1, <2>3
    <3>2. f[i + 1] = c[i + 1] /\ i < Len(f)
      BY <1>2, <3>1
    <3>3. QED
      BY <2>1, <3>1, <3>2, PassedBySame
  <2>4. QED
    BY <2>2, <2>3
<1>8. Path(deps, f, done \cup {p})
  BY <1>1, <1>2, <1>5, <1>6, <1>7 DEF Path
<1>9. /\ f # << >> => f[1] = c[1]
      /\ f = << >> => Last(c) = c[1]
  <2>1. f # << >> => Len(f) # 0
    BY <1>2, EmptySeq DEF Calls
  <2>2. f = << >> => Len(f) = 0
    BY EmptySeq
  <2>3. QED
    BY <1>1, <1>2, <2>1, <2>2
<1>10. QED
  BY <1>1, <1>2, <1>3, <1>4, <1>8, <1>9 DEF f, p, n

\* A call that comes back to one in progress has gone in a circle.
LEMMA Circle ==
  ASSUME NEW deps \in Dependencies, NEW c \in Calls, NEW done, Path(deps, c, done), c # << >>,
         NEW k \in 1 .. Len(c), c[k].plugin \in ToSet(deps[Last(c).plugin])
  PROVE  \E plugins \in (SUBSET Known) \ {{}} :
           \A plugin \in plugins : ToSet(deps[plugin]) \cap plugins # {}
<1>. DEFINE n == Len(c)
            plugins == {c[i].plugin : i \in k .. n}
<1>1. /\ n = Len(c) /\ n \in Nat /\ n >= 1 /\ Last(c) = c[n] /\ k \in 1 .. n
      /\ \A i \in 1 .. n : c[i].plugin \in Known
  BY CallsFacts
<1>. HIDE DEF n
<1>2. plugins \in SUBSET Known /\ c[k].plugin \in plugins
  BY <1>1
<1>3. ASSUME NEW i \in k .. n
      PROVE  ToSet(deps[c[i].plugin]) \cap plugins # {}
  <2>1. CASE i = n
    BY <1>1, <1>2, <2>1
  <2>2. CASE i # n
    <3>1. i \in 1 .. n - 1 /\ i + 1 \in k .. n
      BY <1>1, <2>2
    <3>2. c[i + 1].plugin \in ToSet(deps[c[i].plugin])
      BY <1>1, <3>1 DEF Path, Chain
    <3>3. c[i + 1].plugin \in plugins
      BY <3>1
    <3>4. QED
      BY <3>2, <3>3
  <2>3. QED
    BY <2>1, <2>2
<1>4. \A plugin \in plugins : ToSet(deps[plugin]) \cap plugins # {}
  BY <1>3
<1>5. QED
  BY <1>2, <1>4

-----------------------------------------------------------------------------
(* Orders *)

LEMMA OrderedAppend ==
  ASSUME NEW deps, NEW list \in Seq(Known), Ordered(deps, list),
         NEW p \in Known \ ToSet(list), ToSet(deps[p]) \subseteq ToSet(list)
  PROVE  /\ Append(list, p) \in Seq(Known) /\ Ordered(deps, Append(list, p))
         /\ ToSet(Append(list, p)) = ToSet(list) \cup {p}
<1>. DEFINE more == Append(list, p)
            n == Len(list)
<1>1. /\ n \in Nat /\ DOMAIN list = 1 .. n
      /\ more \in Seq(Known) /\ Len(more) = n + 1 /\ more[n + 1] = p
      /\ \A i \in 1 .. n : more[i] = list[i]
  BY LenProperties, AppendProperties
<1>2. DOMAIN more = 1 .. n + 1
  BY <1>1, LenProperties
<1>. HIDE DEF more, n
<1>3. ToSet(more) = ToSet(list) \cup {p}
  <2>1. ToSet(list) = {list[i] : i \in 1 .. n} /\ ToSet(more) = {more[i] : i \in 1 .. n + 1}
    BY <1>1, <1>2 DEF ToSet
  <2>2. n + 1 \in 1 .. n + 1 /\ \A i \in 1 .. n + 1 : i \in 1 .. n \/ i = n + 1
    BY <1>1
  <2>3. \A i \in 1 .. n : i \in 1 .. n + 1
    BY <1>1
  <2>4. QED
    BY <1>1, <2>1, <2>2, <2>3
<1>4. ASSUME NEW i \in 1 .. n + 1, NEW d \in ToSet(deps[more[i]])
      PROVE  \E j \in 1 .. i - 1 : more[j] = d
  <2>1. CASE i = n + 1
    <3>1. PICK j \in 1 .. n : list[j] = d
      BY <1>1, <2>1 DEF ToSet
    <3>2. j \in 1 .. i - 1 /\ more[j] = d
      BY <1>1, <2>1, <3>1
    <3>3. QED
      BY <3>2
  <2>2. CASE i # n + 1
    <3>1. i \in 1 .. n
      BY <1>1, <2>2
    <3>2. PICK j \in 1 .. i - 1 : list[j] = d
      BY <1>1, <3>1 DEF Ordered
    <3>3. j \in 1 .. n
      BY <1>1, <3>1
    <3>4. QED
      BY <1>1, <3>2, <3>3
  <2>3. QED
    BY <2>1, <2>2
<1>5. ASSUME NEW i \in 1 .. n + 1, NEW j \in 1 .. n + 1, more[i] = more[j]
      PROVE  i = j
  <2>1. \A k \in 1 .. n : more[k] # p
    BY <1>1 DEF ToSet
  <2>2. CASE i \in 1 .. n /\ j \in 1 .. n
    BY <1>1, <1>5, <2>2 DEF Ordered
  <2>3. CASE i \notin 1 .. n \/ j \notin 1 .. n
    <3>1. i = n + 1 \/ j = n + 1
      BY <1>1, <2>3
    <3>2. (i \in 1 .. n \/ i = n + 1) /\ (j \in 1 .. n \/ j = n + 1)
      BY <1>1
    <3>3. QED
      BY <1>1, <1>5, <2>1, <3>1, <3>2
  <2>4. QED
    BY <2>2, <2>3
<1>6. Ordered(deps, more)
  BY <1>2, <1>4, <1>5 DEF Ordered
<1>7. QED
  BY <1>1, <1>3, <1>6 DEF more

\* What is ordered has no circle: of any plugins, the first of the order depends
\* on none of them.
LEMMA OrderHasNoCircle ==
  ASSUME NEW list \in Seq(Known), Ordered(dependencies, list), Known \subseteq ToSet(list)
  PROVE  Defined /\ NoCircle
<1>1. Len(list) \in Nat /\ DOMAIN list = 1 .. Len(list) /\ ToSet(list) \subseteq Known
  BY LenProperties, ElementOfSeq DEF ToSet
<1>2. ASSUME NEW plugin \in Known PROVE DependsOn(plugin) \subseteq Known
  <2>1. PICK i \in DOMAIN list : list[i] = plugin
    BY DEF ToSet
  <2>2. \A d \in DependsOn(plugin) : \E j \in 1 .. i - 1 : list[j] = d
    BY <2>1 DEF Ordered, DependsOn
  <2>3. \A j \in 1 .. i - 1 : j \in DOMAIN list
    BY <1>1
  <2>4. QED
    BY <1>1, <2>2, <2>3 DEF ToSet
<1>3. ASSUME NEW plugins \in (SUBSET Known) \ {{}}
      PROVE  \E plugin \in plugins : DependsOn(plugin) \cap plugins = {}
  <2>. DEFINE places == {i \in 1 .. Len(list) : list[i] \in plugins}
  <2>1. plugins \subseteq Known /\ plugins # {}
    OBVIOUS
  <2>2. PICK q \in plugins : q \in Known
    BY <2>1
  <2>3. places \in SUBSET Nat /\ places # {}
    BY <1>1, <2>2 DEF ToSet
  <2>. HIDE DEF places
  <2>4. PICK i \in places : \A j \in places : i <= j
    BY <2>3, Least
  <2>5. i \in 1 .. Len(list) /\ list[i] \in plugins /\ i \in DOMAIN list
    BY <1>1 DEF places
  <2>6. ASSUME NEW d \in DependsOn(list[i]), d \in plugins PROVE FALSE
    <3>1. PICK j \in 1 .. i - 1 : list[j] = d
      BY <2>5 DEF Ordered, DependsOn
    <3>2. j \in 1 .. Len(list) /\ j < i
      BY <1>1, <2>5
    <3>3. j \in places
      BY <2>6, <3>1, <3>2 DEF places
    <3>4. QED
      BY <1>1, <2>4, <2>5, <3>2, <3>3
  <2>7. QED
    BY <2>5, <2>6
<1>4. QED
  BY <1>2, <1>3 DEF Defined, NoCircle

-----------------------------------------------------------------------------
(* The state *)

LEMMA StateFacts ==
  ASSUME TypeOK
  PROVE  /\ dependencies \in Dependencies /\ calls \in Calls /\ finished \in Seq(Known)
         /\ Visited \subseteq Known /\ Visiting \subseteq Known
         /\ Visiting = {calls[i].plugin : i \in 1 .. Len(calls)}
         /\ Advanced = Advance(calls)
         /\ Len(Registry) \in Nat /\ next \in Nat
         /\ \A i \in 1 .. Len(Registry) : Registry[i] \in Known
<1>1. dependencies \in Dependencies /\ calls \in Calls /\ finished \in Seq(Known)
  BY DEF TypeOK, Dependencies
<1>2. Visited \subseteq Known
  <2>1. DOMAIN finished = 1 .. Len(finished)
    BY <1>1, LenProperties
  <2>2. QED
    BY <1>1, <2>1, ElementOfSeq DEF Visited, ToSet
<1>3. /\ Visiting = {calls[i].plugin : i \in 1 .. Len(calls)}
      /\ \A i \in 1 .. Len(calls) : calls[i].plugin \in Known
  BY <1>1, CallsFacts DEF Visiting
<1>4. Visiting \subseteq Known
  BY <1>3
<1>5. Advanced = Advance(calls)
  BY DEF Advanced, Advance
<1>6. Registry \in Seq(Ids)
  BY PluginsAssumption
<1>7. Len(Registry) \in Nat /\ DOMAIN Registry = 1 .. Len(Registry)
  BY <1>6, LenProperties
<1>8. \A i \in 1 .. Len(Registry) : Registry[i] \in Known
  BY <1>7 DEF Known, ToSet
<1>9. next \in Nat
  BY <1>7 DEF TypeOK
<1>10. QED
  BY <1>1, <1>2, <1>3, <1>4, <1>5, <1>7, <1>8, <1>9

\* A dependency the last call is at.
LEMMA NextFacts ==
  ASSUME TypeOK, AtDependency
  PROVE  /\ calls # << >> /\ Len(calls) >= 1 /\ Len(calls) \in Nat
         /\ Last(calls) = calls[Len(calls)] /\ Last(calls).plugin \in Visiting
         /\ Last(calls).plugin \in Known
         /\ Last(calls).next <= Len(dependencies[Last(calls).plugin])
         /\ NextDependency = dependencies[Last(calls).plugin][Last(calls).next]
         /\ NextDependency \in DependsOn(Last(calls).plugin) /\ NextDependency \in Ids
         /\ calls[1].plugin = Advanced[1].plugin
<1>. DEFINE top == Last(calls)
<1>1. /\ calls # << >> /\ Len(calls) >= 1 /\ Len(calls) \in Nat /\ top = calls[Len(calls)]
      /\ top.plugin \in Known /\ top.next \in Nat \ {0}
      /\ dependencies[top.plugin] \in Seq(Ids) /\ Len(dependencies[top.plugin]) \in Nat
      /\ DOMAIN dependencies[top.plugin] = 1 .. Len(dependencies[top.plugin])
      /\ top.next <= Len(dependencies[top.plugin])
  BY StateFacts, CallsFacts DEF AtDependency
<1>2. top.plugin \in Visiting
  BY <1>1, StateFacts
<1>3. calls[1].plugin = Advanced[1].plugin
  BY <1>1, StateFacts, AdvanceFacts
<1>. HIDE DEF top
<1>4. /\ NextDependency = dependencies[top.plugin][top.next]
      /\ top.next \in DOMAIN dependencies[top.plugin]
  BY <1>1 DEF NextDependency, top
<1>5. NextDependency \in DependsOn(top.plugin) /\ NextDependency \in Ids
  BY <1>1, <1>4, ElementOfSeq DEF DependsOn, ToSet
<1>6. QED
  BY <1>1, <1>2, <1>3, <1>4, <1>5 DEF top

\* A dependency on a plugin whose call is in progress is a circle.
LEMMA NotTwice ==
  ASSUME TypeOK, Path(dependencies, calls, Visited), AtDependency, NextDependency \in Visiting
  PROVE  ~NoCircle
<1>1. PICK k \in 1 .. Len(calls) : calls[k].plugin = NextDependency
  BY StateFacts
<1>2. /\ calls # << >> /\ dependencies \in Dependencies /\ calls \in Calls
      /\ calls[k].plugin \in ToSet(dependencies[Last(calls).plugin])
  BY <1>1, StateFacts, NextFacts DEF DependsOn
<1>3. PICK plugins \in (SUBSET Known) \ {{}} :
        \A plugin \in plugins : ToSet(dependencies[plugin]) \cap plugins # {}
  BY <1>2, Circle
<1>4. QED
  BY <1>3 DEF NoCircle, DependsOn

-----------------------------------------------------------------------------
(* The steps *)

LEMMA SameDependencies ==
  ASSUME UNCHANGED dependencies
  PROVE  /\ Defined' <=> Defined
         /\ NoCircle' <=> NoCircle
         /\ UNCHANGED enabled => Sufficient' = Sufficient
BY DEF Defined, NoCircle, DependsOn, Sufficient, Closed

LEMMA NothingCalled ==
  ASSUME NEW deps, NEW done
  PROVE  << >> \in Calls /\ Path(deps, << >>, done)
<1>1. << >> \in Calls /\ Len(<< >>) = 0
  BY EmptySeq DEF Calls
<1>2. QED
  BY <1>1 DEF Path, Fresh, Once, Chain

\* What every step of a loop keeps, whatever it does to the calls.
LEMMA LoopKeeps ==
  ASSUME IInv, UNCHANGED <<dependencies, finished, enabled, listing>>,
         next' \in 1 .. Len(Registry) + 1, engine' \in Engines,
         calls' \in Calls, Path(dependencies, calls', Visited)
  PROVE  TypeOK' /\ Path(dependencies, calls, Visited)' /\ Ordered(dependencies, finished)'
<1>1. TypeOK'
  BY DEF IInv, TypeOK
<1>2. Visited' = Visited
  BY DEF Visited
<1>3. QED
  BY <1>1, <1>2 DEF IInv

\* A call goes on behind a dependency that is done, or enters it.
LEMMA DependencyPassed ==
  ASSUME IInv, AtDependency, NextDependency \in Known, UNCHANGED finished,
         \/ NextDependency \in Visited /\ calls' = Advanced
         \/ NextDependency \notin Visited \cup Visiting /\ calls' = Append(Advanced, Call(NextDependency))
  PROVE  /\ calls' \in Calls /\ Path(dependencies, calls', Visited)
         /\ calls' # << >> /\ calls'[1].plugin = calls[1].plugin
         /\ Visiting' \subseteq Visiting \cup {NextDependency}
<1>1. /\ TypeOK /\ Path(dependencies, calls, Visited) /\ dependencies \in Dependencies
      /\ calls \in Calls /\ Advanced = Advance(calls)
      /\ Visiting = {calls[i].plugin : i \in 1 .. Len(calls)}
  BY StateFacts DEF IInv
<1>2. /\ calls # << >> /\ Len(calls) >= 1 /\ Len(calls) \in Nat
      /\ Last(calls).next <= Len(dependencies[Last(calls).plugin])
      /\ NextDependency = dependencies[Last(calls).plugin][Last(calls).next]
      /\ calls[1].plugin = Advanced[1].plugin
  BY <1>1, NextFacts
<1>3. /\ Advanced \in Calls /\ Advanced # << >> /\ Len(Advanced) = Len(calls)
      /\ \A i \in 1 .. Len(calls) : Advanced[i].plugin = calls[i].plugin
  BY <1>1, <1>2, AdvanceFacts
<1>4. CASE NextDependency \in Visited /\ calls' = Advanced
  <2>1. Path(dependencies, calls', Visited)
    BY <1>1, <1>2, <1>4, PassOne
  <2>2. Visiting' = {calls'[i].plugin : i \in 1 .. Len(calls')}
    BY <1>3, <1>4, CallsFacts, <1>1 DEF Visiting
  <2>3. Visiting' = {Advanced[i].plugin : i \in 1 .. Len(calls)}
    BY <1>3, <1>4, <2>2
  <2>4. Visiting' \subseteq Visiting
    BY <1>1, <1>3, <2>3
  <2>5. QED
    BY <1>2, <1>3, <1>4, <2>1, <2>4
<1>5. CASE NextDependency \notin Visited \cup Visiting
           /\ calls' = Append(Advanced, Call(NextDependency))
  <2>. DEFINE p == NextDependency
              n == Len(calls)
  <2>1. \A i \in 1 .. n : calls[i].plugin # p
    BY <1>1, <1>5
  <2>2. Path(dependencies, calls', Visited)
    BY <1>1, <1>2, <1>5, <2>1, EnterNext
  <2>3. /\ calls' \in Calls /\ calls' # << >> /\ Len(calls') = n + 1
        /\ \A i \in 1 .. n : calls'[i] = Advanced[i]
        /\ calls'[n + 1].plugin = p
    BY <1>3, <1>5, EnterFacts
  <2>4. calls'[1].plugin = calls[1].plugin
    BY <1>2, <2>3
  <2>5. Visiting' = {calls'[i].plugin : i \in 1 .. n + 1}
    BY <1>1, <2>3, CallsFacts DEF Visiting
  <2>6. \A i \in 1 .. n + 1 : calls'[i].plugin \in Visiting \cup {p}
    <3>1. \A i \in 1 .. n + 1 : i \in 1 .. n \/ i = n + 1
      BY <1>2
    <3>2. QED
      BY <1>1, <1>3, <2>3, <3>1
  <2>7. QED
    BY <2>2, <2>3, <2>4, <2>5, <2>6
<1>6. QED
  BY <1>4, <1>5

\* The loop over the registry goes on: behind a plugin that is done or not asked
\* for, or into it.
LEMMA PluginPassed ==
  ASSUME IInv, AtPlugin, UNCHANGED <<finished, enabled, engine>>, next' = next + 1,
         NEW p, p = Registry[next],
         \/ p \in Visited /\ calls' = << >>
         \/ engine = "resolving" /\ p \notin enabled /\ calls' = << >>
         \/ p \notin Visited /\ calls' = Append(<< >>, Call(p))
  PROVE  /\ p \in Known /\ next' \in 1 .. Len(Registry) + 1
         /\ calls' \in Calls /\ Path(dependencies, calls', Visited) /\ Passed'
         /\ Visiting' \subseteq {p} /\ (calls' = << >> => Visiting' = {})
<1>1. /\ TypeOK /\ dependencies \in Dependencies /\ calls = << >>
      /\ Len(Registry) \in Nat /\ next \in 1 .. Len(Registry)
  BY StateFacts DEF IInv, AtPlugin, TypeOK
<1>2. p \in Known /\ next' \in 1 .. Len(Registry) + 1
  BY <1>1, StateFacts
<1>3. calls' \in Calls /\ Path(dependencies, calls', Visited)
  <2>1. << >> \in Calls /\ Append(<< >>, Call(p)) \in Calls
    BY <1>2, NothingCalled, EnterFacts
  <2>2. QED
    BY <1>1, <1>2, <2>1, NothingCalled, EnterFirst
<1>4. calls' = << >> \/ (Len(calls') = 1 /\ calls'[1].plugin = p /\ calls' # << >>)
  <2>1. << >> \in Calls /\ Len(<< >>) = 0
    BY EmptySeq DEF Calls
  <2>2. QED
    BY <1>2, <2>1, EnterFacts
<1>5. /\ Visiting' \subseteq {p} /\ (calls' = << >> => Visiting' = {})
  <2>1. Visiting' = {calls'[i].plugin : i \in 1 .. Len(calls')}
    BY <1>1, <1>3, CallsFacts DEF Visiting
  <2>2. CASE calls' = << >>
    <3>1. Len(calls') = 0
      BY <2>2, EmptySeq
    <3>2. QED
      BY <2>1, <3>1
  <2>3. CASE Len(calls') = 1 /\ calls'[1].plugin = p /\ calls' # << >>
    BY <2>1, <2>3
  <2>4. QED
    BY <1>4, <2>2, <2>3
<1>6. ASSUME engine \in {"validating", "resolving"}, NEW i \in 1 .. next' - 1,
             engine = "validating" \/ Registry[i] \in enabled
      PROVE  \/ Registry[i] \in Visited
             \/ calls' # << >> /\ calls'[1].plugin = Registry[i]
  <2>1. CASE i = next
    BY <1>4, <1>6, <2>1
  <2>2. CASE i # next
    <3>1. i \in 1 .. next - 1
      BY <1>1, <2>2
    <3>2. QED
      BY <1>1, <1>6, <3>1 DEF IInv, Passed
  <2>3. QED
    BY <2>1, <2>2
<1>7. Passed'
  <2>1. Visited' = Visited
    BY DEF Visited
  <2>2. QED
    BY <1>6, <2>1 DEF Passed
<1>8. QED
  BY <1>2, <1>3, <1>5, <1>7

LEMMA ValidateRegistryStep ==
  ASSUME IInv, ValidateRegistry
  PROVE  IInv'
<1>. DEFINE p == Registry[next]
<1>1. /\ TypeOK /\ engine = "validating" /\ AtPlugin /\ next' = next + 1
      /\ ValidatePlugin(p, << >>) /\ UNCHANGED <<dependencies, finished, enabled, listing>>
  BY DEF ValidateRegistry, IInv
<1>2. p \in Known /\ Visiting = {}
  <2>1. next \in 1 .. Len(Registry) /\ calls = << >>
    BY <1>1, StateFacts DEF AtPlugin, TypeOK
  <2>2. Len(calls) = 0
    BY <2>1, EmptySeq
  <2>3. QED
    BY <1>1, <2>1, <2>2, StateFacts
<1>3. /\ engine' = engine
      /\ \/ p \in Visited /\ calls' = << >>
         \/ p \notin Visited /\ calls' = Append(<< >>, Call(p))
  BY <1>1, <1>2 DEF ValidatePlugin
<1>4. /\ next' \in 1 .. Len(Registry) + 1 /\ calls' \in Calls
      /\ Path(dependencies, calls', Visited) /\ Passed'
  BY <1>1, <1>3, PluginPassed
<1>5. TypeOK' /\ Path(dependencies, calls, Visited)' /\ Ordered(dependencies, finished)'
  BY <1>1, <1>3, <1>4, LoopKeeps DEF Engines
<1>6. Needed' /\ Verdict' /\ Answered'
  BY <1>1, <1>3 DEF IInv, Needed, Verdict, Answered
<1>7. QED
  BY <1>4, <1>5, <1>6 DEF IInv

\* The plugins the loop has passed stay so when a call goes on.
LEMMA PassedStays ==
  ASSUME IInv, UNCHANGED <<engine, next, finished, enabled>>, calls # << >>,
         calls' # << >>, calls'[1].plugin = calls[1].plugin
  PROVE  Passed'
<1>1. Visited' = Visited
  BY DEF Visited
<1>2. ASSUME engine \in {"validating", "resolving"}, NEW i \in 1 .. next - 1,
             engine = "validating" \/ Registry[i] \in enabled
      PROVE  \/ Registry[i] \in Visited
             \/ calls' # << >> /\ calls'[1].plugin = Registry[i]
  BY <1>2 DEF IInv, Passed
<1>3. QED
  BY <1>1, <1>2 DEF Passed

LEMMA ValidateDependencyStep ==
  ASSUME IInv, ValidateDependency
  PROVE  IInv'
<1>. DEFINE p == NextDependency
<1>1. /\ TypeOK /\ engine = "validating" /\ AtDependency
      /\ ValidatePlugin(p, Advanced)
      /\ UNCHANGED <<dependencies, next, finished, enabled, listing>>
      /\ Path(dependencies, calls, Visited)
  BY DEF ValidateDependency, IInv
<1>2. /\ calls # << >> /\ Last(calls).plugin \in Known /\ p \in DependsOn(Last(calls).plugin)
      /\ Visited \subseteq Known
      /\ next \in 1 .. Len(Registry) + 1
  BY <1>1, NextFacts, StateFacts DEF TypeOK
<1>3. CASE /\ engine' = engine
           /\ \/ p \in Visited /\ calls' = Advanced
              \/ p \in Known \ (Visited \cup Visiting) /\ calls' = Append(Advanced, Call(p))
  <2>1. p \in Known
    BY <1>2, <1>3
  <2>2. \/ p \in Visited /\ calls' = Advanced
        \/ p \notin Visited \cup Visiting /\ calls' = Append(Advanced, Call(p))
    BY <1>3
  <2>3. /\ calls' \in Calls /\ Path(dependencies, calls', Visited)
        /\ calls' # << >> /\ calls'[1].plugin = calls[1].plugin
    BY <1>1, <2>1, <2>2, DependencyPassed
  <2>4. TypeOK' /\ Path(dependencies, calls, Visited)' /\ Ordered(dependencies, finished)'
    BY <1>1, <1>2, <1>3, <2>3, LoopKeeps DEF Engines
  <2>5. Passed'
    BY <1>1, <1>2, <1>3, <2>3, PassedStays
  <2>6. Needed' /\ Verdict' /\ Answered'
    BY <1>1, <1>3 DEF IInv, Needed, Verdict, Answered
  <2>7. QED
    BY <2>4, <2>5, <2>6 DEF IInv
<1>4. CASE /\ p \in Visiting \ Visited \/ p \notin Known
           /\ calls' = << >> /\ engine' = "refused"
  <2>1. calls' \in Calls /\ Path(dependencies, calls', Visited)
    BY <1>4, NothingCalled
  <2>2. TypeOK' /\ Path(dependencies, calls, Visited)' /\ Ordered(dependencies, finished)'
    BY <1>1, <1>2, <1>4, <2>1, LoopKeeps DEF Engines
  <2>3. ~(Defined /\ NoCircle)
    <3>1. CASE p \in Visiting
      BY <1>1, <3>1, NotTwice
    <3>2. CASE p \notin Known
      BY <1>2, <3>2 DEF Defined
    <3>3. QED
      BY <1>4, <3>1, <3>2
  <2>4. Verdict'
    BY <1>1, <1>4, <2>3, SameDependencies DEF Verdict
  <2>5. Passed' /\ Needed' /\ Answered'
    BY <1>4 DEF Passed, Needed, Answered
  <2>6. QED
    BY <2>2, <2>4, <2>5 DEF IInv
<1>5. QED
  BY <1>1, <1>3, <1>4 DEF ValidatePlugin

LEMMA StartEngineStep ==
  ASSUME IInv, StartEngine
  PROVE  IInv'
<1>1. /\ TypeOK /\ engine = "validating" /\ engine' = "up" /\ calls = << >>
      /\ UNCHANGED <<dependencies, next, calls, finished, enabled, listing>>
      /\ next > Len(Registry) /\ enabled = {} /\ listing = << >>
      /\ next \in 1 .. Len(Registry) + 1 /\ calls \in Calls
      /\ Path(dependencies, calls, Visited)
  BY DEF StartEngine, AtEnd, IInv, Answered, TypeOK
<1>2. TypeOK' /\ Path(dependencies, calls, Visited)' /\ Ordered(dependencies, finished)'
  BY <1>1, LoopKeeps DEF Engines
<1>3. Known \subseteq ToSet(finished)
  <2>1. \A i \in 1 .. Len(Registry) : Registry[i] \in Visited
    BY <1>1, StateFacts DEF IInv, Passed
  <2>2. DOMAIN Registry = 1 .. Len(Registry)
    BY PluginsAssumption, LenProperties
  <2>3. QED
    BY <2>1, <2>2 DEF Known, ToSet, Visited
<1>4. Defined /\ NoCircle
  BY <1>1, <1>3, OrderHasNoCircle DEF IInv, TypeOK
<1>5. Verdict'
  BY <1>1, <1>4, SameDependencies DEF Verdict
<1>6. Passed' /\ Needed'
  BY <1>1 DEF Passed, Needed
<1>7. Answered'
  <2>1. Ordered(dependencies, << >>) /\ ToSet(<< >>) = {}
    BY EmptySeq DEF Ordered, ToSet
  <2>2. {} \in Sufficient
    BY <1>1 DEF Sufficient, Closed
  <2>3. Sufficient' = Sufficient
    BY <1>1, SameDependencies
  <2>4. QED
    BY <1>1, <2>1, <2>2, <2>3 DEF Answered
<1>8. QED
  BY <1>2, <1>5, <1>6, <1>7 DEF IInv

LEMMA ListForTenantStep ==
  ASSUME IInv, NEW wanted \in SUBSET Ids, ListForTenant(wanted)
  PROVE  IInv'
<1>1. /\ TypeOK /\ engine = "up" /\ engine' = "resolving" /\ enabled' = wanted
      /\ next' = 1 /\ finished' = << >> /\ UNCHANGED <<dependencies, calls, listing>>
      /\ calls = << >>
  BY DEF ListForTenant, IInv, Answered
<1>2. TypeOK'
  <2>1. finished' \in Seq(Known) /\ Len(Registry) \in Nat
    BY <1>1, StateFacts, EmptySeq
  <2>2. QED
    BY <1>1, <2>1 DEF TypeOK, Engines
<1>3. Path(dependencies, calls, Visited)'
  BY <1>1, NothingCalled
<1>4. Ordered(dependencies, finished)' /\ Visited' = {}
  BY <1>1, EmptySeq DEF Ordered, Visited, ToSet
<1>5. Visiting' = {}
  BY <1>1, EmptySeq DEF Visiting
<1>6. Passed' /\ Needed' /\ Answered'
  BY <1>1, <1>4, <1>5 DEF Passed, Needed, Answered
<1>7. Verdict'
  BY <1>1, SameDependencies DEF IInv, Verdict
<1>8. QED
  BY <1>2, <1>3, <1>4, <1>6, <1>7 DEF IInv

LEMMA ResolvePluginsStep ==
  ASSUME IInv, ResolvePlugins
  PROVE  IInv'
<1>. DEFINE p == Registry[next]
<1>1. /\ TypeOK /\ engine = "resolving" /\ AtPlugin /\ next' = next + 1 /\ calls = << >>
      /\ UNCHANGED <<dependencies, engine, finished, enabled, listing>>
  BY DEF ResolvePlugins, AtPlugin, IInv
<1>2. p \in Known
  <2>1. next \in 1 .. Len(Registry)
    BY <1>1, StateFacts DEF AtPlugin, TypeOK
  <2>2. QED
    BY <1>1, <2>1, StateFacts
<1>3. \/ p \in Visited /\ calls' = << >>
      \/ p \notin enabled /\ calls' = << >>
      \/ p \in enabled \ Visited /\ calls' = Append(<< >>, Call(p))
  BY <1>1, <1>2 DEF ResolvePlugins, AddPluginWithDependencies
<1>4. /\ next' \in 1 .. Len(Registry) + 1 /\ calls' \in Calls
      /\ Path(dependencies, calls', Visited) /\ Passed'
      /\ Visiting' \subseteq {p} /\ (calls' = << >> => Visiting' = {})
  BY <1>1, <1>3, PluginPassed
<1>5. TypeOK' /\ Path(dependencies, calls, Visited)' /\ Ordered(dependencies, finished)'
  BY <1>1, <1>4, LoopKeeps DEF Engines
<1>6. Needed'
  <2>1. Visited' = Visited /\ Sufficient' = Sufficient
    BY <1>1, SameDependencies DEF Visited
  <2>2. ASSUME NEW plugins \in Sufficient PROVE Visited \cup Visiting' \subseteq plugins
    <3>1. Visited \subseteq plugins /\ enabled \cap Known \subseteq plugins
      BY <1>1 DEF IInv, Needed, Sufficient
    <3>2. Visiting' \subseteq enabled \cap Known
      BY <1>2, <1>3, <1>4
    <3>3. QED
      BY <3>1, <3>2
  <2>3. QED
    BY <2>1, <2>2 DEF Needed
<1>7. Verdict' /\ Answered'
  BY <1>1, SameDependencies DEF IInv, Verdict, Answered
<1>8. QED
  BY <1>4, <1>5, <1>6, <1>7 DEF IInv

LEMMA ResolveDependencyStep ==
  ASSUME IInv, ResolveDependency
  PROVE  IInv'
<1>. DEFINE p == NextDependency
            top == Last(calls).plugin
<1>1. /\ TypeOK /\ engine = "resolving" /\ AtDependency
      /\ UNCHANGED <<dependencies, engine, next, finished, enabled, listing>>
      /\ Path(dependencies, calls, Visited) /\ Defined /\ NoCircle
      /\ next \in 1 .. Len(Registry) + 1
  BY DEF ResolveDependency, IInv, Verdict, TypeOK
<1>2. calls # << >> /\ top \in Known /\ top \in Visiting /\ p \in DependsOn(top)
  BY <1>1, NextFacts
<1>3. p \in Known /\ p \notin Visiting
  BY <1>1, <1>2, NotTwice DEF Defined
<1>4. \/ p \in Visited /\ calls' = Advanced
      \/ p \notin Visited \cup Visiting /\ calls' = Append(Advanced, Call(p))
  BY <1>3 DEF ResolveDependency, AddPluginWithDependencies
<1>5. /\ calls' \in Calls /\ Path(dependencies, calls', Visited)
      /\ calls' # << >> /\ calls'[1].plugin = calls[1].plugin
      /\ Visiting' \subseteq Visiting \cup {p}
  BY <1>1, <1>3, <1>4, DependencyPassed
<1>6. TypeOK' /\ Path(dependencies, calls, Visited)' /\ Ordered(dependencies, finished)'
  BY <1>1, <1>5, LoopKeeps DEF Engines
<1>7. Passed'
  BY <1>1, <1>2, <1>5, PassedStays
<1>8. Needed'
  <2>1. Visited' = Visited /\ Sufficient' = Sufficient
    BY <1>1, SameDependencies DEF Visited
  <2>2. ASSUME NEW plugins \in Sufficient PROVE Visited \cup Visiting' \subseteq plugins
    <3>1. Visited \cup Visiting \subseteq plugins
      BY <1>1 DEF IInv, Needed
    <3>2. p \in plugins
      BY <1>2, <3>1 DEF Sufficient, Closed
    <3>3. QED
      BY <1>5, <3>1, <3>2
  <2>3. QED
    BY <2>1, <2>2 DEF Needed
<1>9. Verdict' /\ Answered'
  BY <1>1, SameDependencies DEF IInv, Verdict, Answered
<1>10. QED
  BY <1>6, <1>7, <1>8, <1>9 DEF IInv

LEMMA AnswerStep ==
  ASSUME IInv, Answer
  PROVE  IInv'
<1>1. /\ TypeOK /\ engine = "resolving" /\ engine' = "up" /\ calls = << >>
      /\ listing' = finished
      /\ UNCHANGED <<dependencies, next, calls, finished, enabled>>
      /\ next > Len(Registry) /\ next \in 1 .. Len(Registry) + 1
  BY DEF Answer, AtEnd, IInv, TypeOK
<1>2. TypeOK'
  BY <1>1 DEF TypeOK, Engines
<1>3. Visited' = Visited /\ Sufficient' = Sufficient
  BY <1>1, SameDependencies DEF Visited
<1>4. Path(dependencies, calls, Visited)' /\ Ordered(dependencies, finished)'
  BY <1>1, <1>3 DEF IInv
<1>5. Passed' /\ Needed'
  BY <1>1 DEF Passed, Needed
<1>6. Verdict'
  BY <1>1, SameDependencies DEF IInv, Verdict
<1>7. Visited \in Sufficient
  <2>1. Visited \in SUBSET Known
    BY <1>1, StateFacts
  <2>2. enabled \cap Known \subseteq Visited
    <3>1. \A i \in 1 .. Len(Registry) : Registry[i] \in enabled => Registry[i] \in Visited
      BY <1>1, StateFacts DEF IInv, Passed
    <3>2. DOMAIN Registry = 1 .. Len(Registry)
      BY PluginsAssumption, LenProperties
    <3>3. QED
      BY <3>1, <3>2 DEF Known, ToSet
  <2>3. ASSUME NEW plugin \in Visited, NEW d \in DependsOn(plugin) PROVE d \in Visited
    <3>1. DOMAIN finished = 1 .. Len(finished) /\ Len(finished) \in Nat
      BY <1>1, StateFacts, LenProperties
    <3>2. PICK i \in DOMAIN finished : finished[i] = plugin
      BY DEF Visited, ToSet
    <3>3. PICK j \in 1 .. i - 1 : finished[j] = d
      BY <3>2 DEF IInv, Ordered, DependsOn
    <3>4. j \in DOMAIN finished
      BY <3>1, <3>2, <3>3
    <3>5. QED
      BY <3>3, <3>4 DEF Visited, ToSet
  <2>4. QED
    BY <2>1, <2>2, <2>3 DEF Sufficient, Closed
<1>8. \A plugins \in Sufficient : Visited \subseteq plugins
  BY <1>1 DEF IInv, Needed
<1>9. Answered'
  BY <1>1, <1>3, <1>7, <1>8 DEF IInv, Answered, Visited
<1>10. QED
  BY <1>2, <1>4, <1>5, <1>6, <1>9 DEF IInv

LEMMA FinishStep ==
  ASSUME IInv, Finish
  PROVE  IInv'
<1>. DEFINE p == Last(calls).plugin
<1>1. /\ TypeOK /\ calls # << >> /\ ~AtDependency /\ calls' = Front(calls)
      /\ UNCHANGED <<dependencies, engine, next, enabled, listing>>
      /\ dependencies \in Dependencies /\ calls \in Calls
      /\ Path(dependencies, calls, Visited) /\ finished \in Seq(Known)
      /\ engine \in {"validating", "resolving"}
  BY StateFacts DEF Finish, IInv, TypeOK, Engines, Answered
<1>2. /\ ToSet(dependencies[p]) \subseteq Visited /\ p \in Known \ Visited
      /\ Front(calls) \in Calls /\ Path(dependencies, Front(calls), Visited \cup {p})
      /\ Front(calls) # << >> => Front(calls)[1] = calls[1]
      /\ Front(calls) = << >> => Last(calls) = calls[1]
  BY <1>1, EndLast DEF AtDependency
<1>3. finished' = Append(finished, p)
  BY <1>2 DEF Finish
<1>4. /\ finished' \in Seq(Known) /\ Ordered(dependencies, finished')
      /\ Visited' = Visited \cup {p}
  <2>1. Ordered(dependencies, finished) /\ p \in Known \ ToSet(finished)
        /\ ToSet(dependencies[p]) \subseteq ToSet(finished)
    BY <1>2 DEF IInv, Visited
  <2>2. QED
    BY <1>1, <1>3, <2>1, OrderedAppend DEF Visited
<1>5. TypeOK'
  BY <1>1, <1>2, <1>4 DEF TypeOK
<1>6. Path(dependencies, calls, Visited)' /\ Ordered(dependencies, finished)'
  BY <1>1, <1>2, <1>4
<1>7. Passed'
  <2>1. ASSUME NEW i \in 1 .. next - 1, engine = "validating" \/ Registry[i] \in enabled
        PROVE  \/ Registry[i] \in Visited'
               \/ calls' # << >> /\ calls'[1].plugin = Registry[i]
    <3>1. Registry[i] \in Visited \/ calls[1].plugin = Registry[i]
      BY <1>1, <2>1 DEF IInv, Passed
    <3>2. QED
      BY <1>1, <1>2, <1>4, <3>1
  <2>2. QED
    BY <1>1, <2>1 DEF Passed
<1>8. Needed'
  <2>1. Visited' \cup Visiting' \subseteq Visited \cup Visiting
    <3>1. p \in Visiting
      BY <1>1, StateFacts, CallsFacts
    <3>2. Visiting' = {calls'[i].plugin : i \in 1 .. Len(calls')}
      BY <1>1, <1>2, CallsFacts DEF Visiting
    <3>3. \A i \in 1 .. Len(calls') : calls'[i].plugin \in Visiting
      <4>1. /\ Len(calls) \in Nat /\ Len(calls) >= 1 /\ Len(calls') = Len(calls) - 1
            /\ \A i \in 1 .. Len(calls) - 1 : calls'[i] = calls[i]
        BY <1>1, CallsFacts, EndLast DEF AtDependency
      <4>2. QED
        BY <1>1, <4>1, StateFacts
    <3>4. QED
      BY <1>4, <3>1, <3>2, <3>3
  <2>2. Sufficient' = Sufficient
    BY <1>1, SameDependencies
  <2>3. QED
    BY <1>1, <2>1, <2>2 DEF IInv, Needed
<1>9. Verdict' /\ Answered'
  BY <1>1, SameDependencies DEF IInv, Verdict, Answered
<1>10. QED
  BY <1>5, <1>6, <1>7, <1>8, <1>9 DEF IInv

LEMMA NothingMoves ==
  ASSUME IInv, UNCHANGED vars
  PROVE  IInv'
<1>1. UNCHANGED <<dependencies, engine, next, calls, finished, enabled, listing>>
  BY DEF vars
<1>2. /\ Visited' = Visited /\ Visiting' = Visiting /\ Sufficient' = Sufficient
      /\ (Defined' <=> Defined) /\ (NoCircle' <=> NoCircle)
  BY <1>1, SameDependencies DEF Visited, Visiting
<1>3. TypeOK'
  BY <1>1 DEF IInv, TypeOK
<1>4. Passed' /\ Needed' /\ Verdict' /\ Answered'
  BY <1>1, <1>2 DEF IInv, Passed, Needed, Verdict, Answered
<1>5. QED
  BY <1>1, <1>2, <1>3, <1>4 DEF IInv

-----------------------------------------------------------------------------
(* The theorems *)

LEMMA IInvInit == Init => IInv
<1>1. SUFFICES ASSUME Init PROVE IInv
  OBVIOUS
<1>2. /\ dependencies \in [Known -> BoundedSeq(Ids, MaxDependencies)]
      /\ engine = "validating" /\ next = 1 /\ calls = << >> /\ finished = << >>
      /\ enabled = {} /\ listing = << >>
  BY <1>1 DEF Init
<1>3. BoundedSeq(Ids, MaxDependencies) \subseteq Seq(Ids)
  <2>1. \A m \in 0 .. MaxDependencies : m \in Nat
    BY PluginsAssumption
  <2>2. QED
    BY <2>1, SeqDef DEF BoundedSeq, SeqOf
<1>4. TypeOK
  <2>1. Len(Registry) \in Nat
    BY PluginsAssumption, LenProperties
  <2>2. << >> \in Calls /\ << >> \in Seq(Known)
    BY EmptySeq DEF Calls
  <2>3. dependencies \in [Known -> Seq(Ids)]
    BY <1>2, <1>3
  <2>4. QED
    BY <1>2, <2>1, <2>2, <2>3 DEF TypeOK, Engines
<1>5. Path(dependencies, calls, Visited)
  BY <1>2, NothingCalled
<1>6. Ordered(dependencies, finished)
  BY <1>2, EmptySeq DEF Ordered
<1>7. Passed /\ Needed /\ Verdict /\ Answered
  BY <1>2 DEF Passed, Needed, Verdict, Answered
<1>8. QED
  BY <1>4, <1>5, <1>6, <1>7 DEF IInv

\* The invariant: every search follows a path, in the order it has to.
THEOREM Invariance == Spec => []IInv
<1>1. IInv /\ [Next]_vars => IInv'
  BY ValidateRegistryStep, ValidateDependencyStep, StartEngineStep, ListForTenantStep,
     ResolvePluginsStep, ResolveDependencyStep, AnswerStep, FinishStep, NothingMoves
  DEF Next
<1>2. QED
  BY <1>1, IInvInit, PTL DEF Spec

\* Any registry is refused at start-up exactly when a dependency is missing or
\* plugins depend on each other in a circle (plugin-registry.service.ts,
\* validateRegistry).
THEOREM RefusalsAreExact == Spec => []RefusedExactly
<1>1. IInv => RefusedExactly
  BY DEF IInv, TypeOK, Engines, Verdict, RefusedExactly
<1>2. QED
  BY <1>1, Invariance, PTL

\* With any registry and any enabled plugins, a tenant is listed what it enabled
\* and all that needs, nothing else, in an order that can be loaded, and no search
\* runs into itself (plugin-registry.service.ts, resolvePlugins).
THEOREM ListingsAreExact == Spec => []ListingExact
<1>1. ASSUME IInv PROVE ListingExact
  <2>1. \A i, j \in DOMAIN calls : calls[i].plugin = calls[j].plugin => i = j
    <3>1. DOMAIN calls = 1 .. Len(calls)
      BY <1>1, StateFacts, CallsFacts DEF IInv
    <3>2. QED
      BY <1>1, <3>1 DEF IInv, Path, Once
  <2>2. ASSUME engine = "up"
        PROVE  /\ ToSet(listing) \in Sufficient
               /\ \A plugins \in Sufficient : ToSet(listing) \subseteq plugins
               /\ \A i \in DOMAIN listing :
                    DependsOn(listing[i]) \subseteq {listing[j] : j \in 1 .. i - 1} \ {listing[i]}
               /\ IsInjective(listing)
    <3>1. /\ Ordered(dependencies, listing) /\ ToSet(listing) \in Sufficient
          /\ \A plugins \in Sufficient : ToSet(listing) \subseteq plugins
      BY <1>1, <2>2 DEF IInv, Answered
    <3>2. DOMAIN listing = 1 .. Len(listing) /\ Len(listing) \in Nat
      BY <1>1, LenProperties DEF IInv, TypeOK
    <3>3. ASSUME NEW i \in DOMAIN listing, NEW d \in DependsOn(listing[i])
          PROVE  d \in {listing[j] : j \in 1 .. i - 1} \ {listing[i]}
      <4>1. PICK j \in 1 .. i - 1 : listing[j] = d
        BY <3>1 DEF Ordered, DependsOn
      <4>2. j \in DOMAIN listing /\ j # i
        BY <3>2, <4>1
      <4>3. d # listing[i]
        BY <3>1, <4>1, <4>2 DEF Ordered
      <4>4. QED
        BY <4>1, <4>3
    <3>4. IsInjective(listing)
      BY <3>1 DEF IsInjective, Ordered
    <3>5. QED
      BY <3>1, <3>3, <3>4
  <2>3. QED
    BY <2>1, <2>2 DEF ListingExact
<1>2. QED
  BY <1>1, Invariance, PTL
=============================================================================
