------------------------- MODULE MemoryPoolsProofs -------------------------
(***************************************************************************)
(* Safety of the free lists, pools and caches of MemoryPools for any       *)
(* number of threads and blocks, any chunk sizes and requests.             *)
(***************************************************************************)
EXTENDS MemoryPools, FiniteSetTheorems, SequenceTheorems, TLAPS

Links == (1..MaxBlocks) \cup {Null}

Allocs == {"alloc", "fill", "refill"}

Pcs == {"idle", "pop_load", "pop_next", "pop_cas", "push_link", "push_cas", "expand", "lock",
        "flag", "check", "unflag", "get"}

Ops == Allocs \cup {"none", "free", "grow"}

Tries == 0..4

Rec == [pc : Pcs, op : Ops, try : Tries, cls : Classes, size : Nat, h : Links, n : Links,
        todo : Seq(Nat)]

Types ==
  /\ design \in {"fixed", "slab", "bridge"}
  /\ head \in [Classes -> Links]
  /\ next \in [1..MaxBlocks -> Links]
  /\ class \in Seq(Classes) /\ Len(class) <= MaxBlocks
  /\ chunks \in Nat
  /\ r \in [Threads -> Rec]
  /\ held \in [Threads -> SUBSET (Nat \X Asked)]
  /\ cache \in [Threads -> Seq(Nat)]
  /\ stack \in [Classes -> Seq(Nat)]
  /\ stolen \in [Threads -> Nat]

Distinct(s) == \A i, j \in 1..Len(s) : s[i] = s[j] => i = j

\* Where a block can be, and which blocks are there.
Where == ({"free"} \X Classes) \cup ({"held", "cache", "todo"} \X Threads)
         \cup {<<"dropped", 0>>}

At(w) == CASE w[1] = "free"  -> Elements(stack[w[2]])
           [] w[1] = "held"  -> {p[1] : p \in held[w[2]]}
           [] w[1] = "cache" -> Elements(cache[w[2]])
           [] w[1] = "todo"  -> Elements(r[w[2]].todo)
           [] OTHER          -> dropped

Home(b, w) == \A x \in Where : b \in At(x) <=> x = w

\* Every block is in one place, and only blocks are anywhere.
Homes ==
  /\ \A b \in Blocks : \E w \in Where : Home(b, w)
  /\ \A w \in Where : At(w) \subseteq Blocks

\* It is there once.
Once ==
  /\ \A c \in Classes : Distinct(stack[c])
  /\ \A t \in Threads : /\ Distinct(cache[t]) /\ Distinct(r[t].todo)
                        /\ \A p, q \in held[t] : p[1] = q[1] => p = q

\* The blocks of a place are of the size class that the place is for.
ClassKept ==
  /\ \A c \in Classes : \A b \in Elements(stack[c]) : class[b] = c
  /\ \A t \in Threads :
       /\ \A p \in held[t] : class[p[1]] = IndexFor(p[2])
       /\ \A b \in Elements(cache[t]) : class[b] = 1
       /\ \A b \in Elements(r[t].todo) : class[b] = r[t].cls
       /\ tls[t] = "live" => design # "slab"

\* What the steps of a call imply about its other fields.
Shape(q) ==
  /\ q.pc \in {"push_link", "push_cas"} <=> q.todo # <<>>
  /\ q.pc \in {"pop_load", "pop_next", "pop_cas", "expand", "flag", "unflag"} => q.op \in Allocs
  /\ q.pc \in {"check", "lock"} => q.op \in Allocs \cup {"grow"}
  /\ q.todo # <<>> => q.op = "free" \/ (q.op # "none" /\ q.try = 3)
  /\ q.op = "alloc" => q.size \in Asked /\ q.cls = IndexFor(q.size)
  /\ q.op \in {"fill", "refill", "grow"} => q.cls = 1
  /\ q.pc = "get" \/ q.op \in {"fill", "refill"} => design # "slab"
  /\ q.pc = "expand" => design # "bridge"
  /\ q.pc \in {"flag", "check", "unflag"} \/ q.op = "grow" => design = "bridge"
  /\ q.try = 2 => design # "bridge"
  /\ q.try = 4 => design = "bridge"
  /\ q.pc = "unflag" => q.try = 3 \/ (design = "bridge" /\ AtLimit)

\* A head that was read and not popped since is still in the list, with the
\* link that was read; a block about to be pushed is linked to the head read.
Reads(t) ==
  LET q == r[t] IN
  /\ q.pc = "push_cas" => next[q.todo[1]] = q.h
  /\ q.pc \in {"pop_next", "pop_cas"} =>
       /\ q.h # Null
       /\ t \notin stale => /\ q.h \in Elements(stack[q.cls])
                            /\ q.pc = "pop_cas" => q.n = next[q.h]

\* The links spell the lists.
Linked(c) ==
  /\ head[c] = IF stack[c] = <<>> THEN Null ELSE stack[c][1]
  /\ \A i \in 1..Len(stack[c]) :
       next[stack[c][i]] = IF i = Len(stack[c]) THEN Null ELSE stack[c][i + 1]

\* Of the chunk a thread pushed for itself, what is not left was popped by others.
Counted(t) ==
  r[t].try = 3 => \/ design = "bridge" /\ AtLimit
                  \/ Len(stack[r[t].cls]) + Len(r[t].todo) + stolen[t] >= NextChunk

Core ==
  /\ Types
  /\ Homes
  /\ Once
  /\ ClassKept
  /\ \A t \in Threads : Shape(r[t]) /\ Reads(t) /\ Counted(t)
  /\ \A c \in Classes : Linked(c)

\* The inductive invariant.
PoolsInv ==
  /\ FitsRequest
  /\ ChunkLimit
  /\ fate \in {"runs", "terminated"} => Core
  /\ fate # "recycled" => \A c \in Classes : Linked(c)

\* is_expanding_ is raised by the one thread that expands, or was left behind.
FlagHeld ==
  /\ flag => design = "bridge" /\ (left \/ \E u \in Threads : Expanding(u))
  /\ left => flag
  /\ design = "bridge" => \A u \in Threads : Expanding(u) =>
       flag /\ ~left /\ \A v \in Threads : Expanding(v) => v = u

-----------------------------------------------------------------------------
(* Size classes and sequences *)

LEMMA SizesAre ==
  /\ Len(kSizes) = 8 /\ Classes = 1..8
  /\ kSizes[1] = 16 /\ kSizes[2] = 32 /\ kSizes[3] = 64 /\ kSizes[4] = 128 /\ kSizes[5] = 256
  /\ kSizes[6] = 512 /\ kSizes[7] = 1024 /\ kSizes[8] = 4096
BY DEF kSizes, Classes

Servable == 0..4096

\* The size class found for a request is large enough for it.
LEMMA IndexForFits ==
  ASSUME NEW s \in Servable
  PROVE  IndexFor(s) \in Classes /\ s <= kSizes[IndexFor(s)]
<1> DEFINE First(i) == s <= kSizes[i] /\ \A j \in 1..(i - 1) : s > kSizes[j]
<1>1. \E i \in Classes : First(i)
  <2> USE DEF Servable
  <2>1. CASE s <= 16
    BY <2>1, SizesAre
  <2>2. CASE s > 16 /\ s <= 32
    <3>1. First(2)
      BY <2>2, SizesAre
    <3>2. QED
      BY <3>1, SizesAre
  <2>3. CASE s > 32 /\ s <= 64
    <3>1. First(3)
      BY <2>3, SizesAre
    <3>2. QED
      BY <3>1, SizesAre
  <2>4. CASE s > 64 /\ s <= 128
    <3>1. First(4)
      BY <2>4, SizesAre
    <3>2. QED
      BY <3>1, SizesAre
  <2>5. CASE s > 128 /\ s <= 256
    <3>1. First(5)
      BY <2>5, SizesAre
    <3>2. QED
      BY <3>1, SizesAre
  <2>6. CASE s > 256 /\ s <= 512
    <3>1. First(6)
      BY <2>6, SizesAre
    <3>2. QED
      BY <3>1, SizesAre
  <2>7. CASE s > 512 /\ s <= 1024
    <3>1. First(7)
      BY <2>7, SizesAre
    <3>2. QED
      BY <3>1, SizesAre
  <2>8. CASE s > 1024
    <3>1. First(8)
      BY <2>8, SizesAre
    <3>2. QED
      BY <3>1, SizesAre
  <2>9. QED
    BY <2>1, <2>2, <2>3, <2>4, <2>5, <2>6, <2>7, <2>8
<1>2. IndexFor(s) \in Classes /\ First(IndexFor(s))
  BY <1>1 DEF IndexFor
<1>3. QED
  BY <1>2

\* The pools without size classes use the first one.
LEMMA IndexForFirst == IndexFor(16) = 1
<1>1. \A i \in Classes : (16 <= kSizes[i] /\ \A j \in 1..(i - 1) : 16 > kSizes[j]) <=> i = 1
  BY SizesAre
<1>2. QED
  BY <1>1, SizesAre DEF IndexFor

LEMMA AskedFits ==
  ASSUME NEW s \in Asked
  PROVE  s \in Nat /\ IndexFor(s) \in Classes /\ s <= kSizes[IndexFor(s)]
<1>1. s \in Servable
  BY SizesAre, PoolsAssumption DEF Asked, Servable
<1>2. s \in Nat
  BY <1>1 DEF Servable
<1>3. QED
  BY <1>1, <1>2, IndexForFits

\* What it is to be an element.
LEMMA ElementsAre ==
  ASSUME NEW s
  PROVE  /\ \A i \in 1..Len(s) : s[i] \in Elements(s)
         /\ \A x \in Elements(s) : \E i \in 1..Len(s) : x = s[i]
BY DEF Elements

\* Two ways to show that a set holds the elements of a sequence.
LEMMA ElementsWithin ==
  ASSUME NEW s, NEW S, \A i \in 1..Len(s) : s[i] \in S
  PROVE  Elements(s) \subseteq S
BY DEF Elements

LEMMA ElementsTail ==
  ASSUME NEW s \in Seq(Nat), s # <<>>, Distinct(s)
  PROVE  /\ Tail(s) \in Seq(Nat) /\ Len(Tail(s)) = Len(s) - 1 /\ Distinct(Tail(s))
         /\ s[1] \in Elements(s) /\ s[1] \in Nat /\ s[1] \notin Elements(Tail(s))
         /\ Elements(Tail(s)) = Elements(s) \ {s[1]}
<1>1. /\ Tail(s) \in Seq(Nat) /\ Len(Tail(s)) = Len(s) - 1 /\ Len(s) \in Nat /\ Len(s) > 0
      /\ \A i \in 1..(Len(s) - 1) : Tail(s)[i] = s[i + 1]
  OBVIOUS
<1>2. Distinct(Tail(s))
  BY <1>1 DEF Distinct
<1>3. s[1] \in Elements(s) /\ s[1] \in Nat /\ s[1] \notin Elements(Tail(s))
  BY <1>1 DEF Distinct, Elements
<1>4. Elements(Tail(s)) \subseteq Elements(s)
  BY <1>1 DEF Elements
<1>5. ASSUME NEW x \in Elements(s), x # s[1]
      PROVE  x \in Elements(Tail(s))
  <2>1. PICK i \in 1..Len(s) : x = s[i]
    BY DEF Elements
  <2>2. i - 1 \in 1..Len(Tail(s)) /\ Tail(s)[i - 1] = x
    BY <1>1, <1>5, <2>1
  <2>3. QED
    BY <2>2 DEF Elements
<1>6. QED
  BY <1>1, <1>2, <1>3, <1>4, <1>5

LEMMA ElementsPush ==
  ASSUME NEW s \in Seq(Nat), NEW b \in Nat, b \notin Elements(s), Distinct(s)
  PROVE  /\ <<b>> \o s \in Seq(Nat) /\ Len(<<b>> \o s) = Len(s) + 1 /\ Distinct(<<b>> \o s)
         /\ (<<b>> \o s)[1] = b /\ \A i \in 1..Len(s) : (<<b>> \o s)[i + 1] = s[i]
         /\ Elements(<<b>> \o s) = Elements(s) \cup {b}
<1> DEFINE z == <<b>> \o s
<1>1. /\ z \in Seq(Nat) /\ Len(z) = Len(s) + 1 /\ Len(s) \in Nat /\ z[1] = b
      /\ \A i \in 2..Len(z) : z[i] = s[i - 1]
  OBVIOUS
<1> HIDE DEF z
<1>2. \A i \in 1..Len(s) : z[i + 1] = s[i]
  BY <1>1
<1>3. Elements(z) = Elements(s) \cup {b}
  <2>1. ASSUME NEW i \in 1..Len(z)
        PROVE  z[i] \in Elements(s) \cup {b}
    <3>1. i = 1 \/ (i \in 2..Len(z) /\ i - 1 \in 1..Len(s))
      BY <1>1
    <3>2. QED
      BY <1>1, <3>1, ElementsAre
  <2>2. ASSUME NEW i \in 1..Len(s)
        PROVE  s[i] \in Elements(z)
    <3>1. i + 1 \in 1..Len(z) /\ z[i + 1] = s[i]
      BY <1>1, <1>2
    <3>2. QED
      BY <3>1, ElementsAre
  <2>3. b \in Elements(z)
    <3>1. 1 \in 1..Len(z)
      BY <1>1
    <3>2. QED
      BY <1>1, <3>1, ElementsAre
  <2>4. Elements(z) \subseteq Elements(s) \cup {b}
    BY <2>1, ElementsWithin
  <2>5. Elements(s) \subseteq Elements(z)
    BY <2>2, ElementsWithin
  <2>6. QED
    BY <2>3, <2>4, <2>5
<1>4. Distinct(z)
  <2>1. SUFFICES ASSUME NEW i \in 1..Len(z), NEW j \in 1..Len(z), z[i] = z[j]
                 PROVE  i = j
    BY DEF Distinct
  <2>2. \A k \in 1..Len(z) : k # 1 => k - 1 \in 1..Len(s) /\ z[k] = s[k - 1] /\ z[k] # b
    <3>1. SUFFICES ASSUME NEW k \in 1..Len(z), k # 1
                   PROVE  k - 1 \in 1..Len(s) /\ z[k] = s[k - 1] /\ z[k] # b
      OBVIOUS
    <3>2. k - 1 \in 1..Len(s) /\ z[k] = s[k - 1]
      BY <1>1, <3>1
    <3>3. QED
      BY <3>2, ElementsAre
  <2>3. i # 1 /\ j # 1 => i - 1 = j - 1
    BY <2>1, <2>2 DEF Distinct
  <2>4. QED
    BY <1>1, <2>1, <2>2, <2>3
<1>5. QED
  BY <1>1, <1>2, <1>3, <1>4 DEF z

LEMMA ElementsAppend ==
  ASSUME NEW s \in Seq(Nat), NEW b \in Nat, b \notin Elements(s), Distinct(s)
  PROVE  /\ Append(s, b) \in Seq(Nat) /\ Len(Append(s, b)) = Len(s) + 1
         /\ Distinct(Append(s, b)) /\ Elements(Append(s, b)) = Elements(s) \cup {b}
<1> DEFINE z == Append(s, b)
<1>1. /\ z \in Seq(Nat) /\ Len(z) = Len(s) + 1 /\ Len(s) \in Nat /\ z[Len(s) + 1] = b
      /\ \A i \in 1..Len(s) : z[i] = s[i]
  OBVIOUS
<1> HIDE DEF z
<1>2. Elements(z) = Elements(s) \cup {b}
  <2>1. ASSUME NEW i \in 1..Len(z)
        PROVE  z[i] \in Elements(s) \cup {b}
    <3>1. i = Len(s) + 1 \/ i \in 1..Len(s)
      BY <1>1
    <3>2. QED
      BY <1>1, <3>1, ElementsAre
  <2>2. \A i \in 1..Len(s) : s[i] \in Elements(z)
    BY <1>1, ElementsAre
  <2>3. b \in Elements(z)
    BY <1>1, ElementsAre
  <2>4. Elements(z) \subseteq Elements(s) \cup {b}
    BY <2>1, ElementsWithin
  <2>5. Elements(s) \subseteq Elements(z)
    BY <2>2, ElementsWithin
  <2>6. QED
    BY <2>3, <2>4, <2>5
<1>3. Distinct(z)
  <2>1. \A i \in 1..Len(s) : z[i] # b
    BY <1>1, ElementsAre
  <2>2. QED
    BY <1>1, <2>1 DEF Distinct
<1>4. QED
  BY <1>1, <1>2, <1>3 DEF z

LEMMA ElementsFront ==
  ASSUME NEW s \in Seq(Nat), s # <<>>, Distinct(s)
  PROVE  /\ SubSeq(s, 1, Len(s) - 1) \in Seq(Nat) /\ Distinct(SubSeq(s, 1, Len(s) - 1))
         /\ s[Len(s)] \in Elements(s) /\ s[Len(s)] \in Nat
         /\ Elements(SubSeq(s, 1, Len(s) - 1)) = Elements(s) \ {s[Len(s)]}
<1> DEFINE z == SubSeq(s, 1, Len(s) - 1)
<1>1. /\ z \in Seq(Nat) /\ Len(z) = Len(s) - 1 /\ Len(s) \in Nat /\ Len(s) > 0
      /\ \A i \in 1..(Len(s) - 1) : z[i] = s[i]
  <2>0. Len(s) \in Nat /\ Len(s) > 0
    OBVIOUS
  <2>1. \A i \in 1..(Len(s) - 1) : s[i] \in Nat
    OBVIOUS
  <2>2. /\ z \in Seq(Nat) /\ Len(z) = IF 1 <= Len(s) - 1 THEN Len(s) - 1 - 1 + 1 ELSE 0
        /\ \A i \in 1..(Len(s) - 1 - 1 + 1) : z[i] = s[1 + i - 1]
    <3>1. Len(s) - 1 \in Int
      BY <2>0
    <3>2. QED
      BY <2>1, <3>1, SubSeqProperties
  <2> HIDE DEF z
  <2>3. Len(z) = Len(s) - 1
    <3>1. CASE Len(s) = 1
      <4>1. Len(z) = 0
        BY <2>2, <3>1
      <4>2. QED
        BY <3>1, <4>1
    <3>2. CASE Len(s) # 1
      <4>1. \A n \in Nat : n > 0 /\ n # 1 => 1 <= n - 1 /\ n - 1 - 1 + 1 = n - 1
        OBVIOUS
      <4>2. 1 <= Len(s) - 1 /\ Len(s) - 1 - 1 + 1 = Len(s) - 1
        BY <2>0, <3>2, <4>1, Zenon
      <4>3. QED
        BY <2>2, <4>2
    <3>3. QED
      BY <3>1, <3>2
  <2>4. ASSUME NEW i \in 1..(Len(s) - 1)
        PROVE  z[i] = s[i]
    <3>1. 1 + i - 1 = i /\ i \in 1..(Len(s) - 1 - 1 + 1)
      BY <2>0
    <3>2. QED
      BY <2>2, <3>1
  <2>5. QED
    BY <2>0, <2>2, <2>3, <2>4
<1> HIDE DEF z
<1>2. s[Len(s)] \in Elements(s) /\ s[Len(s)] \in Nat
  BY <1>1 DEF Elements
<1>3. Distinct(z)
  <2>1. \A i \in 1..Len(z) : i \in 1..Len(s) /\ z[i] = s[i]
    BY <1>1
  <2>2. QED
    BY <2>1 DEF Distinct
<1>4. Elements(z) = Elements(s) \ {s[Len(s)]}
  <2>1. ASSUME NEW i \in 1..Len(z)
        PROVE  z[i] \in Elements(s) \ {s[Len(s)]}
    <3>1. i \in 1..Len(s) /\ z[i] = s[i] /\ i # Len(s) /\ Len(s) \in 1..Len(s)
      BY <1>1
    <3>2. s[i] # s[Len(s)]
      BY <3>1 DEF Distinct
    <3>3. QED
      BY <3>1, <3>2, ElementsAre
  <2>2. ASSUME NEW i \in 1..Len(s)
        PROVE  s[i] \in Elements(z) \cup {s[Len(s)]}
    <3>1. i = Len(s) \/ (i \in 1..Len(z) /\ z[i] = s[i])
      BY <1>1
    <3>2. QED
      BY <3>1, ElementsAre
  <2>3. Elements(z) \subseteq Elements(s) \ {s[Len(s)]}
    BY <2>1, ElementsWithin
  <2>4. Elements(s) \subseteq Elements(z) \cup {s[Len(s)]}
    BY <2>2, ElementsWithin
  <2>5. QED
    BY <2>3, <2>4
<1>5. QED
  BY <1>1, <1>2, <1>3, <1>4 DEF z

LEMMA ElementsEmpty ==
  /\ <<>> \in Seq(Nat) /\ Elements(<<>>) = {} /\ Distinct(<<>>)
  /\ \A s \in Seq(Nat) : Elements(s) = {} <=> s = <<>>
<1>1. Elements(<<>>) = {} /\ Distinct(<<>>)
  BY DEF Elements, Distinct
<1>2. ASSUME NEW s \in Seq(Nat), s # <<>>
      PROVE  Elements(s) # {}
  <2>1. 1 \in 1..Len(s)
    BY <1>2
  <2>2. QED
    BY <2>1, ElementsAre
<1>3. QED
  BY <1>1, <1>2

-----------------------------------------------------------------------------
(* Updates of a thread's record, by the fields that the program writes together *)

SetPc(i, a) == [i EXCEPT !.pc = a]

LEMMA SetPcIs ==
  ASSUME NEW i \in Rec, NEW a \in Pcs
  PROVE  LET q == SetPc(i, a) IN
         /\ q \in Rec /\ q.pc = a /\ q.op = i.op /\ q.try = i.try /\ q.cls = i.cls
         /\ q.size = i.size /\ q.h = i.h /\ q.n = i.n /\ q.todo = i.todo
<1>1. PICK e1 \in Rec : e1 = [i EXCEPT !.pc = a]
  BY DEF Rec
<1>2. SetPc(i, a) = e1
  BY <1>1 DEF SetPc
<1>3. QED
  BY <1>1, <1>2 DEF Rec

SetTry(i, a, k) == [i EXCEPT !.pc = a, !.try = k]

LEMMA SetTryIs ==
  ASSUME NEW i \in Rec, NEW a \in Pcs, NEW k \in Tries
  PROVE  LET q == SetTry(i, a, k) IN
         /\ q \in Rec /\ q.pc = a /\ q.try = k /\ q.op = i.op /\ q.cls = i.cls /\ q.size = i.size
         /\ q.h = i.h /\ q.n = i.n /\ q.todo = i.todo
<1>1. PICK e1 \in Rec : e1 = [i EXCEPT !.pc = a]
  BY DEF Rec
<1>2. PICK e2 \in Rec : e2 = [e1 EXCEPT !.try = k]
  BY DEF Rec
<1>3. SetTry(i, a, k) = e2
  BY <1>1, <1>2 DEF SetTry
<1>4. QED
  BY <1>1, <1>2, <1>3 DEF Rec

SetLink(i, a, m) == [i EXCEPT !.pc = a, !.n = m]

LEMMA SetLinkIs ==
  ASSUME NEW i \in Rec, NEW a \in Pcs, NEW m \in Links
  PROVE  LET q == SetLink(i, a, m) IN
         /\ q \in Rec /\ q.pc = a /\ q.n = m /\ q.op = i.op /\ q.try = i.try /\ q.cls = i.cls
         /\ q.size = i.size /\ q.h = i.h /\ q.todo = i.todo
<1>1. PICK e1 \in Rec : e1 = [i EXCEPT !.pc = a]
  BY DEF Rec
<1>2. PICK e2 \in Rec : e2 = [e1 EXCEPT !.n = m]
  BY DEF Rec
<1>3. SetLink(i, a, m) = e2
  BY <1>1, <1>2 DEF SetLink
<1>4. QED
  BY <1>1, <1>2, <1>3 DEF Rec

SetHead(i, a, b) == [i EXCEPT !.pc = a, !.h = b]

LEMMA SetHeadIs ==
  ASSUME NEW i \in Rec, NEW a \in Pcs, NEW b \in Links
  PROVE  LET q == SetHead(i, a, b) IN
         /\ q \in Rec /\ q.pc = a /\ q.h = b /\ q.op = i.op /\ q.try = i.try /\ q.cls = i.cls
         /\ q.size = i.size /\ q.n = i.n /\ q.todo = i.todo
<1>1. PICK e1 \in Rec : e1 = [i EXCEPT !.pc = a]
  BY DEF Rec
<1>2. PICK e2 \in Rec : e2 = [e1 EXCEPT !.h = b]
  BY DEF Rec
<1>3. SetHead(i, a, b) = e2
  BY <1>1, <1>2 DEF SetHead
<1>4. QED
  BY <1>1, <1>2, <1>3 DEF Rec

SetRead(i, a, b, m) == [i EXCEPT !.pc = a, !.h = b, !.n = m]

LEMMA SetReadIs ==
  ASSUME NEW i \in Rec, NEW a \in Pcs, NEW b \in Links, NEW m \in Links
  PROVE  LET q == SetRead(i, a, b, m) IN
         /\ q \in Rec /\ q.pc = a /\ q.h = b /\ q.n = m /\ q.op = i.op /\ q.try = i.try
         /\ q.cls = i.cls /\ q.size = i.size /\ q.todo = i.todo
<1>1. PICK e1 \in Rec : e1 = [i EXCEPT !.pc = a]
  BY DEF Rec
<1>2. PICK e2 \in Rec : e2 = [e1 EXCEPT !.h = b]
  BY DEF Rec
<1>3. PICK e3 \in Rec : e3 = [e2 EXCEPT !.n = m]
  BY DEF Rec
<1>4. SetRead(i, a, b, m) = e3
  BY <1>1, <1>2, <1>3 DEF SetRead
<1>5. QED
  BY <1>1, <1>2, <1>3, <1>4 DEF Rec

SetAgain(i, a, k, b, m) == [i EXCEPT !.pc = a, !.try = k, !.h = b, !.n = m]

LEMMA SetAgainIs ==
  ASSUME NEW i \in Rec, NEW a \in Pcs, NEW k \in Tries, NEW b \in Links, NEW m \in Links
  PROVE  LET q == SetAgain(i, a, k, b, m) IN
         /\ q \in Rec /\ q.pc = a /\ q.try = k /\ q.h = b /\ q.n = m /\ q.op = i.op
         /\ q.cls = i.cls /\ q.size = i.size /\ q.todo = i.todo
<1>1. PICK e1 \in Rec : e1 = [i EXCEPT !.pc = a]
  BY DEF Rec
<1>2. PICK e2 \in Rec : e2 = [e1 EXCEPT !.try = k]
  BY DEF Rec
<1>3. PICK e3 \in Rec : e3 = [e2 EXCEPT !.h = b]
  BY DEF Rec
<1>4. PICK e4 \in Rec : e4 = [e3 EXCEPT !.n = m]
  BY DEF Rec
<1>5. SetAgain(i, a, k, b, m) = e4
  BY <1>1, <1>2, <1>3, <1>4 DEF SetAgain
<1>6. QED
  BY <1>1, <1>2, <1>3, <1>4, <1>5 DEF Rec

SetTodo(i, a, b, z) == [i EXCEPT !.pc = a, !.h = b, !.todo = z]

LEMMA SetTodoIs ==
  ASSUME NEW i \in Rec, NEW a \in Pcs, NEW b \in Links, NEW z \in Seq(Nat)
  PROVE  LET q == SetTodo(i, a, b, z) IN
         /\ q \in Rec /\ q.pc = a /\ q.h = b /\ q.todo = z /\ q.op = i.op /\ q.try = i.try
         /\ q.cls = i.cls /\ q.size = i.size /\ q.n = i.n
<1>1. PICK e1 \in Rec : e1 = [i EXCEPT !.pc = a]
  BY DEF Rec
<1>2. PICK e2 \in Rec : e2 = [e1 EXCEPT !.h = b]
  BY DEF Rec
<1>3. PICK e3 \in Rec : e3 = [e2 EXCEPT !.todo = z]
  BY DEF Rec
<1>4. SetTodo(i, a, b, z) = e3
  BY <1>1, <1>2, <1>3 DEF SetTodo
<1>5. QED
  BY <1>1, <1>2, <1>3, <1>4 DEF Rec

SetTryTodo(i, a, k, b, z) == [i EXCEPT !.pc = a, !.try = k, !.h = b, !.todo = z]

LEMMA SetTryTodoIs ==
  ASSUME NEW i \in Rec, NEW a \in Pcs, NEW k \in Tries, NEW b \in Links, NEW z \in Seq(Nat)
  PROVE  LET q == SetTryTodo(i, a, k, b, z) IN
         /\ q \in Rec /\ q.pc = a /\ q.try = k /\ q.h = b /\ q.todo = z /\ q.op = i.op
         /\ q.cls = i.cls /\ q.size = i.size /\ q.n = i.n
<1>1. PICK e1 \in Rec : e1 = [i EXCEPT !.pc = a]
  BY DEF Rec
<1>2. PICK e2 \in Rec : e2 = [e1 EXCEPT !.try = k]
  BY DEF Rec
<1>3. PICK e3 \in Rec : e3 = [e2 EXCEPT !.h = b]
  BY DEF Rec
<1>4. PICK e4 \in Rec : e4 = [e3 EXCEPT !.todo = z]
  BY DEF Rec
<1>5. SetTryTodo(i, a, k, b, z) = e4
  BY <1>1, <1>2, <1>3, <1>4 DEF SetTryTodo
<1>6. QED
  BY <1>1, <1>2, <1>3, <1>4, <1>5 DEF Rec

SetCall(i, a, o) == [i EXCEPT !.pc = a, !.op = o]

LEMMA SetCallIs ==
  ASSUME NEW i \in Rec, NEW a \in Pcs, NEW o \in Ops
  PROVE  LET q == SetCall(i, a, o) IN
         /\ q \in Rec /\ q.pc = a /\ q.op = o /\ q.try = i.try /\ q.cls = i.cls /\ q.size = i.size
         /\ q.h = i.h /\ q.n = i.n /\ q.todo = i.todo
<1>1. PICK e1 \in Rec : e1 = [i EXCEPT !.pc = a]
  BY DEF Rec
<1>2. PICK e2 \in Rec : e2 = [e1 EXCEPT !.op = o]
  BY DEF Rec
<1>3. SetCall(i, a, o) = e2
  BY <1>1, <1>2 DEF SetCall
<1>4. QED
  BY <1>1, <1>2, <1>3 DEF Rec

SetRefill(i, a, o, k) == [i EXCEPT !.pc = a, !.op = o, !.try = k]

LEMMA SetRefillIs ==
  ASSUME NEW i \in Rec, NEW a \in Pcs, NEW o \in Ops, NEW k \in Tries
  PROVE  LET q == SetRefill(i, a, o, k) IN
         /\ q \in Rec /\ q.pc = a /\ q.op = o /\ q.try = k /\ q.cls = i.cls /\ q.size = i.size
         /\ q.h = i.h /\ q.n = i.n /\ q.todo = i.todo
<1>1. PICK e1 \in Rec : e1 = [i EXCEPT !.pc = a]
  BY DEF Rec
<1>2. PICK e2 \in Rec : e2 = [e1 EXCEPT !.op = o]
  BY DEF Rec
<1>3. PICK e3 \in Rec : e3 = [e2 EXCEPT !.try = k]
  BY DEF Rec
<1>4. SetRefill(i, a, o, k) = e3
  BY <1>1, <1>2, <1>3 DEF SetRefill
<1>5. QED
  BY <1>1, <1>2, <1>3, <1>4 DEF Rec

SetPush(i, a, o, c, z) == [i EXCEPT !.pc = a, !.op = o, !.cls = c, !.todo = z]

LEMMA SetPushIs ==
  ASSUME NEW i \in Rec, NEW a \in Pcs, NEW o \in Ops, NEW c \in Classes, NEW z \in Seq(Nat)
  PROVE  LET q == SetPush(i, a, o, c, z) IN
         /\ q \in Rec /\ q.pc = a /\ q.op = o /\ q.cls = c /\ q.todo = z /\ q.try = i.try
         /\ q.size = i.size /\ q.h = i.h /\ q.n = i.n
<1>1. PICK e1 \in Rec : e1 = [i EXCEPT !.pc = a]
  BY DEF Rec
<1>2. PICK e2 \in Rec : e2 = [e1 EXCEPT !.op = o]
  BY DEF Rec
<1>3. PICK e3 \in Rec : e3 = [e2 EXCEPT !.cls = c]
  BY DEF Rec
<1>4. PICK e4 \in Rec : e4 = [e3 EXCEPT !.todo = z]
  BY DEF Rec
<1>5. SetPush(i, a, o, c, z) = e4
  BY <1>1, <1>2, <1>3, <1>4 DEF SetPush
<1>6. QED
  BY <1>1, <1>2, <1>3, <1>4, <1>5 DEF Rec

SetAlloc(i, a, o, k, s, c) == [i EXCEPT !.pc = a, !.op = o, !.try = k, !.size = s, !.cls = c]

LEMMA SetAllocIs ==
  ASSUME NEW i \in Rec, NEW a \in Pcs, NEW o \in Ops, NEW k \in Tries, NEW s \in Nat,
         NEW c \in Classes
  PROVE  LET q == SetAlloc(i, a, o, k, s, c) IN
         /\ q \in Rec /\ q.pc = a /\ q.op = o /\ q.try = k /\ q.size = s /\ q.cls = c /\ q.h = i.h
         /\ q.n = i.n /\ q.todo = i.todo
<1>1. PICK e1 \in Rec : e1 = [i EXCEPT !.pc = a]
  BY DEF Rec
<1>2. PICK e2 \in Rec : e2 = [e1 EXCEPT !.op = o]
  BY DEF Rec
<1>3. PICK e3 \in Rec : e3 = [e2 EXCEPT !.try = k]
  BY DEF Rec
<1>4. PICK e4 \in Rec : e4 = [e3 EXCEPT !.size = s]
  BY DEF Rec
<1>5. PICK e5 \in Rec : e5 = [e4 EXCEPT !.cls = c]
  BY DEF Rec
<1>6. SetAlloc(i, a, o, k, s, c) = e5
  BY <1>1, <1>2, <1>3, <1>4, <1>5 DEF SetAlloc
<1>7. QED
  BY <1>1, <1>2, <1>3, <1>4, <1>5, <1>6 DEF Rec

SetSize(i, s) == [i EXCEPT !.size = s]

LEMMA SetSizeIs ==
  ASSUME NEW i \in Rec, NEW s \in Nat
  PROVE  LET q == SetSize(i, s) IN
         /\ q \in Rec /\ q.size = s /\ q.pc = i.pc /\ q.op = i.op /\ q.try = i.try
         /\ q.cls = i.cls /\ q.h = i.h /\ q.n = i.n /\ q.todo = i.todo
<1>1. PICK e1 \in Rec : e1 = [i EXCEPT !.size = s]
  BY DEF Rec
<1>2. SetSize(i, s) = e1
  BY <1>1 DEF SetSize
<1>3. QED
  BY <1>1, <1>2 DEF Rec


-----------------------------------------------------------------------------
(* Places *)

LEMMA WhereAre ==
  /\ \A c \in Classes : <<"free", c>> \in Where
  /\ \A t \in Threads : /\ <<"held", t>> \in Where /\ <<"cache", t>> \in Where
                        /\ <<"todo", t>> \in Where
  /\ <<"dropped", 0>> \in Where
  /\ \A w \in Where : \/ \E c \in Classes : w = <<"free", c>>
                      \/ \E t \in Threads : w \in {<<"held", t>>, <<"cache", t>>, <<"todo", t>>}
                      \/ w = <<"dropped", 0>>
BY DEF Where

\* The blocks of each place, before and after a step.
LEMMA AtAre ==
  /\ \A c \in Classes : /\ At(<<"free", c>>) = Elements(stack[c])
                        /\ At(<<"free", c>>)' = Elements(stack'[c])
  /\ \A t \in Threads : /\ At(<<"held", t>>) = {p[1] : p \in held[t]}
                        /\ At(<<"held", t>>)' = {p[1] : p \in held'[t]}
                        /\ At(<<"cache", t>>) = Elements(cache[t])
                        /\ At(<<"cache", t>>)' = Elements(cache'[t])
                        /\ At(<<"todo", t>>) = Elements(r[t].todo)
                        /\ At(<<"todo", t>>)' = Elements(r'[t].todo)
  /\ At(<<"dropped", 0>>) = dropped /\ At(<<"dropped", 0>>)' = dropped'
BY DEF At

\* The places, but for a set V of them, keep their blocks.
LEMMA AtElsewhere ==
  ASSUME NEW V,
         \A c \in Classes : <<"free", c>> \notin V => stack'[c] = stack[c],
         \A t \in Threads : /\ <<"held", t>> \notin V => held'[t] = held[t]
                            /\ <<"cache", t>> \notin V => cache'[t] = cache[t]
                            /\ <<"todo", t>> \notin V => r'[t].todo = r[t].todo,
         <<"dropped", 0>> \notin V => dropped' = dropped
  PROVE  \A w \in Where : w \notin V => At(w)' = At(w)
<1>1. SUFFICES ASSUME NEW w \in Where, w \notin V
               PROVE  At(w)' = At(w)
  OBVIOUS
<1>2. ASSUME NEW c \in Classes, w = <<"free", c>>
      PROVE  At(w)' = At(w)
  BY <1>1, <1>2 DEF At
<1>3. ASSUME NEW t \in Threads, w \in {<<"held", t>>, <<"cache", t>>, <<"todo", t>>}
      PROVE  At(w)' = At(w)
  <2>1. CASE w = <<"held", t>>
    BY <1>1, <2>1 DEF At
  <2>2. CASE w = <<"cache", t>>
    BY <1>1, <2>2 DEF At
  <2>3. CASE w = <<"todo", t>>
    BY <1>1, <2>3 DEF At
  <2>4. QED
    BY <1>3, <2>1, <2>2, <2>3
<1>4. CASE w = <<"dropped", 0>>
  BY <1>1, <1>4 DEF At
<1>5. QED
  BY <1>2, <1>3, <1>4, WhereAre

\* A block that is in one place is in no other.
LEMMA HomeOnly ==
  ASSUME Homes, NEW v \in Where, NEW w \in Where, NEW b \in At(v), b \in At(w)
  PROVE  v = w /\ b \in Blocks
BY DEF Homes, Home

\* Blocks keep their places.
LEMMA HomesKept ==
  ASSUME Homes, Blocks' = Blocks, \A w \in Where : At(w)' = At(w)
  PROVE  Homes'
BY DEF Homes, Home, Where

\* Blocks move together from one place to another.
LEMMA HomesMoved ==
  ASSUME Homes, Blocks' = Blocks, NEW v \in Where, NEW w \in Where, v # w, NEW S,
         S \subseteq At(v), At(v)' = At(v) \ S, At(w)' = At(w) \cup S,
         \A x \in Where : x # v /\ x # w => At(x)' = At(x)
  PROVE  Homes'
<1>1. Where' = Where
  BY DEF Where
<1>2. \A x \in Where : At(x)' \subseteq Blocks
  BY DEF Homes
<1>3. ASSUME NEW b \in Blocks
      PROVE  \E x \in Where : Home(b, x)'
  <2>1. PICK x \in Where : Home(b, x)
    BY DEF Homes
  <2>2. CASE b \in S
    <3>1. Home(b, w)'
      BY <1>1, <2>1, <2>2 DEF Home
    <3>2. QED
      BY <3>1
  <2>3. CASE b \notin S
    <3>1. Home(b, x)'
      BY <1>1, <2>1, <2>3 DEF Home
    <3>2. QED
      BY <3>1
  <2>4. QED
    BY <2>2, <2>3
<1>4. QED
  BY <1>1, <1>2, <1>3 DEF Homes

-----------------------------------------------------------------------------
(* Steps that leave the blocks where they are *)

LEMMA AtLimitKept ==
  ASSUME chunks \in Nat, chunks' \in Nat, chunks' >= chunks, AtLimit
  PROVE  AtLimit'
BY PoolsAssumption DEF AtLimit

LEMMA ShapeKept ==
  ASSUME NEW q, Shape(q), UNCHANGED design, AtLimit => AtLimit'
  PROVE  /\ q.pc \in {"push_link", "push_cas"} <=> q.todo # <<>>
         /\ q.pc \in {"pop_load", "pop_next", "pop_cas", "expand", "flag", "unflag"}
              => q.op \in Allocs
         /\ q.pc \in {"check", "lock"} => q.op \in Allocs \cup {"grow"}
         /\ q.todo # <<>> => q.op = "free" \/ (q.op # "none" /\ q.try = 3)
         /\ q.op = "alloc" => q.size \in Asked' /\ q.cls = IndexFor(q.size)
         /\ q.op \in {"fill", "refill", "grow"} => q.cls = 1
         /\ q.pc = "get" \/ q.op \in {"fill", "refill"} => design' # "slab"
         /\ q.pc = "expand" => design' # "bridge"
         /\ q.pc \in {"flag", "check", "unflag"} \/ q.op = "grow" => design' = "bridge"
         /\ q.try = 2 => design' # "bridge"
         /\ q.try = 4 => design' = "bridge"
         /\ q.pc = "unflag" => q.try = 3 \/ (design' = "bridge" /\ AtLimit')
<1>1. Asked' = Asked
  BY DEF Asked
<1>2. QED
  BY <1>1 DEF Shape

\* The shape of every thread's record, when t's becomes q.
LEMMA ShapesKept ==
  ASSUME Core, UNCHANGED design, AtLimit => AtLimit', NEW t \in Threads, NEW q,
         Shape(q), r' = [r EXCEPT ![t] = q]
  PROVE  \A u \in Threads : Shape(r[u])'
<1>1. SUFFICES ASSUME NEW u \in Threads
               PROVE  Shape(r[u])'
  OBVIOUS
<1>2. r'[u] = IF u = t THEN q ELSE r[u]
  BY DEF Core, Types
<1>3. Shape(r'[u])
  BY <1>2 DEF Core
<1>4. QED
  BY <1>3, ShapeKept DEF Shape

\* The invariant where a step can be taken.
Going == Core /\ FitsRequest /\ ChunkLimit /\ fate = "runs"

\* A step of t leaves the blocks and their links, and what others count, alone.
Undisturbed(t) ==
  /\ UNCHANGED <<design, head, next, class, chunks, held, cache, stack, dropped, fate>>
  /\ \A u \in Threads : u # t => (u \in stale' <=> u \in stale) /\ stolen'[u] = stolen[u]
  /\ stolen' \in [Threads -> Nat]
  /\ \A u \in Threads : tls'[u] = "live" => design # "slab"

\* A step of t's program that moves no block and writes no link.
LEMMA LocalStep ==
  ASSUME Going, NEW t \in Threads, NEW q \in Rec, Undisturbed(t),
         r' = [r EXCEPT ![t] = q],
         q.todo = r[t].todo, q.todo # <<>> => q.cls = r[t].cls,
         Shape(q), Reads(t)',
         q.try = 3 => \/ design = "bridge" /\ AtLimit
                      \/ r[t].try = 3 /\ q.cls = r[t].cls /\ stolen'[t] = stolen[t]
  PROVE  PoolsInv'
<1> USE DEF Core, Going, Undisturbed
<1>1. /\ \A u \in Threads : u # t => r'[u] = r[u]
      /\ r'[t] = q /\ r' \in [Threads -> Rec]
  BY DEF Types
<1>2. AtLimit' = AtLimit /\ NextChunk' = NextChunk /\ Asked' = Asked /\ Blocks' = Blocks
  BY DEF AtLimit, NextChunk, Asked, Blocks
<1>3. Types'
  BY <1>1, <1>2 DEF Types
<1>4. \A u \in Threads : r'[u].todo = r[u].todo
  BY <1>1
<1>5. Homes'
  <2>1. \A w \in Where : At(w)' = At(w)
    <3> DEFINE None == {}
    <3>1. \A w \in Where : w \notin None => At(w)' = At(w)
      <4>1. /\ \A c \in Classes : stack'[c] = stack[c]
            /\ \A u \in Threads : held'[u] = held[u] /\ cache'[u] = cache[u]
            /\ dropped' = dropped
        OBVIOUS
      <4> HIDE DEF None
      <4>2. QED
        BY <1>4, <4>1, AtElsewhere
    <3>2. QED
      BY <3>1
  <2>2. QED
    BY <1>2, <2>1, HomesKept
<1>6. Once'
  BY <1>4 DEF Once
<1>7. ClassKept'
  <2>1. \A u \in Threads : \A b \in Elements(r'[u].todo) : class[b] = r'[u].cls
    <3>1. ASSUME NEW b \in Elements(q.todo)
          PROVE  class[b] = q.cls
      <4>1. q.todo # <<>>
        BY <3>1, ElementsEmpty
      <4>2. QED
        BY <3>1, <4>1 DEF ClassKept
    <3>2. QED
      BY <1>1, <3>1 DEF ClassKept
  <2>2. QED
    BY <2>1 DEF ClassKept
<1>8. \A u \in Threads : Shape(r[u])'
  BY <1>2, ShapesKept
<1>9. \A u \in Threads : Reads(u)'
  <2>1. ASSUME NEW u \in Threads, u # t
        PROVE  Reads(u)'
    BY <1>1, <2>1 DEF Reads
  <2>2. QED
    BY <2>1
<1>10. \A u \in Threads : Counted(u)'
  <2>1. ASSUME NEW u \in Threads, u # t
        PROVE  Counted(u)'
    BY <1>1, <1>2, <2>1 DEF Counted
  <2>2. Counted(t)'
    BY <1>1, <1>2 DEF Counted
  <2>3. QED
    BY <2>1, <2>2
<1>11. \A c \in Classes : Linked(c)'
  BY DEF Linked
<1>12. FitsRequest' /\ ChunkLimit' /\ fate' = "runs"
  BY DEF FitsRequest, ChunkLimit, PoolsInv
<1>13. Core'
  BY <1>3, <1>5, <1>6, <1>7, <1>8, <1>9, <1>10, <1>11
<1>14. QED
  BY <1>12, <1>13 DEF PoolsInv

\* The same for a thread that neither pushes nor has read a head.
LEMMA QuietStep ==
  ASSUME Going, NEW t \in Threads, NEW q \in Rec, Undisturbed(t),
         r' = [r EXCEPT ![t] = q],
         r[t].pc \notin {"push_link", "push_cas"}, Shape(q),
         q.pc \notin {"push_link", "push_cas", "pop_next", "pop_cas"},
         q.try = 3 => \/ design = "bridge" /\ AtLimit
                      \/ r[t].try = 3 /\ q.cls = r[t].cls /\ stolen'[t] = stolen[t]
  PROVE  PoolsInv'
<1>1. r[t].todo = <<>> /\ q.todo = <<>>
  BY DEF Going, Core, Shape
<1>2. Reads(t)'
  <2>1. r'[t] = q
    BY DEF Going, Core, Types
  <2>2. QED
    BY <2>1 DEF Reads
<1>3. QED
  BY <1>1, <1>2, LocalStep

\* Records of threads between calls.
LEMMA IdleRec ==
  /\ Idle \in Rec /\ Idle.pc = "idle" /\ Idle.op = "none" /\ Idle.try = 0 /\ Idle.cls = 1
  /\ Idle.size = 0 /\ Idle.todo = <<>> /\ Idle.h = Null /\ Idle.n = Null /\ Shape(Idle)
<1>1. Idle \in Rec
  BY SizesAre, ElementsEmpty DEF Idle, Rec, Links, Pcs, Ops, Tries
<1>2. QED
  BY <1>1 DEF Idle, Shape

LEMMA AllocateInv ==
  ASSUME Going, NEW t \in Threads, Allocate(t)
  PROVE  PoolsInv'
<1>1. PICK s \in Asked : r' = [r EXCEPT ![t] = SetAlloc(Idle, "pop_load", "alloc", 1, s, IndexFor(s))]
  BY DEF Allocate, Become, SetAlloc
<1> DEFINE q == SetAlloc(Idle, "pop_load", "alloc", 1, s, IndexFor(s))
<1>2. /\ q \in Rec /\ q.pc = "pop_load" /\ q.op = "alloc" /\ q.try = 1 /\ q.size = s
      /\ q.cls = IndexFor(s) /\ q.todo = <<>>
  <2>1. s \in Nat /\ IndexFor(s) \in Classes
    BY AskedFits
  <2>2. "pop_load" \in Pcs /\ "alloc" \in Ops /\ 1 \in Tries
    BY DEF Pcs, Ops, Allocs, Tries
  <2>3. QED
    BY <2>1, <2>2, IdleRec, SetAllocIs
<1> HIDE DEF q
<1>3. Undisturbed(t) /\ r[t].pc = "idle" /\ r' = [r EXCEPT ![t] = q]
  BY <1>1 DEF Allocate, Start, Undisturbed, Going, Core, Types, ClassKept, q
<1>4. Shape(q)
  BY <1>2 DEF Shape, Allocs
<1>5. /\ q.try # 3 /\ q.pc \notin {"push_link", "push_cas", "pop_next", "pop_cas"}
      /\ r[t].pc \notin {"push_link", "push_cas"}
  BY <1>2, <1>3
<1>6. QED
  BY <1>2, <1>3, <1>4, <1>5, QuietStep

LEMMA CallExpandInv ==
  ASSUME Going, NEW t \in Threads, CallExpand(t)
  PROVE  PoolsInv'
<1> DEFINE q == SetCall(Idle, "check", "grow")
<1>1. q \in Rec /\ q.pc = "check" /\ q.op = "grow" /\ q.try = 0 /\ q.cls = 1 /\ q.todo = <<>>
  <2>1. "check" \in Pcs /\ "grow" \in Ops
    BY DEF Pcs, Ops
  <2>2. QED
    BY <2>1, IdleRec, SetCallIs
<1>2. r' = [r EXCEPT ![t] = q]
  BY DEF CallExpand, Become, SetCall
<1> HIDE DEF q
<1>3. Undisturbed(t) /\ r[t].pc = "idle"
  BY DEF CallExpand, Start, Undisturbed, Going, Core, Types, ClassKept
<1>4. Shape(q)
  BY <1>1 DEF Shape, Allocs, CallExpand
<1>5. /\ q.try # 3 /\ q.pc \notin {"push_link", "push_cas", "pop_next", "pop_cas"}
      /\ r[t].pc \notin {"push_link", "push_cas"}
  BY <1>1, <1>3
<1>6. QED
  BY <1>1, <1>2, <1>3, <1>4, <1>5, QuietStep

\* A new call of Allocate for the cache.
LEMMA RefillingIs ==
  ASSUME NEW op \in Allocs
  PROVE  LET q == Refilling(op) IN
         /\ q \in Rec /\ q.pc = "pop_load" /\ q.op = op /\ q.try = 1 /\ q.cls = 1 /\ q.size = 0
         /\ q.todo = <<>> /\ q.h = Null /\ q.n = Null
<1>1. "pop_load" \in Pcs /\ op \in Ops /\ 1 \in Tries
  BY DEF Pcs, Ops, Tries
<1>2. Refilling(op) = SetRefill(Idle, "pop_load", op, 1)
  BY DEF Refilling, SetRefill
<1>3. QED
  BY <1>1, <1>2, IdleRec, SetRefillIs

LEMMA NewCacheInv ==
  ASSUME Going, NEW t \in Threads, NewCache(t)
  PROVE  PoolsInv'
<1> DEFINE q == IF design = "bridge" THEN Refilling("fill") ELSE Idle
<1>1. /\ q \in Rec /\ q.todo = <<>> /\ q.cls = 1 /\ q.try \in {0, 1}
      /\ (q.pc = "pop_load" /\ q.op = "fill") \/ (q.pc = "idle" /\ q.op = "none")
  <2>1. "fill" \in Allocs
    BY DEF Allocs
  <2>2. QED
    BY <2>1, IdleRec, RefillingIs
<1>2. r' = [r EXCEPT ![t] = q]
  BY DEF NewCache, Become
<1> HIDE DEF q
<1>3. Undisturbed(t) /\ r[t].pc = "idle" /\ design # "slab"
  BY DEF NewCache, Start, Undisturbed, Going, Core, Types, ClassKept
<1>4. Shape(q)
  BY <1>1, <1>3 DEF Shape, Allocs
<1>5. /\ q.try # 3 /\ q.pc \notin {"push_link", "push_cas", "pop_next", "pop_cas"}
      /\ r[t].pc \notin {"push_link", "push_cas"}
  BY <1>1, <1>3
<1>6. QED
  BY <1>1, <1>2, <1>3, <1>4, <1>5, QuietStep

LEMMA GetIs ==
  LET q == [Idle EXCEPT !.pc = "get"] IN
  /\ q \in Rec /\ q.pc = "get" /\ q.op = "none" /\ q.try = 0 /\ q.cls = 1 /\ q.todo = <<>>
<1>1. "get" \in Pcs
  BY DEF Pcs
<1>2. [Idle EXCEPT !.pc = "get"] = SetPc(Idle, "get")
  BY DEF SetPc
<1>3. QED
  BY <1>1, <1>2, IdleRec, SetPcIs

LEMMA GetInv ==
  ASSUME Going, NEW t \in Threads, Get(t)
  PROVE  PoolsInv'
<1> DEFINE q == IF cache[t] = <<>> THEN Refilling("refill") ELSE [Idle EXCEPT !.pc = "get"]
<1>1. /\ q \in Rec /\ q.todo = <<>> /\ q.cls = 1 /\ q.try \in {0, 1}
      /\ (q.pc = "pop_load" /\ q.op = "refill") \/ (q.pc = "get" /\ q.op = "none")
  <2>1. "refill" \in Allocs
    BY DEF Allocs
  <2>2. QED
    BY <2>1, GetIs, RefillingIs
<1>2. r' = [r EXCEPT ![t] = q]
  BY DEF Get, Become
<1> HIDE DEF q
<1>3. Undisturbed(t) /\ r[t].pc = "idle" /\ design # "slab"
  BY DEF Get, Start, Undisturbed, Going, Core, Types, ClassKept
<1>4. Shape(q)
  BY <1>1, <1>3 DEF Shape, Allocs
<1>5. /\ q.try # 3 /\ q.pc \notin {"push_link", "push_cas", "pop_next", "pop_cas"}
      /\ r[t].pc \notin {"push_link", "push_cas"}
  BY <1>1, <1>3
<1>6. QED
  BY <1>1, <1>2, <1>3, <1>4, <1>5, QuietStep

LEMMA SlabLockInv ==
  ASSUME Going, NEW t \in Threads, SlabLock(t)
  PROVE  PoolsInv'
<1> DEFINE q == SetTry(r[t], "pop_load", 2)
<1>1. /\ q \in Rec /\ q.pc = "pop_load" /\ q.try = 2 /\ q.op = r[t].op /\ q.cls = r[t].cls
      /\ q.size = r[t].size /\ q.todo = r[t].todo
  <2>1. r[t] \in Rec /\ "pop_load" \in Pcs /\ 2 \in Tries
    BY DEF Going, Core, Types, Pcs, Tries
  <2>2. QED
    BY <2>1, SetTryIs
<1>2. r' = [r EXCEPT ![t] = q]
  BY DEF SlabLock, Become, SetTry
<1> HIDE DEF q
<1>3. Undisturbed(t) /\ r[t].pc = "lock" /\ design = "slab"
  BY DEF SlabLock, Quiet, Unmoved, Undisturbed, Going, Core, Types, ClassKept
<1>4. Shape(q)
  BY <1>1, <1>3 DEF Shape, Allocs, Going, Core
<1>5. /\ q.try # 3 /\ q.pc \notin {"push_link", "push_cas", "pop_next", "pop_cas"}
      /\ r[t].pc \notin {"push_link", "push_cas"}
  BY <1>1, <1>3
<1>6. QED
  BY <1>1, <1>2, <1>3, <1>4, <1>5, QuietStep

LEMMA TakeFlagInv ==
  ASSUME Going, NEW t \in Threads, TakeFlag(t)
  PROVE  PoolsInv'
<1> DEFINE q == IF flag THEN SetTry(r[t], "pop_load", 4) ELSE SetPc(r[t], "check")
<1>1. /\ q \in Rec /\ q.op = r[t].op /\ q.cls = r[t].cls /\ q.size = r[t].size
      /\ q.todo = r[t].todo
      /\ (q.pc = "pop_load" /\ q.try = 4) \/ (q.pc = "check" /\ q.try = r[t].try)
  <2>1. r[t] \in Rec /\ "pop_load" \in Pcs /\ "check" \in Pcs /\ 4 \in Tries
    BY DEF Going, Core, Types, Pcs, Tries
  <2>2. QED
    BY <2>1, SetTryIs, SetPcIs
<1>2. r' = [r EXCEPT ![t] = q]
  BY DEF TakeFlag, Become, SetTry, SetPc
<1> HIDE DEF q
<1>3. Undisturbed(t) /\ r[t].pc = "flag" /\ stolen' = stolen
  BY DEF TakeFlag, Still, Undisturbed, Going, Core, Types, ClassKept
<1>4. Shape(q)
  BY <1>1, <1>3 DEF Shape, Allocs, Going, Core
<1>5. /\ q.try = 3 => r[t].try = 3
      /\ q.pc \notin {"push_link", "push_cas", "pop_next", "pop_cas"}
      /\ r[t].pc \notin {"push_link", "push_cas"}
  BY <1>1, <1>3
<1>6. QED
  BY <1>1, <1>2, <1>3, <1>4, <1>5, QuietStep

\* Both looks at the limit, when it is reached or the mutex still has to be taken.
LEMMA LimitStepInv ==
  ASSUME Going, NEW t \in Threads, r[t].pc \in {"check", "lock"}, design = "bridge",
         \/ Return(t) /\ AtLimit
         \/ Become(t, [r[t] EXCEPT !.pc = "lock"]),
         UNCHANGED <<Still, class, chunks, stolen>>
  PROVE  PoolsInv'
<1>1. PICK q : /\ r' = [r EXCEPT ![t] = q]
               /\ \/ q = Idle
                  \/ q = SetPc(r[t], "unflag") /\ AtLimit /\ r[t].op # "grow"
                  \/ q = SetPc(r[t], "lock")
  BY DEF Return, Become, SetPc
<1>2. r[t] \in Rec /\ "unflag" \in Pcs /\ "lock" \in Pcs
  BY DEF Going, Core, Types, Pcs
<1>3. /\ q \in Rec
      /\ \/ q = Idle
         \/ /\ q.op = r[t].op /\ q.cls = r[t].cls /\ q.size = r[t].size /\ q.todo = r[t].todo
            /\ q.try = r[t].try
            /\ (q.pc = "unflag" /\ AtLimit /\ r[t].op # "grow") \/ q.pc = "lock"
  BY <1>1, <1>2, IdleRec, SetPcIs
<1>4. Undisturbed(t) /\ stolen' = stolen
  BY DEF Still, Undisturbed, Going, Core, Types, ClassKept
<1>5. Shape(q)
  <2>1. CASE q = Idle
    BY <2>1, IdleRec
  <2>2. CASE q # Idle
    BY <1>3, <2>2 DEF Shape, Allocs, Going, Core
  <2>3. QED
    BY <2>1, <2>2
<1>6. /\ q.try = 3 => r[t].try = 3 /\ q.cls = r[t].cls
      /\ q.pc \notin {"push_link", "push_cas", "pop_next", "pop_cas"}
      /\ r[t].pc \notin {"push_link", "push_cas"}
  BY <1>3, IdleRec
<1>7. QED
  BY <1>1, <1>3, <1>4, <1>5, <1>6, QuietStep

LEMMA CheckLimitInv ==
  ASSUME Going, NEW t \in Threads, CheckLimit(t)
  PROVE  PoolsInv'
<1>1. r[t].pc = "check" /\ design = "bridge"
  BY DEF CheckLimit, Going, Core, Shape
<1>2. \/ Return(t) /\ AtLimit
      \/ Become(t, [r[t] EXCEPT !.pc = "lock"])
  BY DEF CheckLimit
<1>3. UNCHANGED <<Still, class, chunks, stolen>>
  BY DEF CheckLimit
<1>4. QED
  BY <1>1, <1>2, <1>3, LimitStepInv

LEMMA ReleaseFlagInv ==
  ASSUME Going, NEW t \in Threads, ReleaseFlag(t)
  PROVE  PoolsInv'
<1> DEFINE q == SetTry(r[t], "pop_load", 3)
<1>1. /\ q \in Rec /\ q.pc = "pop_load" /\ q.try = 3 /\ q.op = r[t].op /\ q.cls = r[t].cls
      /\ q.size = r[t].size /\ q.todo = r[t].todo
  <2>1. r[t] \in Rec /\ "pop_load" \in Pcs /\ 3 \in Tries
    BY DEF Going, Core, Types, Pcs, Tries
  <2>2. QED
    BY <2>1, SetTryIs
<1>2. r' = [r EXCEPT ![t] = q]
  BY DEF ReleaseFlag, Become, SetTry
<1> HIDE DEF q
<1>3. Undisturbed(t) /\ r[t].pc = "unflag" /\ stolen' = stolen
  BY DEF ReleaseFlag, Still, Undisturbed, Going, Core, Types, ClassKept
<1>4. Shape(q)
  BY <1>1, <1>3 DEF Shape, Allocs, Going, Core
<1>5. /\ r[t].try = 3 \/ (design = "bridge" /\ AtLimit)
      /\ q.pc \notin {"push_link", "push_cas", "pop_next", "pop_cas"}
      /\ r[t].pc \notin {"push_link", "push_cas"}
  BY <1>1, <1>3 DEF Shape, Going, Core
<1>6. QED
  BY <1>1, <1>2, <1>3, <1>4, <1>5, QuietStep

LEMMA PopNextInv ==
  ASSUME Going, NEW t \in Threads, PopNext(t)
  PROVE  PoolsInv'
<1> DEFINE q == SetLink(r[t], "pop_cas", next[r[t].h])
<1>1. r[t] \in Rec /\ r[t].pc = "pop_next" /\ r[t].h # Null /\ r[t].todo = <<>>
  BY DEF PopNext, Going, Core, Types, Reads, Shape
<1>2. /\ q \in Rec /\ q.pc = "pop_cas" /\ q.n = next[r[t].h] /\ q.op = r[t].op
      /\ q.cls = r[t].cls /\ q.size = r[t].size /\ q.todo = r[t].todo /\ q.try = r[t].try
      /\ q.h = r[t].h
  <2>1. next[r[t].h] \in Links /\ "pop_cas" \in Pcs
    BY <1>1 DEF Going, Core, Types, Rec, Links, Pcs
  <2>2. QED
    BY <1>1, <2>1, SetLinkIs
<1>3. r' = [r EXCEPT ![t] = q]
  BY DEF PopNext, Become, SetLink
<1> HIDE DEF q
<1>4. Undisturbed(t) /\ UNCHANGED <<stolen, stale, stack, next>>
  BY DEF PopNext, Unmoved, Undisturbed, Going, Core, Types, ClassKept
<1>5. Shape(q)
  BY <1>1, <1>2 DEF Shape, Allocs, Going, Core
<1>6. Reads(t)'
  <2>1. r'[t] = q
    BY <1>3 DEF Going, Core, Types
  <2>2. t \notin stale => r[t].h \in Elements(stack[r[t].cls])
    BY <1>1 DEF Going, Core, Reads
  <2>3. QED
    BY <1>1, <1>2, <1>4, <2>1, <2>2 DEF Reads
<1>7. QED
  BY <1>1, <1>2, <1>3, <1>4, <1>5, <1>6, LocalStep

LEMMA PushRetryInv ==
  ASSUME Going, NEW t \in Threads, PushRetry(t)
  PROVE  PoolsInv'
<1> DEFINE q == SetHead(r[t], "push_link", Null)
<1>1. /\ q \in Rec /\ q.pc = "push_link" /\ q.op = r[t].op
      /\ q.cls = r[t].cls /\ q.size = r[t].size /\ q.todo = r[t].todo /\ q.try = r[t].try
  <2>1. r[t] \in Rec /\ Null \in Links /\ "push_link" \in Pcs
    BY DEF Going, Core, Types, Links, Pcs
  <2>2. QED
    BY <2>1, SetHeadIs
<1>2. r' = [r EXCEPT ![t] = q]
  BY DEF PushRetry, Become, SetHead
<1> HIDE DEF q
<1>3. Undisturbed(t) /\ r[t].pc = "push_cas" /\ UNCHANGED stolen
  BY DEF PushRetry, Quiet, Unmoved, Undisturbed, Going, Core, Types, ClassKept
<1>4. Shape(q)
  BY <1>1, <1>3 DEF Shape, Allocs, Going, Core
<1>5. Reads(t)'
  <2>1. r'[t] = q
    BY <1>2 DEF Going, Core, Types
  <2>2. QED
    BY <1>1, <2>1 DEF Reads
<1>6. QED
  BY <1>1, <1>2, <1>3, <1>4, <1>5, LocalStep

\* The head was read: in the list, or null and Allocate goes on or gives up.
LEMMA ReadHeadInv ==
  ASSUME Going, NEW t \in Threads, r[t].pc \in {"pop_load", "pop_cas"}, ReadHead(t)
  PROVE  PoolsInv'
<1>1. r[t] \in Rec /\ r[t].todo = <<>> /\ r[t].op \in Allocs /\ r[t].cls \in Classes
  BY DEF Going, Core, Types, Shape, Rec
<1>2. /\ stale' = stale \ {t}
      /\ UNCHANGED <<design, head, next, class, chunks, stack, dropped, fate, tls>>
  BY DEF ReadHead, Unmoved
<1>3. stolen' \in [Threads -> Nat] /\ \A u \in Threads : u # t => stolen'[u] = stolen[u]
  BY DEF ReadHead, Going, Core, Types
<1>4. held' = held /\ cache' = cache => Undisturbed(t)
  BY <1>2, <1>3 DEF Undisturbed, Going, Core, ClassKept
<1>5. CASE head[r[t].cls] # Null
  <2> DEFINE b == head[r[t].cls]
             q == SetRead(r[t], "pop_next", b, Null)
  <2>1. /\ q \in Rec /\ q.pc = "pop_next" /\ q.h = b /\ q.n = Null /\ q.op = r[t].op
        /\ q.cls = r[t].cls /\ q.size = r[t].size /\ q.todo = r[t].todo /\ q.try = r[t].try
    <3>1. b \in Links /\ Null \in Links /\ "pop_next" \in Pcs
      BY <1>1 DEF Going, Core, Types, Links, Pcs
    <3>2. QED
      BY <1>1, <3>1, SetReadIs
  <2>2. r' = [r EXCEPT ![t] = q] /\ UNCHANGED <<held, cache, stolen>>
    BY <1>5 DEF ReadHead, Become, SetRead
  <2>3. b \in Elements(stack[r[t].cls])
    <3>1. Linked(r[t].cls) /\ stack[r[t].cls] \in Seq(Nat)
      BY <1>1 DEF Going, Core, Types
    <3>2. stack[r[t].cls] # <<>> /\ b = stack[r[t].cls][1]
      BY <1>5, <3>1 DEF Linked
    <3>3. 1 \in 1..Len(stack[r[t].cls])
      BY <3>1, <3>2
    <3>4. QED
      BY <3>2, <3>3, ElementsAre
  <2> HIDE DEF q
  <2>4. Reads(t)'
    <3>1. r'[t] = q
      BY <2>2 DEF Going, Core, Types
    <3>2. QED
      BY <1>2, <1>5, <2>1, <2>3, <3>1 DEF Reads
  <2>5. Shape(q)
    BY <1>1, <2>1 DEF Shape, Going, Core
  <2>6. QED
    BY <1>1, <1>4, <2>1, <2>2, <2>4, <2>5, LocalStep
<1>6. CASE head[r[t].cls] = Null
  <2>1. Empty(t)
    BY <1>6 DEF ReadHead
  <2>2. CASE r[t].try > 2 /\ Finish(t, Null)
    <3>1. UNCHANGED <<held, cache>>
      BY <2>2 DEF Finish, Going, Core, Types
    <3>2. PICK q : /\ r' = [r EXCEPT ![t] = q]
                   /\ \/ q = Idle
                      \/ q = [Idle EXCEPT !.pc = "get"] /\ r[t].op = "refill"
      BY <1>1, <2>2 DEF Finish, Become, Allocs
    <3>3. /\ q \in Rec /\ q.op = "none" /\ q.try = 0 /\ q.cls = 1 /\ q.todo = <<>>
          /\ q.pc = "idle" \/ (q.pc = "get" /\ r[t].op = "refill")
      BY <3>2, IdleRec, GetIs
    <3>4. Shape(q)
      BY <3>3 DEF Shape, Going, Core, Allocs
    <3>5. /\ q.try # 3 /\ q.pc \notin {"push_link", "push_cas", "pop_next", "pop_cas"}
          /\ r[t].pc \notin {"push_link", "push_cas"}
      BY <3>3
    <3>6. QED
      BY <1>4, <3>1, <3>2, <3>3, <3>4, <3>5, QuietStep
  <2>3. CASE r[t].try <= 2 /\ ~(r[t].try > 2 /\ Finish(t, Null))
    <3> DEFINE a == IF r[t].try = 2 \/ design = "fixed" THEN "expand"
                    ELSE IF design = "slab" THEN "lock" ELSE "flag"
               q == SetRead(r[t], a, Null, Null)
    <3>1. r' = [r EXCEPT ![t] = q] /\ UNCHANGED <<held, cache>>
      BY <2>1, <2>3 DEF Empty, Become, SetRead
    <3>2. /\ a \in Pcs /\ a \in {"expand", "lock", "flag"}
          /\ a = "expand" => design # "bridge"
          /\ a = "flag" => design = "bridge"
      BY DEF Pcs, Going, Core, Types, Shape
    <3> HIDE DEF a
    <3>3. /\ q \in Rec /\ q.pc = a /\ q.op = r[t].op /\ q.cls = r[t].cls
          /\ q.size = r[t].size /\ q.todo = r[t].todo /\ q.try = r[t].try
      <4>1. Null \in Links
        BY DEF Links
      <4>2. QED
        BY <1>1, <3>2, <4>1, SetReadIs
    <3> HIDE DEF q
    <3>4. Shape(q)
      BY <1>1, <3>2, <3>3 DEF Shape, Going, Core
    <3>5. /\ q.try # 3 /\ q.pc \notin {"push_link", "push_cas", "pop_next", "pop_cas"}
          /\ r[t].pc \notin {"push_link", "push_cas"}
      BY <2>3, <3>2, <3>3
    <3>6. QED
      BY <1>4, <3>1, <3>3, <3>4, <3>5, QuietStep
  <2>4. QED
    BY <2>1, <2>2, <2>3 DEF Empty
<1>7. QED
  BY <1>5, <1>6

LEMMA PopReadInv ==
  ASSUME Going, NEW t \in Threads, PopLoad(t) \/ PopRetry(t)
  PROVE  PoolsInv'
BY ReadHeadInv DEF PopLoad, PopRetry

-----------------------------------------------------------------------------
(* Steps that move blocks between clients, caches and calls *)

\* Held blocks are large enough because they are of the right class.
LEMMA FitsFromClass ==
  ASSUME Types', ClassKept'
  PROVE  FitsRequest'
<1>1. SUFFICES ASSUME NEW t \in Threads, NEW p \in held'[t]
               PROVE  p[2] <= kSizes[class'[p[1]]]
  BY DEF FitsRequest
<1>2. p[2] \in Asked' /\ class'[p[1]] = IndexFor(p[2])
  BY DEF Types, ClassKept
<1>3. Asked' \subseteq Servable
  <2>1. Requests \subseteq Servable
    BY SizesAre, PoolsAssumption DEF Servable
  <2>2. kSizes[1] \in Servable
    BY SizesAre DEF Servable
  <2>3. QED
    BY <2>1, <2>2 DEF Asked
<1>4. p[2] \in Servable
  BY <1>2, <1>3
<1>5. QED
  BY <1>2, <1>4, IndexForFits

\* A step that leaves the free lists alone.
LEMMA MoveStep ==
  ASSUME Going, NEW t \in Threads, NEW q \in Rec, r' = [r EXCEPT ![t] = q],
         UNCHANGED <<design, head, next, class, chunks, stack, stale, stolen, fate>>,
         held' \in [Threads -> SUBSET (Nat \X Asked)], cache' \in [Threads -> Seq(Nat)],
         Homes', Once', ClassKept', Shape(q), q.try # 3,
         q.pc \notin {"push_cas", "pop_next", "pop_cas"}
  PROVE  PoolsInv'
<1> USE DEF Core, Going
<1>1. /\ \A u \in Threads : u # t => r'[u] = r[u]
      /\ r'[t] = q /\ r' \in [Threads -> Rec]
  BY DEF Types
<1>2. AtLimit' = AtLimit /\ NextChunk' = NextChunk /\ Asked' = Asked
  BY DEF AtLimit, NextChunk, Asked
<1>3. Types'
  BY <1>1, <1>2 DEF Types
<1>4. \A u \in Threads : Shape(r[u])'
  BY <1>2, ShapesKept
<1>5. \A u \in Threads : Reads(u)'
  <2>1. ASSUME NEW u \in Threads, u # t
        PROVE  Reads(u)'
    BY <1>1, <2>1 DEF Reads
  <2>2. Reads(t)'
    BY <1>1 DEF Reads
  <2>3. QED
    BY <2>1, <2>2
<1>6. \A u \in Threads : Counted(u)'
  <2>1. ASSUME NEW u \in Threads, u # t
        PROVE  Counted(u)'
    BY <1>1, <1>2, <2>1 DEF Counted
  <2>2. Counted(t)'
    BY <1>1 DEF Counted
  <2>3. QED
    BY <2>1, <2>2
<1>7. \A c \in Classes : Linked(c)'
  BY DEF Linked
<1>8. ChunkLimit' /\ fate' = "runs"
  BY DEF ChunkLimit
<1>9. FitsRequest'
  BY <1>3, FitsFromClass
<1>10. Core'
  BY <1>3, <1>4, <1>5, <1>6, <1>7
<1>11. QED
  BY <1>8, <1>9, <1>10 DEF PoolsInv

\* Blocks change hands among the places V, which also get the new blocks.
LEMMA HomesShuffled ==
  ASSUME Homes, Blocks \subseteq Blocks', NEW V \in SUBSET Where,
         \A w \in Where : w \notin V => At(w)' = At(w),
         \A b : (\E v \in V : b \in At(v)') <=> (b \in Blocks' \ Blocks \/ \E v \in V : b \in At(v)),
         \A v, w \in V : \A b : b \in At(v)' /\ b \in At(w)' => v = w
  PROVE  Homes'
<1>1. Where' = Where
  BY DEF Where
<1>2. ASSUME NEW w \in Where
      PROVE  At(w)' \subseteq Blocks'
  <2>1. CASE w \in V
    BY <2>1 DEF Homes
  <2>2. CASE w \notin V
    BY <2>2 DEF Homes
  <2>3. QED
    BY <2>1, <2>2
<1>3. ASSUME NEW b \in Blocks', NEW w \in V, b \in At(w)'
      PROVE  Home(b, w)'
  <2>1. SUFFICES ASSUME NEW x \in Where, b \in At(x)'
                 PROVE  x = w
    BY <1>1, <1>3 DEF Home
  <2>2. CASE x \in V
    BY <1>3, <2>1, <2>2
  <2>3. CASE x \notin V
    <3>1. b \in At(x) /\ b \in Blocks
      BY <2>1, <2>3 DEF Homes
    <3>2. PICK v \in V : b \in At(v)
      BY <1>3, <3>1
    <3>3. v = x
      BY <3>1, <3>2, HomeOnly
    <3>4. QED
      BY <2>3, <3>3
  <2>4. QED
    BY <2>2, <2>3
<1>4. ASSUME NEW b \in Blocks'
      PROVE  \E x \in Where : Home(b, x)'
  <2>1. CASE \E v \in V : b \in At(v)'
    <3>1. PICK v \in V : b \in At(v)'
      BY <2>1
    <3>2. QED
      BY <1>3, <3>1
  <2>2. CASE ~ \E v \in V : b \in At(v)'
    <3>1. b \in Blocks /\ ~ \E v \in V : b \in At(v)
      BY <2>2
    <3>2. PICK x \in Where : Home(b, x)
      BY <3>1 DEF Homes
    <3>3. x \notin V
      BY <3>1, <3>2 DEF Home
    <3>4. Home(b, x)'
      BY <1>1, <2>2, <3>2, <3>3 DEF Home
    <3>5. QED
      BY <3>4
  <2>3. QED
    BY <2>1, <2>2
<1>5. QED
  BY <1>1, <1>2, <1>4 DEF Homes

LEMMA ElementsOne ==
  ASSUME NEW b \in Nat
  PROVE  /\ <<b>> \in Seq(Nat) /\ <<b>> # <<>> /\ Len(<<b>>) = 1 /\ <<b>>[1] = b
         /\ Elements(<<b>>) = {b} /\ Distinct(<<b>>)
<1> DEFINE z == <<b>>
<1>1. z \in Seq(Nat) /\ z # <<>> /\ Len(z) = 1 /\ z[1] = b
  OBVIOUS
<1> HIDE DEF z
<1>2. Elements(z) = {b} /\ Distinct(z)
  BY <1>1 DEF Elements, Distinct
<1>3. QED
  BY <1>1, <1>2 DEF z

\* A client gives up a block that it holds.
LEMMA HeldOut ==
  ASSUME Going, NEW t \in Threads, NEW p \in held[t], held' = [held EXCEPT ![t] = @ \ {p}]
  PROVE  /\ held' \in [Threads -> SUBSET (Nat \X Asked)]
         /\ \A u \in Threads : held'[u] \subseteq held[u] /\ (u # t => held'[u] = held[u])
         /\ {x[1] : x \in held'[t]} = {x[1] : x \in held[t]} \ {p[1]}
         /\ p[1] \in Nat /\ p[1] \in Blocks /\ p[2] \in Asked /\ class[p[1]] = IndexFor(p[2])
         /\ p[1] \in {x[1] : x \in held[t]}
<1> USE DEF Going, Core
<1>1. p \in Nat \X Asked /\ p[1] \in {x[1] : x \in held[t]}
  BY DEF Types
<1>2. /\ held' \in [Threads -> SUBSET (Nat \X Asked)] /\ held'[t] = held[t] \ {p}
      /\ \A u \in Threads : u # t => held'[u] = held[u]
  BY DEF Types
<1>3. {x[1] : x \in held'[t]} = {x[1] : x \in held[t]} \ {p[1]}
  <2>1. \A x \in held[t] : x[1] = p[1] => x = p
    BY DEF Once
  <2>2. QED
    BY <1>2, <2>1
<1>4. p[1] \in Blocks
  BY <1>1, AtAre, WhereAre DEF Homes
<1>5. QED
  BY <1>1, <1>2, <1>3, <1>4 DEF ClassKept

\* A thread between calls has nothing to push.
LEMMA IdleTodo ==
  ASSUME Going, NEW t \in Threads, r[t].pc \in {"idle", "get"}
  PROVE  r[t].todo = <<>> /\ Elements(r[t].todo) = {} /\ At(<<"todo", t>>) = {}
<1>1. r[t].todo = <<>>
  BY DEF Going, Core, Shape
<1>2. QED
  BY <1>1, ElementsEmpty, AtAre

\* A call that pushes blocks.
LEMMA PushingIs ==
  ASSUME NEW c \in Classes, NEW z \in Seq(Nat), z # <<>>
  PROVE  LET q == Pushing(z, c) IN
         /\ q \in Rec /\ q.pc = "push_link" /\ q.op = "free" /\ q.try = 0 /\ q.cls = c
         /\ q.todo = z /\ Shape(q)
<1> DEFINE q == Pushing(z, c)
<1>1. "push_link" \in Pcs /\ "free" \in Ops
  BY DEF Pcs, Ops
<1>2. q = SetPush(Idle, "push_link", "free", c, z)
  BY DEF Pushing, SetPush
<1>3. q \in Rec /\ q.pc = "push_link" /\ q.op = "free" /\ q.try = 0 /\ q.cls = c /\ q.todo = z
  BY <1>1, <1>2, IdleRec, SetPushIs
<1> HIDE DEF q
<1>4. Shape(q)
  BY <1>3 DEF Shape, Allocs
<1>5. QED
  BY <1>3, <1>4 DEF q

LEMMA DeallocateInv ==
  ASSUME Going, NEW t \in Threads, Deallocate(t)
  PROVE  PoolsInv'
<1> USE DEF Going, Core
<1>1. PICK p \in held[t] : /\ held' = [held EXCEPT ![t] = @ \ {p}]
                           /\ r' = [r EXCEPT ![t] = Pushing(<<p[1]>>, IndexFor(p[2]))]
  BY DEF Deallocate, Become
<1>2. /\ r[t].pc = "idle"
      /\ UNCHANGED <<design, head, next, class, chunks, stack, stale, stolen, fate, cache, tls, dropped>>
  BY DEF Deallocate, Start
<1> DEFINE b == p[1]
           z == <<b>>
           c1 == IndexFor(p[2])
           q == Pushing(z, c1)
<1>3. /\ held' \in [Threads -> SUBSET (Nat \X Asked)]
      /\ \A u \in Threads : held'[u] \subseteq held[u] /\ (u # t => held'[u] = held[u])
      /\ {x[1] : x \in held'[t]} = {x[1] : x \in held[t]} \ {b}
      /\ b \in Nat /\ b \in Blocks /\ p[2] \in Asked /\ class[b] = IndexFor(p[2])
      /\ b \in {x[1] : x \in held[t]}
  BY <1>1, HeldOut
<1>4. /\ q \in Rec /\ q.pc = "push_link" /\ q.try = 0 /\ q.cls = IndexFor(p[2])
      /\ q.todo = <<b>> /\ Shape(q)
  <2>1. IndexFor(p[2]) \in Classes
    BY <1>3, AskedFits
  <2>2. <<b>> \in Seq(Nat) /\ <<b>> # <<>>
    BY <1>3, ElementsOne
  <2>3. z \in Seq(Nat) /\ z # <<>> /\ c1 \in Classes
    BY <2>1, <2>2
  <2> HIDE DEF z, c1
  <2>4. /\ q \in Rec /\ q.pc = "push_link" /\ q.try = 0 /\ q.cls = c1 /\ q.todo = z
        /\ Shape(q)
    BY <2>3, PushingIs
  <2>5. QED
    BY <2>4 DEF z, c1
<1>5. /\ r' = [r EXCEPT ![t] = q] /\ r'[t] = q
      /\ \A u \in Threads : u # t => r'[u] = r[u]
  BY <1>1 DEF Types
<1> HIDE DEF q, b
<1>6. Elements(q.todo) = {b} /\ Distinct(q.todo)
  BY <1>3, <1>4, ElementsOne
<1>7. Homes'
  <2> DEFINE v == <<"held", t>>
             w == <<"todo", t>>
             V == {v, w}
  <2>1. v \in Where /\ w \in Where /\ v # w
    BY WhereAre
  <2>2. At(v) = {x[1] : x \in held[t]} /\ At(v)' = At(v) \ {b}
    BY <1>3, AtAre
  <2>3. At(w)' = At(w) \cup {b}
    <3>1. At(w) = {}
      BY <1>2, IdleTodo
    <3>2. At(w)' = Elements(r'[t].todo)
      BY AtAre
    <3>3. QED
      BY <1>5, <1>6, <3>1, <3>2
  <2>4. Blocks' = Blocks
    BY <1>2 DEF Blocks
  <2>5. \A x \in Where : x \notin V => At(x)' = At(x)
    <3>1. /\ \A c \in Classes : stack'[c] = stack[c]
          /\ \A u \in Threads : /\ <<"held", u>> \notin V => held'[u] = held[u]
                                /\ cache'[u] = cache[u]
                                /\ <<"todo", u>> \notin V => r'[u].todo = r[u].todo
          /\ dropped' = dropped
      BY <1>2, <1>3, <1>5
    <3> HIDE DEF V
    <3>2. QED
      BY <3>1, AtElsewhere
  <2> DEFINE S == {b}
  <2>6. /\ S \subseteq At(v) /\ At(v)' = At(v) \ S /\ At(w)' = At(w) \cup S
        /\ \A x \in Where : x # v /\ x # w => At(x)' = At(x)
    BY <1>3, <2>2, <2>3, <2>5
  <2> HIDE DEF v, w, S
  <2>7. QED
    BY <2>1, <2>4, <2>6, HomesMoved
<1>8. Once'
  <2>1. \A u \in Threads : Distinct(r'[u].todo)
    BY <1>5, <1>6 DEF Once
  <2>2. QED
    BY <1>2, <1>3, <2>1 DEF Once
<1>9. ClassKept'
  <2>1. \A u \in Threads : \A x \in Elements(r'[u].todo) : class[x] = r'[u].cls
    BY <1>3, <1>4, <1>5, <1>6 DEF ClassKept
  <2>2. QED
    BY <1>2, <1>3, <2>1 DEF ClassKept
<1>10. /\ q.try # 3 /\ q.pc \notin {"push_cas", "pop_next", "pop_cas"}
       /\ cache' \in [Threads -> Seq(Nat)]
  BY <1>2, <1>4 DEF Types
<1>11. QED
  BY <1>2, <1>3, <1>4, <1>5, <1>7, <1>8, <1>9, <1>10, MoveStep

\* A pool without size classes serves one size, of the first class.
LEMMA OneSize ==
  ASSUME design # "slab"
  PROVE  Asked = {16} /\ kSizes[1] = 16 /\ IndexFor(16) = 1
BY SizesAre, IndexForFirst DEF Asked

\* The blocks held with one more.
LEMMA HeldIn ==
  ASSUME NEW A, NEW p
  PROVE  {x[1] : x \in A \cup {p}} = {x[1] : x \in A} \cup {p[1]}
OBVIOUS

LEMMA GetBackInv ==
  ASSUME Going, NEW t \in Threads, GetBack(t)
  PROVE  PoolsInv'
<1> USE DEF Going, Core
<1>1. /\ r[t].pc = "get"
      /\ UNCHANGED <<design, head, next, class, chunks, tls, stack, stale, stolen, dropped, fate>>
  BY DEF GetBack
<1>2. design # "slab" /\ Asked = {16} /\ kSizes[1] = 16 /\ IndexFor(16) = 1
  <2>1. design # "slab"
    BY <1>1 DEF Shape
  <2>2. QED
    BY <2>1, OneSize
<1>3. CASE cache[t] = <<>>
  <2> DEFINE q == SetSize(Refilling("alloc"), 16)
  <2>1. /\ q \in Rec /\ q.todo = <<>> /\ q.cls = 1 /\ q.try = 1
        /\ q.pc = "pop_load" /\ q.op = "alloc" /\ q.size = 16
    <3>1. "alloc" \in Allocs /\ 16 \in Nat
      BY DEF Allocs
    <3>2. /\ Refilling("alloc") \in Rec /\ Refilling("alloc").pc = "pop_load"
          /\ Refilling("alloc").op = "alloc" /\ Refilling("alloc").try = 1
          /\ Refilling("alloc").cls = 1 /\ Refilling("alloc").todo = <<>>
      BY <3>1, RefillingIs
    <3> DEFINE i == Refilling("alloc")
               z == SetSize(i, 16)
    <3> HIDE DEF i
    <3>3. /\ z \in Rec /\ z.pc = "pop_load" /\ z.op = "alloc" /\ z.try = 1 /\ z.cls = 1
          /\ z.todo = <<>> /\ z.size = 16
      BY <3>1, <3>2, SetSizeIs DEF i
    <3>4. q = z
      BY DEF i
    <3> HIDE DEF z, q
    <3>5. QED
      BY <3>3, <3>4
  <2>2. r' = [r EXCEPT ![t] = q] /\ UNCHANGED <<held, cache>>
    BY <1>2, <1>3 DEF GetBack, Become, SetSize
  <2> HIDE DEF q
  <2>3. Undisturbed(t)
    BY <1>1, <2>2 DEF Undisturbed, Types, ClassKept
  <2>4. Shape(q)
    BY <1>2, <2>1 DEF Shape, Allocs
  <2>5. /\ q.try # 3 /\ q.pc \notin {"push_link", "push_cas", "pop_next", "pop_cas"}
        /\ r[t].pc \notin {"push_link", "push_cas"}
    BY <1>1, <2>1
  <2>6. QED
    BY <2>1, <2>2, <2>3, <2>4, <2>5, QuietStep
<1>4. CASE cache[t] # <<>>
  <2> DEFINE b == cache[t][Len(cache[t])]
             z == SubSeq(cache[t], 1, Len(cache[t]) - 1)
             p == <<b, 16>>
  <2>1. /\ held' = [held EXCEPT ![t] = @ \cup {p}]
        /\ cache' = [cache EXCEPT ![t] = z]
        /\ r' = [r EXCEPT ![t] = Idle]
    BY <1>2, <1>4 DEF GetBack, Become
  <2>2. cache[t] \in Seq(Nat) /\ Distinct(cache[t])
    BY DEF Types, Once
  <2>3. /\ z \in Seq(Nat) /\ Distinct(z) /\ b \in Elements(cache[t]) /\ b \in Nat
        /\ Elements(z) = Elements(cache[t]) \ {b}
    BY <1>4, <2>2, ElementsFront
  <2>14. p[1] = b /\ p[2] = 16 /\ p \in Nat \X Asked
    BY <1>2, <2>3
  <2> HIDE DEF b, z, p
  <2>4. /\ held'[t] = held[t] \cup {p} /\ cache'[t] = z /\ r'[t] = Idle
        /\ \A u \in Threads : u # t => /\ held'[u] = held[u] /\ cache'[u] = cache[u]
                                       /\ r'[u] = r[u]
        /\ held' \in [Threads -> SUBSET (Nat \X Asked)] /\ cache' \in [Threads -> Seq(Nat)]
    BY <1>2, <2>1, <2>3, <2>14 DEF Types
  <2>5. \A u \in Threads : r'[u].todo = r[u].todo
    BY <1>1, <2>4, IdleTodo, IdleRec
  <2> DEFINE v == <<"cache", t>>
             w == <<"held", t>>
  <2>6. v \in Where /\ w \in Where /\ v # w
    BY WhereAre
  <2>7. b \in At(v) /\ At(v)' = At(v) \ {b}
    BY <2>3, <2>4, AtAre
  <2>8. At(w)' = At(w) \cup {b}
    <3>1. At(w) = {x[1] : x \in held[t]} /\ At(w)' = {x[1] : x \in held'[t]}
      BY AtAre
    <3>2. {x[1] : x \in held[t] \cup {p}} = {x[1] : x \in held[t]} \cup {p[1]}
      BY HeldIn
    <3>3. {x[1] : x \in held'[t]} = {x[1] : x \in held[t]} \cup {b}
      BY <2>4, <2>14, <3>2, Zenon
    <3>4. QED
      BY <3>1, <3>3, Zenon
  <2>9. Homes'
    <3>1. Blocks' = Blocks
      BY <1>1 DEF Blocks
    <3> DEFINE V == {v, w}
    <3>2. \A x \in Where : x \notin V => At(x)' = At(x)
      <4>1. /\ \A c \in Classes : stack'[c] = stack[c]
            /\ \A u \in Threads : /\ <<"held", u>> \notin V => held'[u] = held[u]
                                  /\ <<"cache", u>> \notin V => cache'[u] = cache[u]
            /\ dropped' = dropped
        BY <1>1, <2>4
      <4> HIDE DEF V
      <4>2. QED
        BY <2>5, <4>1, AtElsewhere
    <3> DEFINE S == {b}
    <3>3. /\ S \subseteq At(v) /\ At(v)' = At(v) \ S /\ At(w)' = At(w) \cup S
          /\ \A x \in Where : x # v /\ x # w => At(x)' = At(x)
      BY <2>7, <2>8, <3>2
    <3> HIDE DEF v, w, S
    <3>4. QED
      BY <2>6, <3>1, <3>3, HomesMoved
  <2>10. Once'
    <3>1. b \notin At(w)
      BY <2>6, <2>7, HomeOnly
    <3>2. \A x \in held[t] : x[1] # b
      BY <3>1, AtAre
    <3>3. \A x, y \in held'[t] : x[1] = y[1] => x = y
      BY <2>4, <2>14, <3>2 DEF Once
    <3>4. \A u \in Threads : Distinct(cache'[u]) /\ \A x, y \in held'[u] : x[1] = y[1] => x = y
      BY <2>3, <2>4, <3>3 DEF Once
    <3>5. QED
      BY <1>1, <2>5, <3>4 DEF Once
  <2>11. ClassKept'
    <3>1. class[b] = 1
      BY <2>3 DEF ClassKept
    <3>2. \A u \in Threads : \A x \in held'[u] : class[x[1]] = IndexFor(x[2])
      BY <1>2, <2>4, <2>14, <3>1 DEF ClassKept
    <3>3. \A u \in Threads : \A x \in Elements(cache'[u]) : class[x] = 1
      BY <2>3, <2>4 DEF ClassKept
    <3>4. \A u \in Threads : \A x \in Elements(r'[u].todo) : class[x] = r'[u].cls
      <4>1. Elements(r'[t].todo) = {}
        BY <1>1, <2>5, IdleTodo
      <4>2. \A u \in Threads : u # t => \A x \in Elements(r'[u].todo) : class[x] = r'[u].cls
        <5>1. \A u \in Threads : u # t => r'[u] = r[u]
          BY <2>4 DEF Types
        <5>2. QED
          BY <5>1 DEF ClassKept
      <4>3. QED
        BY <4>1, <4>2
    <3>5. QED
      BY <1>1, <3>2, <3>3, <3>4 DEF ClassKept
  <2>12. Idle \in Rec /\ Shape(Idle) /\ Idle.try # 3 /\ Idle.pc \notin {"push_cas", "pop_next", "pop_cas"}
    BY IdleRec
  <2>13. QED
    BY <1>1, <2>1, <2>4, <2>9, <2>10, <2>11, <2>12, MoveStep
<1>5. QED
  BY <1>3, <1>4

\* The underflow of memory_pool.hpp: the behaviour ends, and nothing but what the
\* client got is different.
LEMMA GetUnderflowInv ==
  ASSUME Going, NEW t \in Threads, GetUnderflow(t)
  PROVE  PoolsInv'
<1> USE DEF Going, Core
<1>1. fate' = "underflow" /\ UNCHANGED <<design, head, next, class, chunks, stack>>
  BY DEF GetUnderflow
<1>2. \A c \in Classes : Linked(c)'
  BY <1>1 DEF Linked
<1>3. ChunkLimit'
  BY <1>1 DEF ChunkLimit
<1>4. FitsRequest'
  <2>1. ASSUME NEW b \in Blocks
        PROVE  16 <= kSizes[class[b]]
    <3>1. class[b] \in Classes
      BY DEF Types, Blocks
    <3>2. QED
      BY <3>1, SizesAre
  <2>2. \A u \in Threads : \A p \in held'[u] :
          p \in held[u] \/ \E b \in Blocks : p = <<b, 16>>
    <3>1. kSizes[1] = 16 /\ held \in [Threads -> SUBSET (Nat \X Asked)]
      BY SizesAre DEF Types
    <3>2. CASE UNCHANGED held
      BY <3>2
    <3>3. ASSUME NEW b \in Blocks, held' = [held EXCEPT ![t] = @ \cup {<<b, kSizes[1]>>}]
          PROVE  \A u \in Threads : \A p \in held'[u] : p \in held[u] \/ p = <<b, 16>>
      <4>1. held' = [held EXCEPT ![t] = held[t] \cup {<<b, 16>>}]
        BY <3>1, <3>3
      <4>2. \A u \in Threads : held'[u] = IF u = t THEN held[t] \cup {<<b, 16>>} ELSE held[u]
        BY <3>1, <4>1
      <4>3. QED
        BY <4>2
    <3>4. QED
      BY <3>2, <3>3 DEF GetUnderflow
  <2>3. SUFFICES ASSUME NEW u \in Threads, NEW p \in held'[u]
                 PROVE  p[2] <= kSizes[class[p[1]]]
    BY <1>1 DEF FitsRequest
  <2>4. CASE p \in held[u]
    BY <2>4 DEF FitsRequest
  <2>5. CASE \E b \in Blocks : p = <<b, 16>>
    BY <2>1, <2>5
  <2>6. QED
    BY <2>2, <2>4, <2>5
<1>5. QED
  BY <1>1, <1>2, <1>3, <1>4 DEF PoolsInv

\* The blocks of a cache leave it together, for the free list or for nowhere.
LEMMA CacheEmptied ==
  ASSUME Going, NEW t \in Threads, NEW q \in Rec, NEW w,
         r[t].todo = <<>>, design # "slab",
         UNCHANGED <<design, head, next, class, chunks, stack, stale, stolen, fate, held>>,
         cache' = [cache EXCEPT ![t] = <<>>], r' = [r EXCEPT ![t] = q],
         q.try = 0, Shape(q), q.pc \in {"idle", "push_link"}, q.cls = 1,
         \/ q.todo = <<>> /\ dropped' = dropped \cup Elements(cache[t]) /\ w = <<"dropped", 0>>
         \/ q.todo = cache[t] /\ dropped' = dropped /\ w = <<"todo", t>>
  PROVE  PoolsInv'
<1> USE DEF Going, Core
<1>1. UNCHANGED <<design, head, next, class, chunks, stack, stale, stolen, fate, held>>
  OBVIOUS
<1>2. /\ cache'[t] = <<>> /\ cache' \in [Threads -> Seq(Nat)]
      /\ \A u \in Threads : u # t => cache'[u] = cache[u]
  BY <1>1, ElementsEmpty DEF Types
<1>3. cache[t] \in Seq(Nat) /\ Distinct(cache[t]) /\ 1 \in Classes
  BY SizesAre DEF Types, Once
<1> DEFINE z == cache[t]
           S == Elements(z)
           v == <<"cache", t>>
<1>5. /\ q \in Rec /\ q.try = 0 /\ Shape(q) /\ q.pc \in {"idle", "push_link"} /\ q.cls = 1
      /\ \/ q.todo = <<>> /\ dropped' = dropped \cup S /\ w = <<"dropped", 0>>
         \/ q.todo = z /\ dropped' = dropped /\ w = <<"todo", t>>
  OBVIOUS
<1>6. r'[t] = q /\ \A u \in Threads : u # t => r'[u] = r[u]
  BY DEF Types
<1>7. r[t].todo = <<>> /\ At(<<"todo", t>>) = {}
  BY ElementsEmpty, AtAre
<1> HIDE DEF z
<1>8. Homes'
  <2>1. v \in Where /\ w \in Where /\ v # w
    <3>1. w = <<"dropped", 0>> \/ w = <<"todo", t>>
      BY <1>5
    <3>2. <<"cache", t>> # <<"dropped", 0>> /\ <<"cache", t>> # <<"todo", t>>
      OBVIOUS
    <3>3. QED
      BY <3>1, <3>2, WhereAre
  <2>2. At(v) = S /\ At(v)' = {}
    BY <1>2, AtAre, ElementsEmpty DEF z
  <2>3. At(w)' = At(w) \cup S
    <3>1. CASE w = <<"dropped", 0>>
      BY <1>5, <3>1, AtAre
    <3>2. CASE w = <<"todo", t>>
      <4>1. q.todo = z
        BY <1>5, <3>2
      <4>2. At(w)' = Elements(r'[t].todo)
        BY <3>2, AtAre
      <4>3. QED
        BY <1>6, <1>7, <3>2, <4>1, <4>2
    <3>3. QED
      BY <1>5, <3>1, <3>2
  <2>4. Blocks' = Blocks
    BY <1>1 DEF Blocks
  <2> DEFINE V == {v, w}
  <2>5. \A x \in Where : x \notin V => At(x)' = At(x)
    <3>1. /\ \A c \in Classes : stack'[c] = stack[c]
          /\ \A u \in Threads : /\ held'[u] = held[u]
                                /\ <<"cache", u>> \notin V => cache'[u] = cache[u]
      BY <1>1, <1>2
    <3>2. \A u \in Threads : <<"todo", u>> \notin V => r'[u].todo = r[u].todo
      BY <1>5, <1>6, <1>7
    <3>3. <<"dropped", 0>> \notin V => dropped' = dropped
      BY <1>5
    <3> HIDE DEF V
    <3>4. QED
      BY <3>1, <3>2, <3>3, AtElsewhere
  <2>6. /\ S \subseteq At(v) /\ At(v)' = At(v) \ S
        /\ \A x \in Where : x # v /\ x # w => At(x)' = At(x)
    BY <2>2, <2>5
  <2> HIDE DEF v, S
  <2>7. QED
    BY <2>1, <2>3, <2>4, <2>6, HomesMoved
<1>9. Once'
  <2>1. Distinct(q.todo)
    BY <1>3, <1>5, ElementsEmpty DEF z
  <2>2. \A u \in Threads : Distinct(cache'[u]) /\ Distinct(r'[u].todo)
    BY <1>2, <1>6, <2>1, ElementsEmpty DEF Once
  <2>3. QED
    BY <1>1, <2>2 DEF Once
<1>10. ClassKept'
  <2>1. \A x \in Elements(q.todo) : class[x] = 1
    BY <1>5, ElementsEmpty DEF ClassKept, z
  <2>2. \A u \in Threads : /\ \A x \in Elements(cache'[u]) : class[x] = 1
                           /\ \A x \in Elements(r'[u].todo) : class[x] = r'[u].cls
    <3>1. Elements(cache'[t]) = {}
      BY <1>2, ElementsEmpty
    <3>2. \A x \in Elements(r'[t].todo) : class[x] = r'[t].cls
      BY <1>5, <1>6, <2>1
    <3>3. ASSUME NEW u \in Threads, u # t
          PROVE  /\ \A x \in Elements(cache'[u]) : class[x] = 1
                 /\ \A x \in Elements(r'[u].todo) : class[x] = r'[u].cls
      <4>1. cache'[u] = cache[u] /\ r'[u] = r[u]
        BY <1>2, <1>6, <3>3
      <4>2. QED
        BY <4>1 DEF ClassKept
    <3>4. QED
      BY <3>1, <3>2, <3>3
  <2>3. \A u \in Threads : tls'[u] = "live" => design # "slab"
    OBVIOUS
  <2>4. QED
    BY <1>1, <2>2, <2>3 DEF ClassKept
<1>11. /\ q.try # 3 /\ q.pc \notin {"push_cas", "pop_next", "pop_cas"}
       /\ held' \in [Threads -> SUBSET (Nat \X Asked)]
  BY <1>1, <1>5 DEF Types
<1>12. QED
  BY <1>1, <1>2, <1>5, <1>8, <1>9, <1>10, <1>11, MoveStep

LEMMA DropCacheInv ==
  ASSUME Going, NEW t \in Threads, DropCache(t)
  PROVE  PoolsInv'
<1> USE DEF Going, Core
<1>1. /\ r[t].pc = "idle" /\ design # "slab"
      /\ UNCHANGED <<design, head, next, class, chunks, stack, stale, stolen, fate, held>>
      /\ cache' = [cache EXCEPT ![t] = <<>>]
  BY DEF DropCache, Start, ClassKept
<1>2. cache[t] \in Seq(Nat) /\ 1 \in Classes
  BY SizesAre DEF Types
<1>3. r[t].todo = <<>>
  BY <1>1, IdleTodo
<1>4. CASE design = "bridge" \/ cache[t] = <<>>
  <2>1. r' = [r EXCEPT ![t] = Idle] /\ dropped' = dropped \cup Elements(cache[t])
    BY <1>4 DEF DropCache, Become, Elements
  <2>2. Idle \in Rec /\ Idle.try = 0 /\ Shape(Idle) /\ Idle.pc = "idle" /\ Idle.cls = 1 /\ Idle.todo = <<>>
    BY IdleRec
  <2>3. QED
    BY <1>1, <1>3, <2>1, <2>2, CacheEmptied
<1>5. CASE ~(design = "bridge" \/ cache[t] = <<>>)
  <2> DEFINE q == Pushing(cache[t], 1)
  <2>1. r' = [r EXCEPT ![t] = q] /\ dropped' = dropped
    BY <1>5 DEF DropCache, Become
  <2>2. q \in Rec /\ q.try = 0 /\ Shape(q) /\ q.pc = "push_link" /\ q.cls = 1 /\ q.todo = cache[t]
    BY <1>2, <1>5, PushingIs
  <2> HIDE DEF q
  <2>3. QED
    BY <1>1, <1>3, <2>1, <2>2, CacheEmptied
<1>6. QED
  BY <1>4, <1>5

\* operator new throws out of a call: the blocks stay where they are, but for those
\* of a cache under construction.
LEMMA NewThrowsInv ==
  ASSUME Going, NEW t \in Threads, NewThrows(t)
  PROVE  PoolsInv'
<1> USE DEF Going, Core
<1>1. /\ r[t].pc \in {"lock", "expand"} /\ design # "slab"
      /\ UNCHANGED <<design, head, next, class, chunks, held, stack, stale, stolen, fate>>
      /\ r' = [r EXCEPT ![t] = Idle]
  BY DEF NewThrows, Leave, Become
<1>2. r[t].todo = <<>>
  BY <1>1 DEF Shape
<1>3. Idle \in Rec /\ Idle.try = 0 /\ Shape(Idle) /\ Idle.pc = "idle" /\ Idle.cls = 1 /\ Idle.todo = <<>>
  BY IdleRec
<1>4. CASE r[t].op = "fill"
  <2>1. cache' = [cache EXCEPT ![t] = <<>>] /\ dropped' = dropped \cup Elements(cache[t])
    BY <1>4 DEF NewThrows, Leave, Elements
  <2>2. QED
    BY <1>1, <1>2, <1>3, <2>1, CacheEmptied
<1>5. CASE r[t].op # "fill"
  <2>1. Undisturbed(t)
    BY <1>1, <1>5 DEF NewThrows, Leave, Undisturbed, Types, ClassKept
  <2>2. /\ Idle.try # 3 /\ Idle.pc \notin {"push_link", "push_cas", "pop_next", "pop_cas"}
        /\ r[t].pc \notin {"push_link", "push_cas"}
    BY <1>1, <1>3
  <2>3. QED
    BY <1>1, <1>3, <2>1, <2>2, QuietStep
<1>6. QED
  BY <1>4, <1>5

LEMMA PutInv ==
  ASSUME Going, NEW t \in Threads, Put(t)
  PROVE  PoolsInv'
<1> USE DEF Going, Core
<1>1. /\ r[t].pc = "idle" /\ tls[t] = "live"
      /\ UNCHANGED <<design, head, next, class, chunks, stack, stale, stolen, fate, tls, dropped>>
  BY DEF Put, Start
<1> DEFINE C == cache[t]
           limit == IF design = "bridge" THEN 2 * BatchSize ELSE BatchSize
<1>2. PICK p \in held[t] :
        LET full == IF design = "bridge" THEN Append(C, p[1]) ELSE C
            flush == Len(full) >= limit IN
        /\ held' = [held EXCEPT ![t] = @ \ {p}]
        /\ cache' = [cache EXCEPT ![t] = IF ~flush THEN Append(C, p[1])
                                         ELSE IF design = "bridge" THEN <<>> ELSE <<p[1]>>]
        /\ r' = [r EXCEPT ![t] = IF flush THEN Pushing(full, 1) ELSE Idle]
  BY DEF Put, Become
<1> DEFINE b == p[1]
<1>3. /\ held' \in [Threads -> SUBSET (Nat \X Asked)]
      /\ \A u \in Threads : held'[u] \subseteq held[u] /\ (u # t => held'[u] = held[u])
      /\ {x[1] : x \in held'[t]} = {x[1] : x \in held[t]} \ {b}
      /\ b \in Nat /\ b \in Blocks /\ p[2] \in Asked /\ class[b] = IndexFor(p[2])
      /\ b \in {x[1] : x \in held[t]}
  BY <1>2, HeldOut
<1>4. class[b] = 1
  <2>1. design # "slab"
    BY <1>1 DEF ClassKept
  <2>2. QED
    BY <1>3, <2>1, OneSize
<1>5. C \in Seq(Nat) /\ Distinct(C) /\ 1 \in Classes /\ limit \in Nat /\ limit > 0
  <2>1. C \in Seq(Nat) /\ Distinct(C) /\ 1 \in Classes
    BY SizesAre DEF Types, Once
  <2>2. BatchSize \in Nat /\ BatchSize > 0
    BY PoolsAssumption
  <2>3. QED
    BY <2>1, <2>2
<1>6. b \notin Elements(C)
  <2>1. <<"held", t>> \in Where /\ <<"cache", t>> \in Where /\ <<"held", t>> # <<"cache", t>>
    BY WhereAre
  <2>2. b \in At(<<"held", t>>) /\ At(<<"cache", t>>) = Elements(C)
    BY <1>3, AtAre
  <2>3. QED
    BY <2>1, <2>2, HomeOnly
<1> DEFINE A == Append(C, b)
<1>7. A \in Seq(Nat) /\ Len(A) > 0 /\ Distinct(A) /\ Elements(A) = Elements(C) \cup {b}
  <2>1. /\ A \in Seq(Nat) /\ Len(A) = Len(C) + 1 /\ Distinct(A)
        /\ Elements(A) = Elements(C) \cup {b}
    BY <1>3, <1>5, <1>6, ElementsAppend
  <2>2. QED
    BY <1>5, <2>1
<1>8. /\ <<b>> \in Seq(Nat) /\ Elements(<<b>>) = {b} /\ Distinct(<<b>>)
  BY <1>3, ElementsOne
<1>9. PICK z, q : /\ cache' = [cache EXCEPT ![t] = z] /\ r' = [r EXCEPT ![t] = q]
                  /\ \/ z = A /\ q = Idle
                     \/ z = <<>> /\ q = Pushing(A, 1)
                     \/ z = <<b>> /\ q = Pushing(C, 1) /\ Len(C) > 0
  <2>1. design = "bridge" \/ design # "bridge"
    OBVIOUS
  <2>2. Len(C) \in Nat
    BY <1>5
  <2> HIDE DEF A, b, C, limit
  <2>3. Len(C) >= limit => Len(C) > 0
    BY <1>5, <2>2
  <2>4. QED
    BY <1>2, <2>1, <2>3, Zenon DEF A, b
<1> HIDE DEF A, b, limit
<1>10. /\ z \in Seq(Nat) /\ Distinct(z) /\ q \in Rec /\ Shape(q) /\ q.try = 0
       /\ q.pc \in {"idle", "push_link"} /\ q.cls = 1 /\ q.todo \in Seq(Nat) /\ Distinct(q.todo)
       /\ Elements(z) \cup Elements(q.todo) = Elements(C) \cup {b}
       /\ Elements(z) \cap Elements(q.todo) = {}
  <2>1. CASE z = A /\ q = Idle
    BY <1>7, <2>1, IdleRec, ElementsEmpty
  <2>2. CASE z = <<>> /\ q = Pushing(A, 1)
    <3>1. A # <<>>
      BY <1>7
    <3>2. q \in Rec /\ q.pc = "push_link" /\ q.try = 0 /\ q.cls = 1 /\ q.todo = A /\ Shape(q)
      BY <1>5, <1>7, <2>2, <3>1, PushingIs
    <3>3. QED
      BY <1>7, <2>2, <3>2, ElementsEmpty
  <2>3. CASE z = <<b>> /\ q = Pushing(C, 1) /\ Len(C) > 0
    <3>1. C # <<>>
      BY <2>3
    <3>2. q \in Rec /\ q.pc = "push_link" /\ q.try = 0 /\ q.cls = 1 /\ q.todo = C /\ Shape(q)
      BY <1>5, <2>3, <3>1, PushingIs
    <3>3. QED
      BY <1>5, <1>6, <1>8, <2>3, <3>2
  <2>4. QED
    BY <1>9, <2>1, <2>2, <2>3
<1>11. /\ cache'[t] = z /\ cache' \in [Threads -> Seq(Nat)] /\ r'[t] = q
       /\ \A u \in Threads : u # t => cache'[u] = cache[u] /\ r'[u] = r[u]
  BY <1>9, <1>10 DEF Types
<1>12. Homes'
  <2> DEFINE w1 == <<"held", t>>
             w2 == <<"cache", t>>
             w3 == <<"todo", t>>
             V == {w1, w2, w3}
  <2>1. V \in SUBSET Where /\ w1 # w2 /\ w1 # w3 /\ w2 # w3
    BY WhereAre
  <2>2. /\ At(w1)' = At(w1) \ {b} /\ b \in At(w1)
        /\ At(w2) = Elements(C) /\ At(w2)' = Elements(z)
    BY <1>3, <1>11, AtAre
  <2>3. At(w3) = {} /\ At(w3)' = Elements(q.todo)
    <3>1. At(w3) = {}
      BY <1>1, IdleTodo
    <3>2. At(w3)' = Elements(r'[t].todo)
      BY AtAre
    <3>3. QED
      BY <1>11, <3>1, <3>2
  <2>4. Blocks' = Blocks
    BY <1>1 DEF Blocks
  <2>5. \A x \in Where : x \notin V => At(x)' = At(x)
    <3>1. /\ \A c \in Classes : stack'[c] = stack[c]
          /\ \A u \in Threads : /\ <<"held", u>> \notin V => held'[u] = held[u]
                                /\ <<"cache", u>> \notin V => cache'[u] = cache[u]
                                /\ <<"todo", u>> \notin V => r'[u].todo = r[u].todo
          /\ dropped' = dropped
      BY <1>1, <1>3, <1>11
    <3> HIDE DEF V
    <3>2. QED
      BY <3>1, AtElsewhere
  <2>6. \A x : x \in At(w1) /\ x \in At(w2) => FALSE
    BY <2>1, HomeOnly
  <2> HIDE DEF w1, w2, w3
  <2>7. \A x : (\E v \in V : x \in At(v)') <=> (x \in Blocks' \ Blocks \/ \E v \in V : x \in At(v))
    BY <1>10, <2>2, <2>3, <2>4
  <2>8. \A v, w \in V : \A x : x \in At(v)' /\ x \in At(w)' => v = w
    <3>1. \A x : x \in At(w1)' => x \notin At(w2)' /\ x \notin At(w3)'
      BY <1>10, <2>2, <2>3, <2>6
    <3>2. \A x : x \in At(w2)' => x \notin At(w3)'
      BY <1>10, <2>2, <2>3
    <3>3. QED
      BY <3>1, <3>2
  <2> HIDE DEF V
  <2>9. QED
    BY <2>1, <2>4, <2>5, <2>7, <2>8, HomesShuffled
<1>13. Once'
  <2>1. \A u \in Threads : Distinct(cache'[u]) /\ Distinct(r'[u].todo)
    BY <1>10, <1>11 DEF Once
  <2>2. QED
    BY <1>1, <1>3, <2>1 DEF Once
<1>14. ClassKept'
  <2>1. \A x \in Elements(z) \cup Elements(q.todo) : class[x] = 1
    BY <1>4, <1>10 DEF ClassKept
  <2>2. \A u \in Threads : /\ \A x \in Elements(cache'[u]) : class[x] = 1
                           /\ \A x \in Elements(r'[u].todo) : class[x] = r'[u].cls
    <3>1. ASSUME NEW u \in Threads, u # t
          PROVE  /\ \A x \in Elements(cache'[u]) : class[x] = 1
                 /\ \A x \in Elements(r'[u].todo) : class[x] = r'[u].cls
      <4>1. cache'[u] = cache[u] /\ r'[u] = r[u]
        BY <1>11, <3>1
      <4>2. QED
        BY <4>1 DEF ClassKept
    <3>2. /\ \A x \in Elements(cache'[t]) : class[x] = 1
          /\ \A x \in Elements(r'[t].todo) : class[x] = r'[t].cls
      BY <1>10, <1>11, <2>1
    <3>3. QED
      BY <3>1, <3>2
  <2>3. QED
    BY <1>1, <1>3, <2>2 DEF ClassKept
<1>15. /\ q.try # 3 /\ q.pc \notin {"push_cas", "pop_next", "pop_cas"}
  BY <1>10
<1>16. QED
  BY <1>1, <1>3, <1>9, <1>10, <1>11, <1>12, <1>13, <1>14, <1>15, MoveStep

-----------------------------------------------------------------------------
(* Steps on the free lists *)

\* The operating system provided the blocks that are free or about to be pushed.
LEMMA PlacedWithin ==
  ASSUME Going
  PROVE  /\ \A c \in Classes : Elements(stack[c]) \subseteq 1..MaxBlocks
         /\ \A t \in Threads : Elements(r[t].todo) \subseteq 1..MaxBlocks
<1>1. Blocks \subseteq 1..MaxBlocks
  BY PoolsAssumption DEF Going, Core, Types, Blocks
<1>2. ASSUME NEW c \in Classes
      PROVE  Elements(stack[c]) \subseteq Blocks
  BY WhereAre, AtAre DEF Going, Core, Homes
<1>3. ASSUME NEW t \in Threads
      PROVE  Elements(r[t].todo) \subseteq Blocks
  BY WhereAre, AtAre DEF Going, Core, Homes
<1>4. QED
  BY <1>1, <1>2, <1>3

\* Blocks of the free lists are not about to be pushed.
LEMMA TodoNotFree ==
  ASSUME Going, NEW t \in Threads, NEW b \in Elements(r[t].todo)
  PROVE  /\ \A c \in Classes : b \notin Elements(stack[c])
         /\ \A u \in Threads : u # t => b \notin Elements(r[u].todo)
         /\ b \in Blocks /\ b \in 1..MaxBlocks
<1> USE DEF Going, Core
<1>1. <<"todo", t>> \in Where /\ b \in At(<<"todo", t>>)
  BY WhereAre, AtAre
<1>2. ASSUME NEW c \in Classes
      PROVE  b \notin Elements(stack[c])
  <2>1. <<"free", c>> \in Where /\ <<"free", c>> # <<"todo", t>>
    BY WhereAre
  <2>2. b \notin At(<<"free", c>>)
    BY <1>1, <2>1, HomeOnly
  <2>3. QED
    BY <2>2, AtAre
<1>3. ASSUME NEW u \in Threads, u # t
      PROVE  b \notin Elements(r[u].todo)
  <2>1. <<"todo", u>> \in Where /\ <<"todo", u>> # <<"todo", t>>
    BY <1>3, WhereAre
  <2>2. b \notin At(<<"todo", u>>)
    BY <1>1, <2>1, HomeOnly
  <2>3. QED
    BY <2>2, AtAre
<1>4. b \in Blocks
  BY <1>1 DEF Homes
<1>5. b \in 1..MaxBlocks
  BY <1>4, PoolsAssumption DEF Blocks, Types
<1>6. QED
  BY <1>2, <1>3, <1>4, <1>5

LEMMA PushLinkInv ==
  ASSUME Going, NEW t \in Threads, PushLink(t)
  PROVE  PoolsInv'
<1> USE DEF Going, Core
<1>1. /\ r[t].pc = "push_link"
      /\ UNCHANGED <<design, head, class, chunks, held, cache, tls, stack, stale, stolen, dropped, fate>>
  BY DEF PushLink, Quiet, Unmoved
<1>2. r[t] \in Rec /\ r[t].cls \in Classes /\ r[t].todo \in Seq(Nat) /\ r[t].todo # <<>>
  BY <1>1 DEF Types, Rec, Shape
<1> DEFINE b == r[t].todo[1]
           h == head[r[t].cls]
           q == SetHead(r[t], "push_cas", h)
<1>3. /\ q \in Rec /\ q.pc = "push_cas" /\ q.h = h /\ q.op = r[t].op
      /\ q.cls = r[t].cls /\ q.size = r[t].size /\ q.todo = r[t].todo /\ q.try = r[t].try
  <2>1. h \in Links /\ "push_cas" \in Pcs
    BY <1>2 DEF Types, Pcs
  <2>2. QED
    BY <1>2, <2>1, SetHeadIs
<1>4. r' = [r EXCEPT ![t] = q] /\ next' = [next EXCEPT ![b] = h]
  BY <1>2 DEF PushLink, Become, SetHead
<1> HIDE DEF q
<1>5. r'[t] = q /\ r' \in [Threads -> Rec] /\ \A u \in Threads : u # t => r'[u] = r[u]
  BY <1>3, <1>4 DEF Types
<1>6. b \in Elements(r[t].todo)
  <2>1. 1 \in 1..Len(r[t].todo)
    BY <1>2
  <2>2. QED
    BY <2>1, ElementsAre
<1>7. /\ \A c \in Classes : b \notin Elements(stack[c])
      /\ \A u \in Threads : u # t => b \notin Elements(r[u].todo)
      /\ b \in 1..MaxBlocks
  BY <1>6, TodoNotFree
<1>8. h \in Links
  BY <1>2 DEF Types
<1> HIDE DEF b, h
<1>9. /\ next' \in [1..MaxBlocks -> Links] /\ next'[b] = h
      /\ \A x \in 1..MaxBlocks : x # b => next'[x] = next[x]
  BY <1>4, <1>7, <1>8 DEF Types
<1>10. AtLimit' = AtLimit /\ NextChunk' = NextChunk /\ Asked' = Asked /\ Blocks' = Blocks
  BY <1>1 DEF AtLimit, NextChunk, Asked, Blocks
<1>11. \A u \in Threads : r'[u].todo = r[u].todo /\ r'[u].cls = r[u].cls /\ r'[u].try = r[u].try
  BY <1>3, <1>5
<1>12. Types'
  BY <1>1, <1>5, <1>9, <1>10 DEF Types
<1>13. Homes'
  <2> DEFINE None == {}
  <2>1. \A w \in Where : w \notin None => At(w)' = At(w)
    <3>1. /\ \A c \in Classes : stack'[c] = stack[c]
          /\ \A u \in Threads : held'[u] = held[u] /\ cache'[u] = cache[u]
          /\ dropped' = dropped
      BY <1>1
    <3> HIDE DEF None
    <3>2. QED
      BY <1>11, <3>1, AtElsewhere
  <2>2. QED
    BY <1>10, <2>1, HomesKept
<1>14. Once' /\ ClassKept'
  BY <1>1, <1>11 DEF Once, ClassKept
<1>15. Shape(q)
  BY <1>1, <1>2, <1>3 DEF Shape, Allocs
<1>16. \A u \in Threads : Shape(r[u])'
  BY <1>1, <1>4, <1>10, <1>15, ShapesKept
<1>17. \A u \in Threads : Reads(u)'
  <2>1. ASSUME NEW u \in Threads, u # t
        PROVE  Reads(u)'
    <3>1. r'[u] = r[u] /\ Reads(u) /\ r[u] \in Rec /\ Shape(r[u])
      BY <1>5, <2>1 DEF Types
    <3>2. CASE r[u].pc = "push_cas"
      <4>1. r[u].todo \in Seq(Nat) /\ r[u].todo # <<>>
        BY <3>1, <3>2 DEF Rec, Shape
      <4>2. 1 \in 1..Len(r[u].todo)
        BY <4>1
      <4>3. r[u].todo[1] \in Elements(r[u].todo)
        BY <4>2, ElementsAre
      <4>4. r[u].todo[1] # b /\ r[u].todo[1] \in 1..MaxBlocks
        BY <1>7, <2>1, <4>3, PlacedWithin
      <4>5. QED
        BY <1>9, <3>1, <3>2, <4>4 DEF Reads
    <3>3. CASE r[u].pc \in {"pop_next", "pop_cas"}
      <4>1. r[u].h \in Elements(stack[r[u].cls]) => r[u].h # b /\ r[u].h \in 1..MaxBlocks
        BY <1>7, <3>1, PlacedWithin DEF Rec
      <4>2. QED
        BY <1>1, <1>9, <3>1, <3>3, <4>1 DEF Reads
    <3>4. QED
      BY <3>1, <3>2, <3>3 DEF Reads
  <2>2. Reads(t)'
    BY <1>3, <1>5, <1>9 DEF Reads, b
  <2>3. QED
    BY <2>1, <2>2
<1>18. \A u \in Threads : Counted(u)'
  BY <1>1, <1>10, <1>11 DEF Counted
<1>19. \A c \in Classes : Linked(c)'
  <2>1. ASSUME NEW c \in Classes, NEW i \in 1..Len(stack[c])
        PROVE  next'[stack[c][i]] = next[stack[c][i]]
    <3>1. stack[c][i] \in Elements(stack[c])
      BY ElementsAre
    <3>2. QED
      BY <1>7, <1>9, <3>1, PlacedWithin
  <2>2. QED
    BY <1>1, <2>1 DEF Linked
<1>20. FitsRequest' /\ ChunkLimit' /\ fate' = "runs"
  BY <1>1 DEF FitsRequest, ChunkLimit
<1>21. Core'
  BY <1>12, <1>13, <1>14, <1>16, <1>17, <1>18, <1>19
<1>22. QED
  BY <1>20, <1>21 DEF PoolsInv

\* A chunk of new blocks: their numbers, and the class that they are given.
LEMMA NewBlocks ==
  ASSUME class \in Seq(Classes), NEW n \in Nat, n > 0, NEW c \in Classes,
         class' = class \o [i \in 1..n |-> c]
  PROVE  LET z == [i \in 1..n |-> Len(class) + i] IN
         /\ class' \in Seq(Classes) /\ Len(class') = Len(class) + n
         /\ \A b \in Blocks : class'[b] = class[b]
         /\ z \in Seq(Nat) /\ Len(z) = n /\ z # <<>> /\ Distinct(z)
         /\ Elements(z) = Blocks' \ Blocks /\ Blocks \subseteq Blocks'
         /\ \A b \in Elements(z) : class'[b] = c
<1> DEFINE L == Len(class)
           z == [i \in 1..n |-> L + i]
           y == [i \in 1..n |-> c]
<1>1. L \in Nat /\ y \in Seq(Classes) /\ Len(y) = n
  OBVIOUS
<1>2. /\ class' \in Seq(Classes) /\ Len(class') = L + n
      /\ \A b \in 1..L : class'[b] = class[b]
      /\ \A b \in (L + 1)..(L + n) : class'[b] = y[b - L]
  <2> HIDE DEF y
  <2>1. class' = class \o y
    BY DEF y
  <2>2. QED
    BY <1>1, <2>1
<1>3. Blocks = 1..L /\ Blocks' = 1..(L + n)
  BY <1>2 DEF Blocks
<1>4. z \in Seq(Nat) /\ Len(z) = n /\ z # <<>> /\ \A i \in 1..n : z[i] = L + i
  <2>1. z \in [1..n -> Nat] /\ \A i \in 1..n : z[i] = L + i
    BY <1>1
  <2>2. z \in Seq(Nat) /\ Len(z) = n
    BY <2>1
  <2> HIDE DEF z
  <2>3. z # <<>>
    BY <2>2
  <2>4. QED
    BY <2>1, <2>2, <2>3
<1> HIDE DEF z, L
<1>5. Distinct(z)
  BY <1>1, <1>4 DEF Distinct
<1>6. Elements(z) = (L + 1)..(L + n)
  <2>1. Elements(z) \subseteq (L + 1)..(L + n)
    <3>1. \A i \in 1..Len(z) : z[i] \in (L + 1)..(L + n)
      BY <1>1, <1>4
    <3>2. QED
      BY <3>1, ElementsWithin
  <2>2. ASSUME NEW b \in (L + 1)..(L + n)
        PROVE  b \in Elements(z)
    <3>1. b - L \in 1..Len(z) /\ z[b - L] = b
      BY <1>1, <1>4
    <3>2. QED
      BY <3>1, ElementsAre
  <2>3. QED
    BY <2>1, <2>2
<1>7. Elements(z) = Blocks' \ Blocks /\ Blocks \subseteq Blocks'
  BY <1>1, <1>3, <1>6
<1>8. ASSUME NEW b \in Elements(z)
      PROVE  class'[b] = c
  <2>1. b \in (L + 1)..(L + n) /\ b - L \in 1..n
    BY <1>1, <1>6
  <2>2. y[b - L] = c
    BY <2>1
  <2>3. QED
    BY <1>2, <2>1, <2>2
<1>9. \A b \in Blocks : class'[b] = class[b]
  BY <1>2, <1>3
<1>10. QED
  BY <1>2, <1>4, <1>5, <1>7, <1>8, <1>9 DEF z, L

\* The place of each thread's and each list's blocks is among the blocks.
LEMMA PlacedBlocks ==
  ASSUME Homes
  PROVE  /\ \A c \in Classes : Elements(stack[c]) \subseteq Blocks
         /\ \A t \in Threads : /\ Elements(cache[t]) \subseteq Blocks
                               /\ Elements(r[t].todo) \subseteq Blocks
                               /\ \A p \in held[t] : p[1] \in Blocks
<1>1. ASSUME NEW c \in Classes
      PROVE  Elements(stack[c]) \subseteq Blocks
  BY WhereAre, AtAre DEF Homes
<1>2. ASSUME NEW t \in Threads
      PROVE  /\ Elements(cache[t]) \subseteq Blocks /\ Elements(r[t].todo) \subseteq Blocks
             /\ \A p \in held[t] : p[1] \in Blocks
  <2>1. /\ At(<<"cache", t>>) \subseteq Blocks /\ At(<<"todo", t>>) \subseteq Blocks
        /\ At(<<"held", t>>) \subseteq Blocks
    BY WhereAre DEF Homes
  <2>2. QED
    BY <2>1, AtAre
<1>3. QED
  BY <1>1, <1>2

LEMMA NewChunkInv ==
  ASSUME Going, NEW t \in Threads, r[t].pc \in {"expand", "lock"},
         NewChunk(t, NextChunk), design = "bridge" => ~AtLimit,
         UNCHANGED <<design, head, next, held, cache, tls, stack, stale, dropped, fate>>
  PROVE  PoolsInv'
<1> USE DEF Going, Core
<1>1. r[t] \in Rec /\ r[t].cls \in Classes /\ r[t].todo = <<>> /\ r[t].op \in Allocs \cup {"grow"}
  BY DEF Types, Rec, Shape
<1>2. NextChunk \in Nat /\ NextChunk > 0
  <2>1. GrowFactor \in Nat /\ GrowFactor > 0 /\ BridgeBlocks \in Nat /\ BridgeBlocks > 0
    BY PoolsAssumption
  <2>2. \A m, n \in Nat : m > 0 /\ n > 0 => m * n \in Nat /\ m * n > 0
    OBVIOUS
  <2>3. ChunkBlocks \in Nat /\ ChunkBlocks > 0
    BY PoolsAssumption
  <2>4. QED
    BY <2>1, <2>2, <2>3 DEF NextChunk
<1> DEFINE n == NextChunk
           z == [i \in 1..n |-> Len(class) + i]
           q == SetTryTodo(r[t], "push_link", 3, Null, z)
<1>3. /\ Len(class) + n <= MaxBlocks
      /\ class' = class \o [i \in 1..n |-> r[t].cls]
      /\ chunks' = chunks + 1
      /\ stolen' = [stolen EXCEPT ![t] = 0]
      /\ r' = [r EXCEPT ![t] = q]
  BY DEF NewChunk, Become, Pushed, SetTryTodo
<1>4. /\ class' \in Seq(Classes) /\ Len(class') = Len(class) + n
      /\ \A b \in Blocks : class'[b] = class[b]
      /\ z \in Seq(Nat) /\ Len(z) = n /\ z # <<>> /\ Distinct(z)
      /\ Elements(z) = Blocks' \ Blocks /\ Blocks \subseteq Blocks'
      /\ \A b \in Elements(z) : class'[b] = r[t].cls
  <2>1. class \in Seq(Classes)
    BY DEF Types
  <2> HIDE DEF n
  <2>2. n \in Nat /\ n > 0
    BY <1>2 DEF n
  <2>3. QED
    BY <1>1, <1>3, <2>1, <2>2, NewBlocks
<1> HIDE DEF z
<1>5. /\ q \in Rec /\ q.pc = "push_link" /\ q.try = 3 /\ q.todo = z /\ q.op = r[t].op
      /\ q.cls = r[t].cls /\ q.size = r[t].size
  <2>1. Null \in Links /\ "push_link" \in Pcs /\ 3 \in Tries
    BY DEF Links, Pcs, Tries
  <2>2. QED
    BY <1>1, <1>4, <2>1, SetTryTodoIs
<1> HIDE DEF q
<1>6. r'[t] = q /\ r' \in [Threads -> Rec] /\ \A u \in Threads : u # t => r'[u] = r[u]
  BY <1>3, <1>5 DEF Types
<1>7. /\ stolen' \in [Threads -> Nat] /\ stolen'[t] = 0
      /\ \A u \in Threads : u # t => stolen'[u] = stolen[u]
      /\ chunks \in Nat /\ chunks' \in Nat /\ chunks' >= chunks
  BY <1>3 DEF Types
<1>8. (AtLimit => AtLimit') /\ NextChunk' = NextChunk /\ Asked' = Asked
  BY <1>7, AtLimitKept DEF NextChunk, Asked
<1>9. Types'
  BY <1>3, <1>4, <1>6, <1>7, <1>8 DEF Types
<1>10. Homes'
  <2> DEFINE w == <<"todo", t>>
             V == {w}
  <2>1. V \in SUBSET Where
    BY WhereAre
  <2>2. At(w) = {} /\ At(w)' = Blocks' \ Blocks
    <3>1. At(w) = Elements(r[t].todo) /\ At(w)' = Elements(r'[t].todo)
      BY AtAre
    <3>2. QED
      BY <1>1, <1>4, <1>5, <1>6, <3>1, ElementsEmpty
  <2>3. \A x \in Where : x \notin V => At(x)' = At(x)
    <3>1. /\ \A c \in Classes : stack'[c] = stack[c]
          /\ \A u \in Threads : /\ held'[u] = held[u]
                                /\ cache'[u] = cache[u]
                                /\ <<"todo", u>> \notin V => r'[u].todo = r[u].todo
          /\ dropped' = dropped
      BY <1>6
    <3> HIDE DEF V
    <3>2. QED
      BY <3>1, AtElsewhere
  <2> HIDE DEF w
  <2>4. \A x : (\E v \in V : x \in At(v)') <=> (x \in Blocks' \ Blocks \/ \E v \in V : x \in At(v))
    BY <2>2
  <2>5. \A v1, v2 \in V : \A x : x \in At(v1)' /\ x \in At(v2)' => v1 = v2
    OBVIOUS
  <2> HIDE DEF V
  <2>6. QED
    BY <1>4, <2>1, <2>3, <2>4, <2>5, HomesShuffled
<1>11. Once'
  <2>1. \A u \in Threads : Distinct(r'[u].todo)
    BY <1>4, <1>5, <1>6 DEF Once
  <2>2. QED
    BY <2>1 DEF Once
<1>12. ClassKept'
  <2>1. \A c \in Classes : \A b \in Elements(stack[c]) : class'[b] = c
    BY <1>4, PlacedBlocks DEF ClassKept
  <2>2. ASSUME NEW u \in Threads
        PROVE  /\ \A p \in held[u] : class'[p[1]] = IndexFor(p[2])
               /\ \A b \in Elements(cache[u]) : class'[b] = 1
    BY <1>4, PlacedBlocks DEF ClassKept
  <2>3. ASSUME NEW u \in Threads
        PROVE  \A b \in Elements(r'[u].todo) : class'[b] = r'[u].cls
    <3>1. CASE u = t
      BY <1>4, <1>5, <1>6, <3>1
    <3>2. CASE u # t
      <4>1. \A b \in Elements(r[u].todo) : class'[b] = r[u].cls
        BY <1>4, PlacedBlocks DEF ClassKept
      <4>2. QED
        BY <1>6, <3>2, <4>1
    <3>3. QED
      BY <3>1, <3>2
  <2>4. QED
    BY <2>1, <2>2, <2>3 DEF ClassKept
<1>13. Shape(q)
  BY <1>1, <1>4, <1>5 DEF Shape, Allocs
<1>14. \A u \in Threads : Shape(r[u])'
  BY <1>3, <1>8, <1>13, ShapesKept
<1>15. \A u \in Threads : Reads(u)'
  <2>1. ASSUME NEW u \in Threads, u # t
        PROVE  Reads(u)'
    BY <1>6, <2>1 DEF Reads
  <2>2. Reads(t)'
    BY <1>5, <1>6 DEF Reads
  <2>3. QED
    BY <2>1, <2>2
<1>16. \A u \in Threads : Counted(u)'
  <2>1. ASSUME NEW u \in Threads, u # t
        PROVE  Counted(u)'
    BY <1>6, <1>7, <1>8, <2>1 DEF Counted
  <2>2. Counted(t)'
    <3>1. Len(stack[q.cls]) \in Nat
      BY <1>1, <1>5 DEF Types
    <3>2. Len(stack[q.cls]) + Len(q.todo) + 0 >= NextChunk
      BY <1>2, <1>4, <1>5, <3>1
    <3>3. QED
      BY <1>6, <1>7, <1>8, <3>2 DEF Counted
  <2>3. QED
    BY <2>1, <2>2
<1>17. \A c \in Classes : Linked(c)'
  BY DEF Linked
<1>18. ChunkLimit' /\ fate' = "runs"
  BY <1>3, <1>7, PoolsAssumption DEF ChunkLimit, AtLimit
<1>19. FitsRequest'
  BY <1>9, <1>12, FitsFromClass
<1>20. Core'
  BY <1>9, <1>10, <1>11, <1>12, <1>14, <1>15, <1>16, <1>17
<1>21. QED
  BY <1>18, <1>19, <1>20 DEF PoolsInv

LEMMA ExpandInv ==
  ASSUME Going, NEW t \in Threads, Expand(t) \/ ExpandLocked(t)
  PROVE  PoolsInv'
<1>1. CASE Expand(t)
  <2>1. design # "bridge" /\ r[t].pc = "expand"
    BY <1>1 DEF Expand, Going, Core, Shape
  <2>2. /\ NewChunk(t, NextChunk)
        /\ UNCHANGED <<design, head, next, held, cache, tls, stack, stale, dropped, fate>>
    BY <1>1 DEF Expand, Still
  <2>3. QED
    BY <2>1, <2>2, NewChunkInv
<1>2. CASE ExpandLocked(t)
  <2>1. /\ design = "bridge" /\ r[t].pc = "lock"
        /\ UNCHANGED <<design, head, next, held, cache, tls, stack, stale, dropped, fate>>
    BY <1>2 DEF ExpandLocked, Still
  <2>2. CASE AtLimit
    <3>1. Return(t) /\ UNCHANGED <<Still, class, chunks, stolen>>
      BY <1>2, <2>2 DEF ExpandLocked
    <3>2. QED
      BY <2>1, <2>2, <3>1, LimitStepInv
  <2>3. CASE ~AtLimit
    <3>1. NewChunk(t, NextChunk)
      BY <1>2, <2>3 DEF ExpandLocked
    <3>2. QED
      BY <2>1, <2>3, <3>1, NewChunkInv
  <2>4. QED
    BY <2>2, <2>3
<1>3. QED
  BY <1>1, <1>2

\* What a thread is left with when it has pushed a block: one block less, and
\* after the last one the rest of its call.
LEMMA PushedRec ==
  ASSUME Going, NEW t \in Threads, PushCas(t)
  PROVE  \E q \in Rec : /\ r' = [r EXCEPT ![t] = q] /\ Shape(q) /\ q.todo = Tail(r[t].todo)
                        /\ q.pc \notin {"push_cas", "pop_next", "pop_cas"}
                        /\ q.todo # <<>> => q.cls = r[t].cls
                        /\ q.try = 3 => r[t].try = 3 /\ q.cls = r[t].cls
<1> USE DEF Going, Core
<1> DEFINE z == r[t].todo
           y == Tail(z)
           e == <<>>
<1>1. r[t].pc = "push_cas" /\ r[t] \in Rec /\ Shape(r[t])
  BY DEF PushCas, Types
<1>2. z \in Seq(Nat) /\ z # <<>> /\ Distinct(z)
  BY <1>1 DEF Rec, Shape, Once
<1>3. y \in Seq(Nat) /\ Len(y) = Len(z) - 1 /\ Len(z) \in Nat /\ Len(z) # 0
  <2> HIDE DEF z
  <2>1. Len(z) \in Nat /\ Len(z) # 0
    BY <1>2
  <2>2. QED
    BY <1>2, <2>1, ElementsTail
<1>4. /\ Null \in Links /\ "push_link" \in Pcs /\ "unflag" \in Pcs /\ "pop_load" \in Pcs
      /\ 3 \in Tries /\ e \in Seq(Nat)
  BY ElementsEmpty DEF Links, Pcs, Tries
<1>5. CASE Len(z) > 1
  <2> DEFINE q == SetTodo(r[t], "push_link", Null, y)
  <2>1. /\ q \in Rec /\ q.pc = "push_link" /\ q.todo = y /\ q.op = r[t].op
        /\ q.try = r[t].try /\ q.cls = r[t].cls /\ q.size = r[t].size
    <3> HIDE DEF y
    <3>1. QED
      BY <1>1, <1>3, <1>4, SetTodoIs
  <2>2. r' = [r EXCEPT ![t] = q]
    BY <1>5 DEF PushCas, Become, SetTodo
  <2> HIDE DEF q
  <2>3. q.todo # <<>>
    <3>1. Len(y) > 0
      <4> HIDE DEF y, z
      <4>1. QED
        BY <1>3, <1>5
    <3> HIDE DEF y
    <3>2. y # <<>>
      BY <1>3, <3>1
    <3>3. QED
      BY <2>1, <3>2
  <2>4. Shape(q)
    BY <1>1, <1>2, <2>1, <2>3 DEF Shape, Allocs
  <2>5. QED
    BY <2>1, <2>2, <2>4
<1>6. CASE ~(Len(z) > 1)
  <2>1. y = <<>>
    <3> HIDE DEF y, z
    <3>1. Len(y) = 0
      BY <1>3, <1>6
    <3>2. QED
      BY <1>3, <3>1
  <2>2. r' = [r EXCEPT ![t] = AfterPushes(t)]
    BY <1>6 DEF PushCas, Become
  <2>3. CASE r[t].op \in {"free", "grow"}
    <3>1. AfterPushes(t) = Idle
      BY <2>3 DEF AfterPushes
    <3>2. /\ Idle \in Rec /\ Shape(Idle) /\ Idle.todo = <<>> /\ Idle.try # 3
          /\ Idle.pc \notin {"push_cas", "pop_next", "pop_cas"}
      BY IdleRec
    <3>3. QED
      BY <2>1, <2>2, <3>1, <3>2
  <2>4. CASE r[t].op \notin {"free", "grow"} /\ design = "bridge"
    <3> DEFINE q == SetTodo(r[t], "unflag", Null, e)
    <3>1. AfterPushes(t) = q
      BY <2>4 DEF AfterPushes, SetTodo
    <3>2. /\ q \in Rec /\ q.pc = "unflag" /\ q.todo = <<>> /\ q.op = r[t].op
          /\ q.try = r[t].try /\ q.cls = r[t].cls /\ q.size = r[t].size
      <4> HIDE DEF e
      <4>1. /\ q \in Rec /\ q.pc = "unflag" /\ q.todo = e /\ q.op = r[t].op
            /\ q.try = r[t].try /\ q.cls = r[t].cls /\ q.size = r[t].size
        BY <1>1, <1>4, SetTodoIs
      <4>2. QED
        BY <4>1 DEF e
    <3> HIDE DEF q
    <3>3. r[t].op \in Allocs /\ r[t].try = 3
      BY <1>1, <1>2, <2>4 DEF Shape, Rec, Ops
    <3>4. Shape(q)
      BY <1>1, <2>4, <3>2, <3>3 DEF Shape, Allocs
    <3>5. QED
      BY <2>1, <2>2, <3>1, <3>2, <3>3, <3>4
  <2>5. CASE r[t].op \notin {"free", "grow"} /\ design # "bridge"
    <3> DEFINE q == SetTryTodo(r[t], "pop_load", 3, Null, e)
    <3>1. AfterPushes(t) = q
      BY <2>5 DEF AfterPushes, SetTryTodo
    <3>2. /\ q \in Rec /\ q.pc = "pop_load" /\ q.todo = <<>> /\ q.op = r[t].op
          /\ q.try = 3 /\ q.cls = r[t].cls /\ q.size = r[t].size
      <4> HIDE DEF e
      <4>1. /\ q \in Rec /\ q.pc = "pop_load" /\ q.todo = e /\ q.op = r[t].op
            /\ q.try = 3 /\ q.cls = r[t].cls /\ q.size = r[t].size
        BY <1>1, <1>4, SetTryTodoIs
      <4>2. QED
        BY <4>1 DEF e
    <3> HIDE DEF q
    <3>3. r[t].op \in Allocs /\ r[t].try = 3
      BY <1>1, <1>2, <2>5 DEF Shape, Rec, Ops
    <3>4. Shape(q)
      BY <1>1, <2>5, <3>2, <3>3 DEF Shape, Allocs
    <3>5. QED
      BY <2>1, <2>2, <3>1, <3>2, <3>3, <3>4
  <2>6. QED
    BY <2>3, <2>4, <2>5
<1>7. QED
  BY <1>5, <1>6

LEMMA PushCasInv ==
  ASSUME Going, NEW t \in Threads, PushCas(t)
  PROVE  PoolsInv'
<1> USE DEF Going, Core
<1>1. r[t].pc = "push_cas" /\ r[t] \in Rec /\ Shape(r[t])
  BY DEF PushCas, Types
<1>22. PICK c : c = r[t].cls
  OBVIOUS
<1> DEFINE z == r[t].todo
           b == z[1]
           s == stack[c]
<1>2. /\ z \in Seq(Nat) /\ z # <<>> /\ Distinct(z) /\ c \in Classes
      /\ s \in Seq(Nat) /\ Distinct(s)
  BY <1>1, <1>22 DEF Rec, Shape, Once, Types
<1>3. /\ head[c] = r[t].h /\ head' = [head EXCEPT ![c] = b]
      /\ stack' = [stack EXCEPT ![c] = <<b>> \o s]
      /\ UNCHANGED <<design, class, chunks, tls, dropped, held, cache, stale, stolen, fate, next>>
  BY <1>2, <1>22 DEF PushCas, Quiet, Unmoved
<1>4. PICK q \in Rec : /\ r' = [r EXCEPT ![t] = q] /\ Shape(q) /\ q.todo = Tail(z)
                       /\ q.pc \notin {"push_cas", "pop_next", "pop_cas"}
                       /\ q.todo # <<>> => q.cls = c
                       /\ q.try = 3 => r[t].try = 3 /\ q.cls = c
  BY <1>22, PushedRec
<1>5. /\ Tail(z) \in Seq(Nat) /\ Len(Tail(z)) = Len(z) - 1 /\ Distinct(Tail(z))
      /\ b \in Elements(z) /\ b \in Nat /\ b \notin Elements(Tail(z))
      /\ Elements(Tail(z)) = Elements(z) \ {b}
  BY <1>2, ElementsTail
<1>6. (\A d \in Classes : b \notin Elements(stack[d])) /\ b \in 1..MaxBlocks
  BY <1>5, TodoNotFree
<1> DEFINE y == <<b>> \o s
<1>7. /\ y \in Seq(Nat) /\ Len(y) = Len(s) + 1 /\ Distinct(y)
      /\ y[1] = b /\ \A i \in 1..Len(s) : y[i + 1] = s[i]
      /\ Elements(y) = Elements(s) \cup {b}
  BY <1>2, <1>5, <1>6, ElementsPush
<1>8. next[b] = head[c] /\ Len(s) \in Nat /\ Len(z) \in Nat
  BY <1>1, <1>2, <1>3 DEF Reads
<1> HIDE DEF y, b
<1>9. /\ r'[t] = q /\ r' \in [Threads -> Rec] /\ \A u \in Threads : u # t => r'[u] = r[u]
      /\ stack'[c] = y /\ \A d \in Classes : d # c => stack'[d] = stack[d]
      /\ stack' \in [Classes -> Seq(Nat)]
      /\ head'[c] = b /\ \A d \in Classes : d # c => head'[d] = head[d]
      /\ head' \in [Classes -> Links]
  <2>1. stack' = [stack EXCEPT ![c] = y]
    BY <1>3 DEF y
  <2>2. b \in Links
    BY <1>6 DEF Links
  <2>3. QED
    BY <1>2, <1>3, <1>4, <1>7, <2>1, <2>2 DEF Types
<1>10. AtLimit' = AtLimit /\ NextChunk' = NextChunk /\ Asked' = Asked /\ Blocks' = Blocks
  BY <1>3 DEF AtLimit, NextChunk, Asked, Blocks
<1>11. Types'
  BY <1>3, <1>9, <1>10 DEF Types
<1> HIDE DEF z, s
<1>12. Homes'
  <2> DEFINE v == <<"todo", t>>
             w == <<"free", c>>
             V == {v, w}
  <2>1. v \in Where /\ w \in Where /\ v # w
    BY <1>2, WhereAre
  <2>2. At(v) = Elements(z) /\ At(v)' = At(v) \ {b}
    <3>1. At(v) = Elements(r[t].todo) /\ At(v)' = Elements(r'[t].todo)
      BY AtAre
    <3>2. QED
      BY <1>4, <1>5, <1>9, <3>1 DEF z
  <2>3. At(w)' = At(w) \cup {b}
    <3>1. At(w) = Elements(stack[c]) /\ At(w)' = Elements(stack'[c])
      BY <1>2, AtAre
    <3>2. QED
      BY <1>7, <1>9, <3>1 DEF s
  <2>4. \A x \in Where : x \notin V => At(x)' = At(x)
    <3>1. /\ \A d \in Classes : <<"free", d>> \notin V => stack'[d] = stack[d]
          /\ \A u \in Threads : /\ held'[u] = held[u] /\ cache'[u] = cache[u]
                                /\ <<"todo", u>> \notin V => r'[u].todo = r[u].todo
          /\ dropped' = dropped
      BY <1>3, <1>9
    <3> HIDE DEF V
    <3>2. QED
      BY <3>1, AtElsewhere
  <2> DEFINE S == {b}
  <2>5. /\ S \subseteq At(v) /\ At(v)' = At(v) \ S /\ At(w)' = At(w) \cup S
        /\ \A x \in Where : x # v /\ x # w => At(x)' = At(x)
    BY <1>5, <2>2, <2>3, <2>4
  <2> HIDE DEF v, w, S
  <2>6. QED
    BY <1>10, <2>1, <2>5, HomesMoved
<1>13. Once'
  <2>1. \A u \in Threads : Distinct(r'[u].todo)
    BY <1>4, <1>5, <1>9 DEF Once
  <2>2. \A d \in Classes : Distinct(stack'[d])
    BY <1>7, <1>9 DEF Once
  <2>3. QED
    BY <1>3, <2>1, <2>2 DEF Once
<1>14. ClassKept'
  <2>1. \A x \in Elements(z) : class[x] = c
    BY <1>22 DEF ClassKept, z
  <2>2. ASSUME NEW d \in Classes
        PROVE  \A x \in Elements(stack'[d]) : class[x] = d
    <3>1. CASE d = c
      <4>1. \A x \in Elements(s) : class[x] = c
        BY <1>2 DEF ClassKept, s
      <4>2. QED
        BY <1>5, <1>7, <1>9, <2>1, <3>1, <4>1
    <3>2. CASE d # c
      BY <1>9, <3>2 DEF ClassKept
    <3>3. QED
      BY <3>1, <3>2
  <2>3. ASSUME NEW u \in Threads
        PROVE  \A x \in Elements(r'[u].todo) : class[x] = r'[u].cls
    <3>1. CASE u = t
      <4>1. ASSUME NEW x \in Elements(q.todo)
            PROVE  class[x] = q.cls
        <5>1. q.todo # <<>>
          BY <4>1, ElementsEmpty
        <5>2. QED
          BY <1>4, <1>5, <2>1, <4>1, <5>1
      <4>2. QED
        BY <1>9, <3>1, <4>1
    <3>2. CASE u # t
      <4>1. r'[u] = r[u]
        BY <1>9, <3>2
      <4>2. QED
        BY <4>1 DEF ClassKept
    <3>3. QED
      BY <3>1, <3>2
  <2>4. QED
    BY <1>3, <2>2, <2>3 DEF ClassKept
<1>15. \A u \in Threads : Shape(r[u])'
  BY <1>3, <1>4, <1>10, ShapesKept
<1>16. \A u \in Threads : Reads(u)'
  <2>1. ASSUME NEW u \in Threads, u # t
        PROVE  Reads(u)'
    <3>1. r'[u] = r[u] /\ Reads(u) /\ r[u].cls \in Classes
      BY <1>9, <2>1 DEF Types, Rec
    <3>2. \A x \in Elements(stack[r[u].cls]) : x \in Elements(stack'[r[u].cls])
      <4>1. CASE r[u].cls = c
        BY <1>7, <1>9, <4>1 DEF s
      <4>2. CASE r[u].cls # c
        BY <1>9, <3>1, <4>2
      <4>3. QED
        BY <4>1, <4>2
    <3>3. QED
      BY <1>3, <3>1, <3>2 DEF Reads
  <2>2. Reads(t)'
    BY <1>4, <1>9 DEF Reads
  <2>3. QED
    BY <2>1, <2>2
<1>17. \A u \in Threads : Counted(u)'
  <2>1. ASSUME NEW u \in Threads, u # t
        PROVE  Counted(u)'
    <3>1. r'[u] = r[u] /\ Counted(u) /\ r[u].cls \in Classes /\ r[u].todo \in Seq(Nat)
      BY <1>9, <2>1 DEF Types, Rec
    <3>2. /\ Len(stack'[r[u].cls]) \in Nat /\ Len(stack[r[u].cls]) \in Nat
          /\ Len(stack'[r[u].cls]) >= Len(stack[r[u].cls])
      <4>1. CASE r[u].cls = c
        BY <1>7, <1>8, <1>9, <4>1 DEF s
      <4>2. CASE r[u].cls # c
        BY <1>9, <3>1, <4>2 DEF Types
      <4>3. QED
        BY <4>1, <4>2
    <3>3. Len(r[u].todo) \in Nat /\ stolen[u] \in Nat /\ NextChunk \in Nat
      <4>1. NextChunk \in Nat
        BY PoolsAssumption DEF NextChunk
      <4>2. QED
        BY <3>1, <4>1 DEF Types
    <3>4. \A k, k1, m, n, o \in Nat : k1 >= k /\ k + m + n >= o => k1 + m + n >= o
      OBVIOUS
    <3>5. CASE design = "bridge" /\ AtLimit
      BY <1>3, <1>10, <3>5 DEF Counted
    <3>6. CASE r[u].try = 3 /\ ~(design = "bridge" /\ AtLimit)
      <4>1. Len(stack[r[u].cls]) + Len(r[u].todo) + stolen[u] >= NextChunk
        BY <3>1, <3>6 DEF Counted
      <4>2. Len(stack'[r[u].cls]) + Len(r[u].todo) + stolen[u] >= NextChunk
        BY <3>2, <3>3, <3>4, <4>1
      <4>3. QED
        BY <1>3, <1>10, <3>1, <4>2 DEF Counted
    <3>7. QED
      BY <3>1, <3>5, <3>6 DEF Counted
  <2>2. Counted(t)'
    <3>1. SUFFICES ASSUME q.try = 3
                   PROVE  Counted(t)'
      BY <1>9 DEF Counted
    <3>2. Counted(t) /\ r[t].try = 3 /\ q.cls = c
      BY <1>4, <3>1
    <3>3. Len(y) + Len(q.todo) = Len(s) + Len(z)
      BY <1>4, <1>5, <1>7, <1>8
    <3>4. QED
      BY <1>3, <1>9, <1>10, <1>22, <3>2, <3>3 DEF Counted, z, s
  <2>3. QED
    BY <2>1, <2>2
<1>18. \A d \in Classes : Linked(d)'
  <2>1. ASSUME NEW d \in Classes, d # c
        PROVE  Linked(d)'
    <3>1. stack'[d] = stack[d] /\ head'[d] = head[d] /\ next' = next /\ Linked(d)
      BY <1>3, <1>9, <2>1
    <3>2. QED
      BY <3>1 DEF Linked
  <2>2. Linked(c)'
    <3>1. /\ head[c] = IF s = <<>> THEN Null ELSE s[1]
          /\ \A i \in 1..Len(s) : next[s[i]] = IF i = Len(s) THEN Null ELSE s[i + 1]
      BY <1>2 DEF Linked, s
    <3>2. y # <<>>
      BY <1>7, <1>8
    <3>3. ASSUME NEW i \in 1..Len(y)
          PROVE  next[y[i]] = IF i = Len(y) THEN Null ELSE y[i + 1]
      <4>1. CASE i = 1
        <5>1. CASE s = <<>>
          <6>1. Len(y) = 1
            BY <1>7, <5>1
          <6>2. QED
            BY <1>7, <1>8, <3>1, <4>1, <5>1, <6>1
        <5>2. CASE s # <<>>
          <6>1. Len(y) # 1 /\ 1 \in 1..Len(s)
            BY <1>2, <1>7, <1>8, <5>2
          <6>2. y[i + 1] = s[1]
            BY <1>7, <4>1, <6>1
          <6>3. QED
            BY <1>7, <1>8, <3>1, <4>1, <5>2, <6>1, <6>2
        <5>3. QED
          BY <5>1, <5>2
      <4>2. CASE i # 1
        <5> DEFINE j == i - 1
        <5>1. j \in 1..Len(s) /\ i = j + 1 /\ (i = Len(y) <=> j = Len(s))
          BY <1>7, <1>8, <4>2
        <5>2. j # Len(s) => j + 1 \in 1..Len(s)
          BY <1>8, <5>1
        <5> HIDE DEF j
        <5>3. y[i] = s[j] /\ (j # Len(s) => y[i + 1] = s[j + 1])
          BY <1>7, <5>1, <5>2
        <5>4. QED
          BY <3>1, <5>1, <5>3
      <4>3. QED
        BY <4>1, <4>2
    <3>4. head'[c] = IF y = <<>> THEN Null ELSE y[1]
      BY <1>7, <1>9, <3>2
    <3>5. stack'[c] = y /\ next' = next
      BY <1>3, <1>9
    <3>6. \A i \in 1..Len(y) : next[y[i]] = IF i = Len(y) THEN Null ELSE y[i + 1]
      BY <3>3
    <3>7. QED
      BY <3>4, <3>5, <3>6 DEF Linked
  <2>3. QED
    BY <2>1, <2>2
<1>19. FitsRequest' /\ ChunkLimit' /\ fate' = "runs"
  BY <1>3 DEF FitsRequest, ChunkLimit
<1>20. Core'
  BY <1>11, <1>12, <1>13, <1>14, <1>15, <1>16, <1>17, <1>18
<1>21. QED
  BY <1>19, <1>20 DEF PoolsInv

\* Where a popped block goes and what the thread does next.
LEMMA PoppedRec ==
  ASSUME Going, NEW t \in Threads, r[t].pc = "pop_cas", NEW b, b # Null, Finish(t, b)
  PROVE  /\ \E q \in Rec : /\ r' = [r EXCEPT ![t] = q] /\ Shape(q) /\ q.todo = <<>>
                           /\ q.try # 3 /\ q.pc \notin {"push_cas", "pop_next", "pop_cas"}
         /\ \/ /\ held' = [held EXCEPT ![t] = @ \cup {<<b, r[t].size>>}] /\ UNCHANGED cache
               /\ r[t].size \in Asked /\ r[t].cls = IndexFor(r[t].size)
            \/ /\ cache' = [cache EXCEPT ![t] = Append(@, b)] /\ UNCHANGED held
               /\ r[t].cls = 1
<1> USE DEF Going, Core
<1>1. r[t] \in Rec /\ Shape(r[t]) /\ r[t].op \in Allocs /\ r[t].todo = <<>>
  BY DEF Types, Shape
<1>2. \/ /\ held' = [held EXCEPT ![t] = @ \cup {<<b, r[t].size>>}] /\ UNCHANGED cache
         /\ r[t].size \in Asked /\ r[t].cls = IndexFor(r[t].size)
      \/ /\ cache' = [cache EXCEPT ![t] = Append(@, b)] /\ UNCHANGED held
         /\ r[t].cls = 1
  BY <1>1 DEF Finish, Shape, Allocs
<1> DEFINE g == [Idle EXCEPT !.pc = "get"]
           a == SetAgain(r[t], "pop_load", 1, Null, Null)
<1>3. PICK q : /\ r' = [r EXCEPT ![t] = q]
               /\ \/ q = Idle
                  \/ q = g /\ r[t].op = "refill"
                  \/ q = a
  BY <1>1 DEF Finish, Become, Allocs, AllocateAgain, SetAgain
<1>4. /\ a \in Rec /\ a.pc = "pop_load" /\ a.try = 1 /\ a.op = r[t].op /\ a.cls = r[t].cls
      /\ a.size = r[t].size /\ a.todo = r[t].todo
  <2>1. "pop_load" \in Pcs /\ 1 \in Tries /\ Null \in Links
    BY DEF Pcs, Tries, Links
  <2>2. QED
    BY <1>1, <2>1, SetAgainIs
<1>5. g \in Rec /\ g.pc = "get" /\ g.op = "none" /\ g.try = 0 /\ g.cls = 1 /\ g.todo = <<>>
  BY GetIs
<1> HIDE DEF a, g
<1>6. /\ q \in Rec /\ Shape(q) /\ q.todo = <<>> /\ q.try # 3
      /\ q.pc \notin {"push_cas", "pop_next", "pop_cas"}
  <2>1. CASE q = Idle
    BY <2>1, IdleRec
  <2>2. CASE q = g /\ r[t].op = "refill"
    <3>1. Shape(q)
      BY <1>1, <1>5, <2>2 DEF Shape, Allocs
    <3>2. QED
      BY <1>5, <2>2, <3>1
  <2>3. CASE q = a
    <3>1. Shape(q)
      BY <1>1, <1>4, <2>3 DEF Shape, Allocs
    <3>2. QED
      BY <1>1, <1>4, <2>3, <3>1
  <2>4. QED
    BY <1>3, <2>1, <2>2, <2>3
<1>7. QED
  BY <1>2, <1>3, <1>6

\* A block of a free list is nowhere else.
LEMMA FreeNotOwned ==
  ASSUME Going, NEW c \in Classes, NEW b \in Elements(stack[c])
  PROVE  /\ \A d \in Classes : d # c => b \notin Elements(stack[d])
         /\ \A u \in Threads : /\ b \notin Elements(r[u].todo) /\ b \notin Elements(cache[u])
                               /\ \A p \in held[u] : p[1] # b
         /\ b \in Blocks /\ b \in 1..MaxBlocks /\ class[b] = c
<1> USE DEF Going, Core
<1>1. <<"free", c>> \in Where /\ b \in At(<<"free", c>>)
  BY WhereAre, AtAre
<1>2. ASSUME NEW d \in Classes, d # c
      PROVE  b \notin Elements(stack[d])
  <2>1. <<"free", d>> \in Where /\ <<"free", d>> # <<"free", c>>
    BY <1>2, WhereAre
  <2>2. b \notin At(<<"free", d>>)
    BY <1>1, <2>1, HomeOnly
  <2>3. QED
    BY <2>2, AtAre
<1>3. ASSUME NEW u \in Threads
      PROVE  /\ b \notin Elements(r[u].todo) /\ b \notin Elements(cache[u])
             /\ \A p \in held[u] : p[1] # b
  <2>1. /\ <<"todo", u>> \in Where /\ <<"todo", u>> # <<"free", c>>
        /\ <<"cache", u>> \in Where /\ <<"cache", u>> # <<"free", c>>
        /\ <<"held", u>> \in Where /\ <<"held", u>> # <<"free", c>>
    BY WhereAre
  <2>2. b \notin At(<<"todo", u>>) /\ b \notin At(<<"cache", u>>) /\ b \notin At(<<"held", u>>)
    BY <1>1, <2>1, HomeOnly
  <2>3. QED
    BY <2>2, AtAre
<1>4. b \in Blocks
  BY <1>1 DEF Homes
<1>5. b \in 1..MaxBlocks
  BY <1>4, PoolsAssumption DEF Blocks, Types
<1>6. QED
  BY <1>2, <1>3, <1>4, <1>5 DEF ClassKept

\* The list loses its first block.
LEMMA LinkedTail ==
  ASSUME NEW c \in Classes, Linked(c), stack[c] \in Seq(Nat), stack[c] # <<>>, Distinct(stack[c]),
         stack'[c] = Tail(stack[c]), head'[c] = next[stack[c][1]],
         \A x \in Elements(stack[c]) : x # stack[c][1] => next'[x] = next[x]
  PROVE  Linked(c)'
<1> DEFINE s == stack[c]
           y == Tail(s)
<1>1. /\ head[c] = s[1]
      /\ \A i \in 1..Len(s) : next[s[i]] = IF i = Len(s) THEN Null ELSE s[i + 1]
  BY DEF Linked
<1>2. /\ y \in Seq(Nat) /\ Len(y) = Len(s) - 1 /\ Len(s) \in Nat /\ Len(s) > 0
      /\ \A i \in 1..(Len(s) - 1) : y[i] = s[i + 1]
  OBVIOUS
<1>3. \A i \in 1..Len(s) : i # 1 => s[i] # s[1]
  BY <1>2 DEF Distinct
<1>9. head'[c] = next[s[1]] /\ \A x \in Elements(s) : x # s[1] => next'[x] = next[x]
  OBVIOUS
<1>6. stack'[c] = y
  OBVIOUS
<1> HIDE DEF y, s
<1>4. head'[c] = IF y = <<>> THEN Null ELSE y[1]
  <2>1. 1 \in 1..Len(s)
    BY <1>2
  <2>2. next[s[1]] = IF 1 = Len(s) THEN Null ELSE s[2]
    <3>1. next[s[1]] = IF 1 = Len(s) THEN Null ELSE s[1 + 1]
      BY <1>1, <2>1
    <3>2. 1 + 1 = 2
      OBVIOUS
    <3>3. QED
      BY <3>1, <3>2
  <2>3. CASE Len(s) = 1
    <3>1. y = <<>>
      BY <1>2, <2>3
    <3>2. QED
      BY <1>9, <2>2, <2>3, <3>1
  <2>4. CASE Len(s) # 1
    <3>1. \A n \in Nat : n > 0 /\ n # 1 => n - 1 # 0 /\ 1 \in 1..(n - 1)
      OBVIOUS
    <3>2. Len(s) - 1 # 0 /\ 1 \in 1..(Len(s) - 1)
      BY <1>2, <2>4, <3>1, Zenon
    <3>3. y # <<>>
      BY <1>2, <3>2
    <3>4. y[1] = s[2]
      BY <1>2, <3>2
    <3>5. QED
      BY <1>9, <2>2, <2>4, <3>3, <3>4
  <2>5. QED
    BY <2>3, <2>4
<1>5. ASSUME NEW i \in 1..Len(y)
      PROVE  next'[y[i]] = IF i = Len(y) THEN Null ELSE y[i + 1]
  <2> DEFINE j == i + 1
  <2>1. /\ j \in 1..Len(s) /\ j # 1 /\ (j = Len(s) <=> i = Len(y)) /\ i \in 1..(Len(s) - 1)
        /\ i # Len(y) => i + 1 \in 1..(Len(s) - 1)
    <3>1. \A l \in Nat : \A k \in 1..(l - 1) :
            /\ k + 1 \in 1..l /\ k + 1 # 1 /\ (k + 1 = l <=> k = l - 1)
            /\ k # l - 1 => k + 1 \in 1..(l - 1)
      OBVIOUS
    <3>2. i \in 1..(Len(s) - 1)
      BY <1>2
    <3>3. QED
      BY <1>2, <3>1, <3>2
  <2>2. y[i] = s[j] /\ (i # Len(y) => y[i + 1] = s[j + 1])
    BY <1>2, <2>1
  <2> HIDE DEF j
  <2>3. next'[s[j]] = next[s[j]]
    BY <1>3, <1>9, <2>1, ElementsAre
  <2>4. next[s[j]] = IF j = Len(s) THEN Null ELSE s[j + 1]
    BY <1>1, <2>1
  <2>5. QED
    BY <2>1, <2>2, <2>3, <2>4
<1>7. \A i \in 1..Len(y) : next'[y[i]] = IF i = Len(y) THEN Null ELSE y[i + 1]
  BY <1>5
<1>8. QED
  BY <1>4, <1>6, <1>7 DEF Linked

LEMMA PopCasInv ==
  ASSUME Going, NEW t \in Threads, PopCas(t)
  PROVE  PoolsInv'
<1> USE DEF Going, Core
<1>1. r[t].pc = "pop_cas" /\ r[t] \in Rec /\ r[t].todo = <<>> /\ r[t].h # Null
  BY DEF PopCas, Types, Shape, Reads
<1>2. PICK c \in Classes : c = r[t].cls
  BY <1>1 DEF Rec
<1>3. PICK b : b = r[t].h
  OBVIOUS
<1> DEFINE s == stack[c]
           y == IF s = <<>> THEN s ELSE Tail(s)
<1>4. /\ head[c] = b /\ head' = [head EXCEPT ![c] = r[t].n] /\ fate' = IF t \in stale THEN "recycled" ELSE fate
      /\ stack' = [stack EXCEPT ![c] = y]
      /\ stale' = (stale \cup {u \in Threads : r[u].pc \in {"pop_next", "pop_cas"} /\ r[u].h = b})
                  \ {t}
      /\ next' = [next EXCEPT ![b] = Null]
      /\ Finish(t, b)
      /\ UNCHANGED <<design, class, chunks, tls, dropped>>
  BY <1>2, <1>3 DEF PopCas, Unmoved
<1>5. stolen' = [u \in Threads |-> IF u = t THEN 0
                                   ELSE IF r[u].try = 3 /\ r[u].cls = c /\ stolen[u] < NextChunk
                                   THEN stolen[u] + 1 ELSE stolen[u]]
  BY <1>2 DEF PopCas
<1>6. s \in Seq(Nat) /\ Distinct(s) /\ s # <<>> /\ b = s[1] /\ b # Null
  BY <1>1, <1>3, <1>4 DEF Linked, Types, Once
<1>7. /\ y \in Seq(Nat) /\ Len(y) = Len(s) - 1 /\ Distinct(y)
      /\ b \in Elements(s) /\ b \in Nat /\ b \notin Elements(y)
      /\ Elements(y) = Elements(s) \ {b}
  BY <1>6, ElementsTail
<1>8. /\ \A d \in Classes : d # c => b \notin Elements(stack[d])
      /\ \A u \in Threads : /\ b \notin Elements(r[u].todo) /\ b \notin Elements(cache[u])
                            /\ \A p \in held[u] : p[1] # b
      /\ b \in Blocks /\ b \in 1..MaxBlocks /\ class[b] = c
  BY <1>7, FreeNotOwned
<1>9. PICK q \in Rec : /\ r' = [r EXCEPT ![t] = q] /\ Shape(q) /\ q.todo = <<>>
                       /\ q.try # 3 /\ q.pc \notin {"push_cas", "pop_next", "pop_cas"}
  BY <1>1, <1>4, <1>6, PoppedRec
<1> HIDE DEF y
<1>10. /\ r'[t] = q /\ r' \in [Threads -> Rec] /\ \A u \in Threads : u # t => r'[u] = r[u]
       /\ stack'[c] = y /\ \A d \in Classes : d # c => stack'[d] = stack[d]
       /\ stack' \in [Classes -> Seq(Nat)]
  BY <1>4, <1>7, <1>9 DEF Types
<1>11. /\ head'[c] = r[t].n /\ \A d \in Classes : d # c => head'[d] = head[d]
       /\ head' \in [Classes -> Links]
  BY <1>1, <1>4 DEF Types, Rec
<1>12. next' \in [1..MaxBlocks -> Links] /\ \A x \in 1..MaxBlocks : x # b => next'[x] = next[x]
  <2>1. Null \in Links
    BY DEF Links
  <2>2. QED
    BY <1>4, <1>8, <2>1 DEF Types
<1>13. \A u \in Threads : r'[u].todo = r[u].todo
  BY <1>1, <1>9, <1>10
<1>14. AtLimit' = AtLimit /\ NextChunk' = NextChunk /\ Asked' = Asked /\ Blocks' = Blocks
  BY <1>4 DEF AtLimit, NextChunk, Asked, Blocks
<1>15. NextChunk \in Nat
  BY PoolsAssumption DEF NextChunk
<1>16. stolen' \in [Threads -> Nat]
  BY <1>5 DEF Types
<1>17. PICK w :
         /\ w \in {<<"held", t>>, <<"cache", t>>}
         /\ held' \in [Threads -> SUBSET (Nat \X Asked)] /\ cache' \in [Threads -> Seq(Nat)]
         /\ \A u \in Threads : /\ <<"held", u>> # w => held'[u] = held[u]
                               /\ <<"cache", u>> # w => cache'[u] = cache[u]
         /\ At(w)' = At(w) \cup {b}
         /\ \A u \in Threads : /\ Distinct(cache'[u])
                               /\ \A p1, p2 \in held'[u] : p1[1] = p2[1] => p1 = p2
                               /\ \A p \in held'[u] : class[p[1]] = IndexFor(p[2])
                               /\ \A x \in Elements(cache'[u]) : class[x] = 1
  <2>1. CASE /\ held' = [held EXCEPT ![t] = @ \cup {<<b, r[t].size>>}] /\ UNCHANGED cache
             /\ r[t].size \in Asked /\ r[t].cls = IndexFor(r[t].size)
    <3> DEFINE p == <<b, r[t].size>>
               w == <<"held", t>>
    <3>1. p[1] = b /\ p[2] = r[t].size /\ p \in Nat \X Asked /\ class[p[1]] = IndexFor(p[2])
      BY <1>2, <1>7, <1>8, <2>1
    <3>2. held' = [held EXCEPT ![t] = @ \cup {p}]
      BY <2>1
    <3> HIDE DEF p
    <3>3. /\ held'[t] = held[t] \cup {p} /\ \A u \in Threads : u # t => held'[u] = held[u]
          /\ held' \in [Threads -> SUBSET (Nat \X Asked)] /\ cache' \in [Threads -> Seq(Nat)]
      BY <2>1, <3>1, <3>2 DEF Types
    <3>4. At(w)' = At(w) \cup {b}
      <4>1. At(w) = {x[1] : x \in held[t]} /\ At(w)' = {x[1] : x \in held'[t]}
        BY AtAre
      <4>2. {x[1] : x \in held[t] \cup {p}} = {x[1] : x \in held[t]} \cup {p[1]}
        BY HeldIn
      <4>3. {x[1] : x \in held'[t]} = {x[1] : x \in held[t]} \cup {b}
        BY <3>1, <3>3, <4>2, Zenon
      <4>4. QED
        BY <4>1, <4>3, Zenon
    <3>5. \A x1, x2 \in held'[t] : x1[1] = x2[1] => x1 = x2
      BY <1>8, <3>1, <3>3 DEF Once
    <3>6. \A x \in held'[t] : class[x[1]] = IndexFor(x[2])
      BY <3>1, <3>3 DEF ClassKept
    <3>7. ASSUME NEW u \in Threads
          PROVE  /\ Distinct(cache'[u])
                 /\ \A p1, p2 \in held'[u] : p1[1] = p2[1] => p1 = p2
                 /\ \A x \in held'[u] : class[x[1]] = IndexFor(x[2])
                 /\ \A x \in Elements(cache'[u]) : class[x] = 1
      <4>1. Distinct(cache'[u]) /\ \A x \in Elements(cache'[u]) : class[x] = 1
        BY <2>1 DEF Once, ClassKept
      <4>2. CASE u = t
        BY <3>5, <3>6, <4>1, <4>2
      <4>3. CASE u # t
        BY <3>3, <4>1, <4>3 DEF Once, ClassKept
      <4>4. QED
        BY <4>2, <4>3
    <3>8. \A u \in Threads : <<"held", u>> # w => u # t
      OBVIOUS
    <3>9. QED
      BY <2>1, <3>3, <3>4, <3>7, <3>8
  <2>2. CASE /\ cache' = [cache EXCEPT ![t] = Append(@, b)] /\ UNCHANGED held
             /\ r[t].cls = 1
    <3> DEFINE C == cache[t]
               A == Append(C, b)
               w == <<"cache", t>>
    <3>1. C \in Seq(Nat) /\ Distinct(C) /\ b \notin Elements(C) /\ class[b] = 1
      BY <1>2, <1>8, <2>2 DEF Types, Once
    <3>2. A \in Seq(Nat) /\ Distinct(A) /\ Elements(A) = Elements(C) \cup {b}
      BY <1>7, <3>1, ElementsAppend
    <3>3. cache' = [cache EXCEPT ![t] = A]
      BY <2>2
    <3> HIDE DEF A
    <3>4. /\ cache'[t] = A /\ \A u \in Threads : u # t => cache'[u] = cache[u]
          /\ held' \in [Threads -> SUBSET (Nat \X Asked)] /\ cache' \in [Threads -> Seq(Nat)]
      BY <2>2, <3>2, <3>3 DEF Types
    <3>5. At(w)' = At(w) \cup {b}
      BY <3>2, <3>4, AtAre
    <3>6. \A x \in Elements(A) : class[x] = 1
      BY <3>1, <3>2 DEF ClassKept
    <3>7. ASSUME NEW u \in Threads
          PROVE  /\ Distinct(cache'[u])
                 /\ \A p1, p2 \in held'[u] : p1[1] = p2[1] => p1 = p2
                 /\ \A x \in held'[u] : class[x[1]] = IndexFor(x[2])
                 /\ \A x \in Elements(cache'[u]) : class[x] = 1
      <4>1. /\ \A p1, p2 \in held'[u] : p1[1] = p2[1] => p1 = p2
            /\ \A x \in held'[u] : class[x[1]] = IndexFor(x[2])
        BY <2>2 DEF Once, ClassKept
      <4>2. CASE u = t
        BY <3>2, <3>4, <3>6, <4>1, <4>2
      <4>3. CASE u # t
        BY <3>4, <4>1, <4>3 DEF Once, ClassKept
      <4>4. QED
        BY <4>2, <4>3
    <3>8. \A u \in Threads : <<"cache", u>> # w => u # t
      OBVIOUS
    <3>9. QED
      BY <2>2, <3>4, <3>5, <3>7, <3>8
  <2>3. QED
    BY <1>1, <1>4, <1>6, <2>1, <2>2, PoppedRec
<1>18. Types'
  BY <1>4, <1>10, <1>11, <1>12, <1>14, <1>16, <1>17 DEF Types
<1>19. ClassKept'
  <2>1. ASSUME NEW d \in Classes
        PROVE  \A x \in Elements(stack'[d]) : class[x] = d
    <3>1. CASE d = c
      <4>1. \A x \in Elements(s) : class[x] = c
        BY DEF ClassKept
      <4>2. QED
        BY <1>7, <1>10, <3>1, <4>1
    <3>2. CASE d # c
      BY <1>10, <3>2 DEF ClassKept
    <3>3. QED
      BY <3>1, <3>2
  <2>2. ASSUME NEW u \in Threads
        PROVE  \A x \in Elements(r'[u].todo) : class[x] = r'[u].cls
    <3>1. CASE u = t
      BY <1>9, <1>10, <3>1, ElementsEmpty
    <3>2. CASE u # t
      <4>1. r'[u] = r[u]
        BY <1>10, <3>2
      <4>2. QED
        BY <4>1 DEF ClassKept
    <3>3. QED
      BY <3>1, <3>2
  <2>3. QED
    BY <1>4, <1>17, <2>1, <2>2 DEF ClassKept
<1>20. FitsRequest' /\ ChunkLimit'
  <2>1. FitsRequest'
    BY <1>18, <1>19, FitsFromClass
  <2>2. ChunkLimit'
    BY <1>4 DEF ChunkLimit
  <2>3. QED
    BY <2>1, <2>2
<1>21. CASE t \in stale
  <2>1. fate' = "recycled"
    BY <1>4, <1>21
  <2>2. QED
    BY <1>20, <2>1 DEF PoolsInv
<1>22. CASE t \notin stale
  <2>1. r[t].n = next[b]
    BY <1>1, <1>3, <1>22 DEF Reads
  <2>2. Homes'
    <3> DEFINE v == <<"free", c>>
               V == {v, w}
    <3>1. v \in Where /\ w \in Where /\ v # w
      <4>1. <<"held", t>> # <<"free", c>> /\ <<"cache", t>> # <<"free", c>>
        OBVIOUS
      <4>2. QED
        BY <1>17, <4>1, WhereAre
    <3>2. At(v) = Elements(s) /\ At(v)' = At(v) \ {b}
      BY <1>7, <1>10, AtAre
    <3>3. \A x \in Where : x \notin V => At(x)' = At(x)
      <4>1. /\ \A d \in Classes : <<"free", d>> \notin V => stack'[d] = stack[d]
            /\ \A u \in Threads : /\ <<"held", u>> \notin V => held'[u] = held[u]
                                  /\ <<"cache", u>> \notin V => cache'[u] = cache[u]
            /\ dropped' = dropped
        BY <1>4, <1>10, <1>17
      <4> HIDE DEF V
      <4>2. QED
        BY <1>13, <4>1, AtElsewhere
    <3> DEFINE S == {b}
    <3>4. /\ S \subseteq At(v) /\ At(v)' = At(v) \ S /\ At(w)' = At(w) \cup S
          /\ \A x \in Where : x # v /\ x # w => At(x)' = At(x)
      BY <1>7, <1>17, <3>2, <3>3
    <3> HIDE DEF v, S
    <3>5. QED
      BY <1>14, <3>1, <3>4, HomesMoved
  <2>3. Once'
    <3>1. \A d \in Classes : Distinct(stack'[d])
      BY <1>7, <1>10 DEF Once
    <3>2. QED
      BY <1>13, <1>17, <3>1 DEF Once
  <2>4. \A u \in Threads : Shape(r[u])'
    BY <1>4, <1>9, <1>14, ShapesKept
  <2>5. \A u \in Threads : Reads(u)'
    <3>1. ASSUME NEW u \in Threads, u # t
          PROVE  Reads(u)'
      <4>1. r'[u] = r[u] /\ Reads(u) /\ r[u] \in Rec /\ r[u].cls \in Classes /\ Shape(r[u])
        BY <1>10, <3>1 DEF Types, Rec
      <4>2. CASE r[u].pc = "push_cas"
        <5>1. r[u].todo \in Seq(Nat) /\ r[u].todo # <<>>
          BY <4>1, <4>2 DEF Rec, Shape
        <5>2. 1 \in 1..Len(r[u].todo)
          BY <5>1
        <5>3. r[u].todo[1] # b /\ r[u].todo[1] \in 1..MaxBlocks
          BY <1>8, <5>2, ElementsAre, PlacedWithin
        <5>4. QED
          BY <1>12, <4>1, <4>2, <5>3 DEF Reads
      <4>3. CASE r[u].pc \in {"pop_next", "pop_cas"} /\ u \in stale'
        BY <4>1, <4>3 DEF Reads
      <4>4. CASE r[u].pc \in {"pop_next", "pop_cas"} /\ u \notin stale'
        <5>1. u \notin stale /\ r[u].h # b
          BY <1>4, <3>1, <4>4
        <5>2. r[u].h \in Elements(stack[r[u].cls]) /\ r[u].h # Null
          BY <4>1, <4>4, <5>1 DEF Reads
        <5>3. r[u].h \in Elements(stack'[r[u].cls])
          <6>1. CASE r[u].cls = c
            BY <1>7, <1>10, <5>1, <5>2, <6>1
          <6>2. CASE r[u].cls # c
            BY <1>10, <4>1, <5>2, <6>2
          <6>3. QED
            BY <6>1, <6>2
        <5>4. next'[r[u].h] = next[r[u].h]
          BY <1>12, <4>1, <5>1, <5>2, PlacedWithin
        <5>5. QED
          BY <4>1, <4>4, <5>1, <5>2, <5>3, <5>4 DEF Reads
      <4>5. QED
        BY <4>1, <4>2, <4>3, <4>4 DEF Reads
    <3>2. Reads(t)'
      BY <1>9, <1>10 DEF Reads
    <3>3. QED
      BY <3>1, <3>2
  <2>6. \A u \in Threads : Counted(u)'
    <3>1. ASSUME NEW u \in Threads, u # t, r[u].try = 3, ~(design = "bridge" /\ AtLimit)
          PROVE  Len(stack'[r[u].cls]) + Len(r[u].todo) + stolen'[u] >= NextChunk
      <4>1. r[u].cls \in Classes /\ r[u].todo \in Seq(Nat) /\ stolen[u] \in Nat
        BY DEF Types, Rec
      <4>2. Len(stack[r[u].cls]) + Len(r[u].todo) + stolen[u] >= NextChunk
        BY <3>1 DEF Counted
      <4>3. Len(r[u].todo) \in Nat /\ Len(stack[r[u].cls]) \in Nat
        BY <4>1 DEF Types
      <4>4. CASE r[u].cls # c
        BY <1>5, <1>10, <3>1, <4>1, <4>2, <4>4
      <4>5. CASE r[u].cls = c
        <5>1. Len(stack'[r[u].cls]) = Len(stack[r[u].cls]) - 1
          BY <1>7, <1>10, <4>5
        <5>2. Len(s) # 0
          BY <1>6
        <5>3. stolen'[u] = IF stolen[u] < NextChunk THEN stolen[u] + 1 ELSE stolen[u]
          BY <1>5, <3>1, <4>5
        <5>4. \A k, m, n, o \in Nat : k # 0 /\ k + m + n >= o =>
                (k - 1) + m + (IF n < o THEN n + 1 ELSE n) >= o
          OBVIOUS
        <5>5. Len(stack[r[u].cls]) # 0
          BY <4>5, <5>2
        <5>6. (Len(stack[r[u].cls]) - 1) + Len(r[u].todo) + (IF stolen[u] < NextChunk THEN stolen[u] + 1 ELSE stolen[u]) >= NextChunk
          BY <1>15, <4>1, <4>2, <4>3, <5>4, <5>5
        <5>7. QED
          BY <5>1, <5>3, <5>6
      <4>6. QED
        BY <4>4, <4>5
    <3>2. ASSUME NEW u \in Threads, u # t
          PROVE  Counted(u)'
      <4>1. r'[u] = r[u]
        BY <1>10, <3>2
      <4>2. QED
        BY <1>4, <1>14, <3>1, <3>2, <4>1 DEF Counted
    <3>3. Counted(t)'
      BY <1>9, <1>10 DEF Counted
    <3>4. QED
      BY <3>2, <3>3
  <2>7. \A d \in Classes : Linked(d)'
    <3>1. ASSUME NEW d \in Classes, d # c
          PROVE  Linked(d)'
      <4>1. stack'[d] = stack[d] /\ head'[d] = head[d] /\ Linked(d)
        BY <1>10, <1>11, <3>1
      <4>2. ASSUME NEW i \in 1..Len(stack[d])
            PROVE  next'[stack[d][i]] = next[stack[d][i]]
        <5>1. stack[d][i] \in Elements(stack[d])
          BY ElementsAre
        <5>2. QED
          BY <1>8, <1>12, <3>1, <5>1, PlacedWithin
      <4>3. QED
        BY <4>1, <4>2 DEF Linked
    <3>2. Linked(c)'
      <4>1. stack'[c] = Tail(stack[c])
        BY <1>6, <1>10 DEF y
      <4>2. head'[c] = next[stack[c][1]] /\ \A x \in Elements(stack[c]) : x # stack[c][1] => next'[x] = next[x]
        BY <1>6, <1>11, <1>12, <2>1, PlacedWithin
      <4>3. QED
        BY <1>6, <4>1, <4>2, LinkedTail
    <3>3. QED
      BY <3>1, <3>2
  <2>8. Core'
    BY <1>18, <1>19, <2>2, <2>3, <2>4, <2>5, <2>6, <2>7
  <2>9. fate' = "runs"
    BY <1>4, <1>22
  <2>10. QED
    BY <1>20, <2>8, <2>9 DEF PoolsInv
<1>23. QED
  BY <1>21, <1>22

-----------------------------------------------------------------------------
(* The first chunk of a bridge pool, or none *)

LEMMA FirstChunkIs ==
  /\ FirstChunk \in Seq(Nat) /\ Len(FirstChunk) = BridgeBlocks /\ Distinct(FirstChunk)
  /\ \A i \in 1..BridgeBlocks : FirstChunk[i] = BridgeBlocks - i + 1
  /\ Elements(FirstChunk) = 1..BridgeBlocks
<1> DEFINE B == BridgeBlocks
           z == FirstChunk
<1>1. B \in Nat
  BY PoolsAssumption
<1>2. z \in [1..B -> Nat] /\ \A i \in 1..B : z[i] = B - i + 1
  BY <1>1 DEF FirstChunk
<1> HIDE DEF z, B
<1>3. z \in Seq(Nat) /\ Len(z) = B
  BY <1>1, <1>2
<1>4. Distinct(z)
  BY <1>1, <1>2, <1>3 DEF Distinct
<1>5. Elements(z) = 1..B
  <2>1. \A i \in 1..Len(z) : z[i] \in 1..B
    BY <1>1, <1>2, <1>3
  <2>2. Elements(z) \subseteq 1..B
    BY <2>1, ElementsWithin
  <2>3. ASSUME NEW b \in 1..B
        PROVE  b \in Elements(z)
    <3>1. B - b + 1 \in 1..Len(z) /\ z[B - b + 1] = b
      BY <1>1, <1>2, <1>3
    <3>2. QED
      BY <3>1, ElementsAre
  <2>4. QED
    BY <2>2, <2>3
<1>6. QED
  BY <1>2, <1>3, <1>4, <1>5 DEF z, B

LEMMA InitInv ==
  ASSUME Init
  PROVE  PoolsInv
<1>1. PICK f : /\ f = IF design = "bridge" THEN FirstChunk ELSE <<>>
               /\ stack = [c \in Classes |-> IF c = 1 THEN f ELSE <<>>]
               /\ head = [c \in Classes |-> IF c = 1 /\ f # <<>> THEN f[1] ELSE Null]
               /\ next = [b \in 1..MaxBlocks |-> IF b \in 2..Len(f) THEN b - 1 ELSE Null]
               /\ class = [i \in 1..Len(f) |-> 1]
               /\ chunks = IF f = <<>> THEN 0 ELSE 1
  BY DEF Init
<1>2. /\ r = [t \in Threads |-> Idle] /\ held = [t \in Threads |-> {}]
      /\ cache = [t \in Threads |-> <<>>] /\ tls = [t \in Threads |-> "none"]
      /\ dropped = {} /\ left = FALSE /\ fate = "runs" /\ stolen = [t \in Threads |-> 0]
      /\ design \in {"fixed", "slab", "bridge"}
  BY PoolsAssumption DEF Init
<1>3. /\ f \in Seq(Nat) /\ Distinct(f) /\ Elements(f) = 1..Len(f) /\ Len(f) \in Nat
      /\ Len(f) <= MaxBlocks /\ MaxBlocks \in Nat
      /\ \A i \in 1..Len(f) : f[i] = Len(f) - i + 1
  <2>1. BridgeBlocks \in Nat /\ BridgeBlocks <= MaxBlocks /\ MaxBlocks \in Nat
    BY PoolsAssumption
  <2>2. CASE design = "bridge"
    <3>1. f = FirstChunk
      BY <1>1, <2>2
    <3>2. QED
      BY <2>1, <3>1, FirstChunkIs
  <2>3. CASE design # "bridge"
    <3>1. f = <<>>
      BY <1>1, <2>3
    <3>2. Len(f) = 0 /\ 1..0 = {}
      BY <3>1
    <3>3. QED
      BY <2>1, <3>1, <3>2, ElementsEmpty
  <2>4. QED
    BY <2>2, <2>3
<1>4. 1 \in Classes /\ stack[1] = f /\ \A c \in Classes : c # 1 => stack[c] = <<>>
  BY <1>1, SizesAre
<1>5. class \in Seq(Classes) /\ Len(class) = Len(f) /\ \A b \in 1..Len(f) : class[b] = 1
  <2>1. class \in [1..Len(f) -> Classes] /\ \A b \in 1..Len(f) : class[b] = 1
    BY <1>1, <1>4
  <2>2. QED
    BY <1>3, <2>1
<1>6. Blocks = 1..Len(f)
  BY <1>5 DEF Blocks
<1>7. \A t \in Threads : r[t] = Idle /\ r[t].todo = <<>> /\ cache[t] = <<>> /\ held[t] = {}
  BY <1>2, IdleRec
<1>8. Types
  <2>1. head \in [Classes -> Links]
    <3>1. f # <<>> => f[1] \in 1..MaxBlocks
      <4>1. f # <<>> => 1 \in 1..Len(f)
        BY <1>3
      <4>2. \A i \in 1..Len(f) : Len(f) - i + 1 \in 1..MaxBlocks
        BY <1>3
      <4>3. QED
        BY <1>3, <4>1, <4>2
    <3>2. QED
      BY <1>1, <3>1 DEF Links
  <2>2. next \in [1..MaxBlocks -> Links]
    <3>1. \A b \in 1..MaxBlocks : b \in 2..Len(f) => b - 1 \in 1..MaxBlocks
      BY <1>3
    <3>2. QED
      BY <1>1, <3>1 DEF Links
  <2>3. stack \in [Classes -> Seq(Nat)]
    BY <1>1, <1>3, ElementsEmpty
  <2>4. r \in [Threads -> Rec] /\ cache \in [Threads -> Seq(Nat)] /\ stolen \in [Threads -> Nat]
    BY <1>2, IdleRec, ElementsEmpty
  <2>5. held \in [Threads -> SUBSET (Nat \X Asked)] /\ chunks \in Nat
    BY <1>1, <1>2
  <2>6. QED
    BY <1>2, <1>3, <1>5, <2>1, <2>2, <2>3, <2>4, <2>5 DEF Types
<1>9. Homes
  <2> DEFINE v == <<"free", 1>>
  <2>1. v \in Where /\ At(v) = Blocks
    BY <1>3, <1>4, <1>6, WhereAre, AtAre
  <2>2. ASSUME NEW w \in Where, w # v
        PROVE  At(w) = {}
    <3>1. ASSUME NEW c \in Classes, w = <<"free", c>>
          PROVE  At(w) = {}
      <4>1. c # 1
        BY <2>2, <3>1
      <4>2. QED
        BY <1>4, <3>1, <4>1, AtAre, ElementsEmpty
    <3>2. ASSUME NEW t \in Threads, w \in {<<"held", t>>, <<"cache", t>>, <<"todo", t>>}
          PROVE  At(w) = {}
      <4>1. At(<<"held", t>>) = {} /\ At(<<"cache", t>>) = {} /\ At(<<"todo", t>>) = {}
        BY <1>7, AtAre, ElementsEmpty
      <4>2. QED
        BY <3>2, <4>1
    <3>3. CASE w = <<"dropped", 0>>
      BY <1>2, <3>3, AtAre
    <3>4. QED
      BY <3>1, <3>2, <3>3, WhereAre
  <2> HIDE DEF v
  <2>3. \A b \in Blocks : Home(b, v)
    BY <2>1, <2>2 DEF Home
  <2>4. \A w \in Where : At(w) \subseteq Blocks
    BY <2>1, <2>2
  <2>5. QED
    BY <2>1, <2>3, <2>4 DEF Homes
<1>10. Once
  <2>1. \A c \in Classes : Distinct(stack[c])
    BY <1>3, <1>4, ElementsEmpty
  <2>2. QED
    BY <1>7, <2>1, ElementsEmpty DEF Once
<1>11. ClassKept
  <2>1. ASSUME NEW c \in Classes, NEW b \in Elements(stack[c])
        PROVE  class[b] = c
    <3>1. c = 1
      BY <1>4, <2>1, ElementsEmpty
    <3>2. QED
      BY <1>3, <1>4, <1>5, <3>1
  <2>2. ASSUME NEW t \in Threads
        PROVE  /\ \A p \in held[t] : class[p[1]] = IndexFor(p[2])
               /\ \A b \in Elements(cache[t]) : class[b] = 1
               /\ \A b \in Elements(r[t].todo) : class[b] = r[t].cls
               /\ tls[t] = "live" => design # "slab"
    BY <1>2, <1>7, ElementsEmpty
  <2>3. QED
    BY <2>1, <2>2 DEF ClassKept
<1>12. \A t \in Threads : Shape(r[t]) /\ Reads(t) /\ Counted(t)
  <2>1. ASSUME NEW t \in Threads
        PROVE  Shape(r[t]) /\ Reads(t) /\ Counted(t)
    <3>1. r[t] = Idle /\ Idle.pc = "idle" /\ Idle.try = 0 /\ Shape(Idle)
      BY <1>7, IdleRec
    <3>2. QED
      BY <3>1 DEF Reads, Counted
  <2>2. QED
    BY <2>1
<1>13. \A c \in Classes : Linked(c)
  <2>1. ASSUME NEW c \in Classes, c # 1
        PROVE  Linked(c)
    <3>1. stack[c] = <<>> /\ head[c] = Null /\ Len(<<>>) = 0 /\ 1..0 = {}
      BY <1>1, <1>4, <2>1
    <3>2. QED
      BY <3>1 DEF Linked
  <2>2. Linked(1)
    <3>1. head[1] = IF f = <<>> THEN Null ELSE f[1]
      BY <1>1, <1>4
    <3>2. ASSUME NEW i \in 1..Len(f)
          PROVE  next[f[i]] = IF i = Len(f) THEN Null ELSE f[i + 1]
      <4>1. f[i] = Len(f) - i + 1 /\ f[i] \in 1..MaxBlocks
        BY <1>3
      <4>2. CASE i = Len(f)
        <5>1. f[i] = 1
          BY <1>3, <4>1, <4>2
        <5>2. QED
          BY <1>1, <4>1, <4>2, <5>1
      <4>3. CASE i # Len(f)
        <5>1. i + 1 \in 1..Len(f) /\ f[i] \in 2..Len(f)
          BY <1>3, <4>1, <4>3
        <5>2. f[i + 1] = Len(f) - (i + 1) + 1
          BY <1>3, <5>1
        <5>3. f[i] - 1 = f[i + 1]
          BY <1>3, <4>1, <5>2
        <5>4. next[f[i]] = f[i] - 1
          BY <1>1, <4>1, <5>1
        <5>5. QED
          BY <4>3, <5>3, <5>4
      <4>4. QED
        BY <4>2, <4>3
    <3>3. QED
      BY <1>4, <3>1, <3>2 DEF Linked
  <2>3. QED
    BY <2>1, <2>2
<1>14. FitsRequest
  BY <1>7 DEF FitsRequest
<1>15. ChunkLimit
  BY <1>1, PoolsAssumption DEF ChunkLimit
<1>16. QED
  BY <1>2, <1>8, <1>9, <1>10, <1>11, <1>12, <1>13, <1>14, <1>15 DEF PoolsInv, Core

-----------------------------------------------------------------------------
(* Every step *)

\* Every step starts where the invariant holds.
LEMMA StepGoing ==
  ASSUME PoolsInv, Next
  PROVE  Going
BY DEF Next, PoolsInv, Going

LEMMA CoreKept ==
  ASSUME Core, UNCHANGED <<design, head, next, class, chunks, r, held, cache, tls, stack, stale,
                           stolen, dropped>>
  PROVE  Core'
<1> USE DEF Core
<1>1. Asked' = Asked /\ Blocks' = Blocks /\ AtLimit' = AtLimit /\ NextChunk' = NextChunk
  BY DEF Asked, Blocks, AtLimit, NextChunk
<1>2. Types' /\ Once' /\ ClassKept'
  BY <1>1 DEF Types, Once, ClassKept
<1>3. Homes'
  <2>1. \A w \in Where : At(w)' = At(w)
    BY DEF At
  <2>2. QED
    BY <1>1, <2>1, HomesKept
<1>4. \A t \in Threads : Shape(r[t])' /\ Reads(t)' /\ Counted(t)'
  BY <1>1 DEF Shape, Reads, Counted
<1>5. \A c \in Classes : Linked(c)'
  BY DEF Linked
<1>6. QED
  BY <1>2, <1>3, <1>4, <1>5

\* operator new fails where nothing may throw: the program ends as it is.
LEMMA NewTerminatesInv ==
  ASSUME Going, NEW t \in Threads, NewTerminates(t)
  PROVE  PoolsInv'
<1>1. /\ fate' = "terminated" /\ FitsRequest' /\ ChunkLimit'
      /\ UNCHANGED <<design, head, next, class, chunks, r, held, cache, tls, stack, stale,
                     stolen, dropped>>
  BY DEF NewTerminates, Going, FitsRequest, ChunkLimit
<1>2. Core'
  BY <1>1, CoreKept DEF Going
<1>3. QED
  BY <1>1, <1>2 DEF PoolsInv, Core

LEMMA StepInv ==
  ASSUME PoolsInv, [Next]_vars
  PROVE  PoolsInv'
<1>1. ASSUME Going, NEW t \in Threads, Step(t)
      PROVE  PoolsInv'
  BY <1>1, AllocateInv, DeallocateInv, CallExpandInv, PopReadInv, PopNextInv, PopCasInv,
     PushLinkInv, PushCasInv, PushRetryInv, ExpandInv, SlabLockInv, TakeFlagInv,
     CheckLimitInv, ReleaseFlagInv, NewThrowsInv, NewTerminatesInv, NewCacheInv, GetInv,
     GetBackInv, GetUnderflowInv, PutInv, DropCacheInv
     DEF Step
<1>2. CASE UNCHANGED vars
  <2> USE <1>2 DEF vars
  <2>1. FitsRequest' /\ ChunkLimit' /\ fate' = fate
    BY DEF PoolsInv, FitsRequest, ChunkLimit
  <2>2. Core => Core'
    BY CoreKept
  <2>3. (\A c \in Classes : Linked(c)) => (\A c \in Classes : Linked(c)')
    BY DEF Linked
  <2>4. QED
    BY <2>1, <2>2, <2>3 DEF PoolsInv
<1>3. QED
  BY <1>1, <1>2, StepGoing DEF Next

-----------------------------------------------------------------------------
(* The flag of a bridge pool *)

\* Where a thread is not expanding.
Elsewhere == {"idle", "get", "pop_load", "pop_next", "pop_cas", "flag"}

\* What a step of t may do to is_expanding_ and to its own expansion: nothing, start
\* one, end it, or leave it by an exception.
FlagMoves(t) ==
  \/ (flag' <=> flag) /\ (left' <=> left) /\ (design = "bridge" => (Expanding(t)' <=> Expanding(t)))
  \/ design = "bridge" /\ (left' <=> left) /\ ~flag /\ flag' /\ Expanding(t)'
  \/ design = "bridge" /\ (left' <=> left) /\ Expanding(t) /\ ~Expanding(t)' /\ ~flag'
  \/ design = "bridge" /\ (flag' <=> flag) /\ Expanding(t) /\ ~Expanding(t)' /\ left'

LEMMA FlagKept ==
  ASSUME FlagHeld, NEW t \in Threads, \A u \in Threads : u # t => r'[u] = r[u],
         UNCHANGED design, FlagMoves(t)
  PROVE  FlagHeld'
<1>1. \A u \in Threads : u # t => (Expanding(u)' <=> Expanding(u))
  BY DEF Expanding
<1>2. FlagHeld
  OBVIOUS
<1>3. CASE design # "bridge"
  <2>1. ~flag /\ ~left /\ ~flag' /\ ~left' /\ design' # "bridge"
    BY <1>2, <1>3 DEF FlagHeld, FlagMoves
  <2>2. QED
    BY <2>1 DEF FlagHeld
<1>4. CASE design = "bridge"
  <2>1. /\ flag => left \/ \E u \in Threads : Expanding(u)
        /\ left => flag
        /\ \A u \in Threads : Expanding(u) =>
             flag /\ ~left /\ \A v \in Threads : Expanding(v) => v = u
    BY <1>2, <1>4 DEF FlagHeld
  <2>2. CASE (flag' <=> flag) /\ (left' <=> left) /\ (Expanding(t)' <=> Expanding(t))
    <3>1. \A u \in Threads : Expanding(u)' <=> Expanding(u)
      BY <1>1, <2>2
    <3>2. QED
      BY <1>4, <2>1, <2>2, <3>1 DEF FlagHeld
  <2>3. CASE (left' <=> left) /\ ~flag /\ flag' /\ Expanding(t)'
    <3>1. ~left /\ \A u \in Threads : Expanding(u)' => u = t
      BY <1>1, <2>1, <2>3
    <3>2. QED
      BY <1>4, <2>3, <3>1 DEF FlagHeld
  <2>4. CASE /\ Expanding(t) /\ ~Expanding(t)'
             /\ \/ (flag' <=> flag) /\ left'
                \/ (left' <=> left) /\ ~flag'
    <3>1. flag /\ ~left /\ \A u \in Threads : ~Expanding(u)'
      BY <1>1, <2>1, <2>4
    <3>2. QED
      BY <1>4, <2>4, <3>1 DEF FlagHeld
  <2>5. \/ (flag' <=> flag) /\ (left' <=> left) /\ (Expanding(t)' <=> Expanding(t))
        \/ (left' <=> left) /\ ~flag /\ flag' /\ Expanding(t)'
        \/ (left' <=> left) /\ Expanding(t) /\ ~Expanding(t)' /\ ~flag'
        \/ (flag' <=> flag) /\ Expanding(t) /\ ~Expanding(t)' /\ left'
    <3>1. FlagMoves(t)
      OBVIOUS
    <3>2. QED
      BY <1>4, <3>1, Zenon DEF FlagMoves
  <2>6. CASE (left' <=> left) /\ Expanding(t) /\ ~Expanding(t)' /\ ~flag'
    BY <2>4, <2>6, Zenon
  <2>7. CASE (flag' <=> flag) /\ Expanding(t) /\ ~Expanding(t)' /\ left'
    BY <2>4, <2>7, Zenon
  <2>8. QED
    BY <2>2, <2>3, <2>5, <2>6, <2>7, Zenon
<1>5. QED
  BY <1>3, <1>4

\* The steps of a thread that is not expanding, and does not start to.
LEMMA FlagAside ==
  ASSUME Going, FlagHeld, NEW t \in Threads, NEW q, r' = [r EXCEPT ![t] = q],
         q.pc \in Elsewhere \/ q.op \notin Allocs,
         UNCHANGED <<flag, left, design>>, ~Expanding(t)
  PROVE  FlagHeld'
<1>1. r'[t] = q /\ \A u \in Threads : u # t => r'[u] = r[u]
  BY DEF Going, Core, Types
<1>2. ~Expanding(t)'
  BY <1>1 DEF Expanding, Elsewhere, Allocs
<1>3. QED
  BY <1>1, <1>2, FlagKept DEF FlagMoves

\* A call that gives blocks back.
LEMMA PushingOp ==
  ASSUME NEW z, NEW c
  PROVE  Pushing(z, c).op = "free"
BY DEF Pushing, Idle

LEMMA FlagCalls ==
  ASSUME Going, FlagHeld, NEW t \in Threads,
         \/ Allocate(t) \/ Deallocate(t) \/ CallExpand(t)
         \/ NewCache(t) \/ Get(t) \/ Put(t) \/ DropCache(t) \/ GetBack(t) \/ GetUnderflow(t)
  PROVE  FlagHeld'
<1>1. r[t].pc \in {"idle", "get"} /\ UNCHANGED <<flag, left, design>>
  BY DEF Allocate, Deallocate, CallExpand, NewCache, Get, Put, DropCache, GetBack, GetUnderflow, Start
<1> DEFINE Aside(q) == r' = [r EXCEPT ![t] = q] /\ (q.pc \in Elsewhere \/ q.op \notin Allocs)
<1>2. \E q : Aside(q)
  <2>1. ASSUME Allocate(t) PROVE \E q : Aside(q)
    <3>1. PICK s \in Asked : r' = [r EXCEPT ![t] = SetAlloc(Idle, "pop_load", "alloc", 1, s, IndexFor(s))]
      BY <2>1 DEF Allocate, Become, SetAlloc
    <3>2. s \in Nat /\ IndexFor(s) \in Classes /\ "pop_load" \in Pcs /\ "alloc" \in Ops /\ 1 \in Tries
      BY AskedFits DEF Pcs, Ops, Allocs, Tries
    <3>3. SetAlloc(Idle, "pop_load", "alloc", 1, s, IndexFor(s)).pc = "pop_load"
      BY <3>2, IdleRec, SetAllocIs
    <3>4. QED
      BY <3>1, <3>3 DEF Elsewhere
  <2>2. ASSUME CallExpand(t) PROVE \E q : Aside(q)
    <3>1. r' = [r EXCEPT ![t] = SetCall(Idle, "check", "grow")]
      BY <2>2 DEF CallExpand, Become, SetCall
    <3>2. "check" \in Pcs /\ "grow" \in Ops /\ "grow" \notin Allocs
      BY DEF Pcs, Ops, Allocs
    <3>3. SetCall(Idle, "check", "grow").op = "grow"
      BY <3>2, IdleRec, SetCallIs
    <3>4. QED
      BY <3>1, <3>2, <3>3
  <2>3. ASSUME NewCache(t) \/ Get(t) PROVE \E q : Aside(q)
    <3>1. PICK q : /\ r' = [r EXCEPT ![t] = q]
                   /\ q \in {Refilling("fill"), Refilling("refill"), Idle, [Idle EXCEPT !.pc = "get"]}
      BY <2>3 DEF NewCache, Get, Become
    <3> DEFINE f == Refilling("fill")
               a == Refilling("refill")
               g == [Idle EXCEPT !.pc = "get"]
    <3>2. q \in {f, a, Idle, g}
      BY <3>1
    <3>3. f.pc = "pop_load" /\ a.pc = "pop_load"
      BY RefillingIs DEF Allocs
    <3>4. g.pc = "get"
      BY GetIs
    <3> HIDE DEF f, a, g
    <3>5. q.pc \in Elsewhere
      BY <3>2, <3>3, <3>4, IdleRec DEF Elsewhere
    <3>6. QED
      BY <3>1, <3>5
  <2>4. ASSUME Deallocate(t) \/ Put(t) \/ DropCache(t) PROVE \E q : Aside(q)
    <3> DEFINE Back(q) == q = Idle \/ \E z, c : q = Pushing(z, c)
    <3>a. Back(Idle) /\ \A z, c : Back(Pushing(z, c))
      OBVIOUS
    <3> HIDE DEF Back
    <3>b. ASSUME Deallocate(t) PROVE \E q : r' = [r EXCEPT ![t] = q] /\ Back(q)
      BY <3>a, <3>b DEF Deallocate, Become
    <3>c. ASSUME Put(t) PROVE \E q : r' = [r EXCEPT ![t] = q] /\ Back(q)
      <4>1. PICK z, q : r' = [r EXCEPT ![t] = q] /\ q \in {Pushing(z, 1), Idle}
        BY <3>c DEF Put, Become
      <4>2. QED
        BY <3>a, <4>1
    <3>d. ASSUME DropCache(t) PROVE \E q : r' = [r EXCEPT ![t] = q] /\ Back(q)
      BY <3>a, <3>d DEF DropCache, Become
    <3>1. PICK q : r' = [r EXCEPT ![t] = q] /\ (q = Idle \/ \E z, c : q = Pushing(z, c))
      BY <2>4, <3>b, <3>c, <3>d DEF Back
    <3>2. q.op \notin Allocs
      BY <3>1, IdleRec, PushingOp DEF Allocs
    <3>3. QED
      BY <3>1, <3>2
  <2>5. ASSUME GetBack(t) \/ GetUnderflow(t) PROVE \E q : Aside(q)
    <3>1. PICK q : r' = [r EXCEPT ![t] = q] /\ (q = Idle \/ q = SetSize(Refilling("alloc"), kSizes[1]))
      BY <2>5 DEF GetBack, GetUnderflow, Become, SetSize
    <3> DEFINE i == Refilling("alloc")
    <3>2. i \in Rec /\ i.pc = "pop_load" /\ kSizes[1] \in Nat
      BY RefillingIs, SizesAre DEF Allocs
    <3> HIDE DEF i
    <3>3. SetSize(i, kSizes[1]).pc = "pop_load"
      BY <3>2, SetSizeIs
    <3>4. q.pc \in Elsewhere
      BY <3>1, <3>3, IdleRec DEF Elsewhere, i
    <3>5. QED
      BY <3>1, <3>4
  <2>6. QED
    BY <2>1, <2>2, <2>3, <2>4, <2>5
<1>3. ~Expanding(t)
  BY <1>1 DEF Expanding
<1>4. QED
  BY <1>1, <1>2, <1>3, FlagAside

\* A call of Allocate that has its answer.
LEMMA FinishRec ==
  ASSUME Going, NEW t \in Threads, NEW b, Finish(t, b)
  PROVE  \E q : r' = [r EXCEPT ![t] = q] /\ q.pc \in Elsewhere
<1>1. r[t] \in Rec
  BY DEF Going, Core, Types
<1> DEFINE g == [Idle EXCEPT !.pc = "get"]
           a == SetAgain(r[t], "pop_load", 1, Null, Null)
<1>2. PICK q : r' = [r EXCEPT ![t] = q] /\ (q = Idle \/ q = g \/ q = a)
  BY DEF Finish, Become, AllocateAgain, SetAgain
<1>3. a.pc = "pop_load"
  <2>1. "pop_load" \in Pcs /\ 1 \in Tries /\ Null \in Links
    BY DEF Pcs, Tries, Links
  <2>2. QED
    BY <1>1, <2>1, SetAgainIs
<1>4. g.pc = "get"
  BY GetIs
<1> HIDE DEF a, g
<1>5. q.pc \in Elsewhere
  BY <1>2, <1>3, <1>4, IdleRec DEF Elsewhere
<1>6. QED
  BY <1>2, <1>5

LEMMA FlagPops ==
  ASSUME Going, FlagHeld, NEW t \in Threads,
         PopLoad(t) \/ PopNext(t) \/ PopRetry(t) \/ PopCas(t)
  PROVE  FlagHeld'
<1>1. r[t].pc \in {"pop_load", "pop_next", "pop_cas"} /\ UNCHANGED <<flag, left, design>>
  BY DEF PopLoad, PopNext, PopRetry, PopCas, ReadHead, Unmoved
<1>2. r[t] \in Rec /\ Null \in Links /\ r[t].h \in Links /\ {"pop_next", "pop_cas", "expand", "lock", "flag"} \subseteq Pcs
  BY DEF Going, Core, Types, Rec, Links, Pcs
<1> DEFINE Aside(q) == r' = [r EXCEPT ![t] = q] /\ q.pc \in Elsewhere
<1>3. ASSUME ReadHead(t), design = "bridge" PROVE \E q : Aside(q)
  <2>1. CASE head[r[t].cls] # Null
    <3> DEFINE q == SetRead(r[t], "pop_next", head[r[t].cls], Null)
    <3>1. r' = [r EXCEPT ![t] = q]
      BY <1>3, <2>1 DEF ReadHead, Become, SetRead
    <3>2. q.pc = "pop_next"
      <4>1. head[r[t].cls] \in Links
        BY DEF Going, Core, Types, Rec
      <4>2. QED
        BY <1>2, <4>1, SetReadIs
    <3> HIDE DEF q
    <3>3. QED
      BY <3>1, <3>2 DEF Elsewhere
  <2>2. CASE head[r[t].cls] = Null /\ Finish(t, Null)
    BY <2>2, FinishRec
  <2>3. CASE head[r[t].cls] = Null /\ ~Finish(t, Null)
    <3>1. r[t].try # 2
      BY <1>3 DEF Going, Core, Shape
    <3> DEFINE q == SetRead(r[t], "flag", Null, Null)
    <3>2. r' = [r EXCEPT ![t] = q]
      BY <1>3, <2>3, <3>1 DEF ReadHead, Empty, Become, SetRead
    <3>3. q.pc = "flag"
      BY <1>2, SetReadIs
    <3> HIDE DEF q
    <3>4. QED
      BY <3>2, <3>3 DEF Elsewhere
  <2>4. QED
    BY <2>1, <2>2, <2>3
<1>4. ASSUME PopNext(t) PROVE \E q : Aside(q)
  <2> DEFINE m == next[r[t].h]
             q == SetLink(r[t], "pop_cas", m)
  <2>1. r' = [r EXCEPT ![t] = q]
    BY <1>4 DEF PopNext, Become, SetLink
  <2>2. m \in Links
    <3>1. r[t].h # Null
      BY <1>4 DEF PopNext, Going, Core, Reads
    <3>2. QED
      BY <1>2, <3>1 DEF Going, Core, Types, Links
  <2> HIDE DEF m
  <2>3. q.pc = "pop_cas"
    BY <1>2, <2>2, SetLinkIs
  <2> HIDE DEF q
  <2>4. QED
    BY <2>1, <2>3 DEF Elsewhere
<1>5. ASSUME PopCas(t) PROVE \E q : Aside(q)
  BY <1>5, FinishRec DEF PopCas
<1>6. ~Expanding(t)
  BY <1>1 DEF Expanding
<1>7. CASE design = "bridge"
  <2>1. \E q : Aside(q)
    BY <1>3, <1>4, <1>5, <1>7 DEF PopLoad, PopRetry
  <2>2. QED
    BY <1>1, <1>6, <2>1, FlagAside
<1>8. CASE design # "bridge"
  BY <1>1, <1>8 DEF FlagHeld
<1>9. QED
  BY <1>7, <1>8

\* A thread goes on pushing its chunk, or is done with it.
LEMMA FlagPushes ==
  ASSUME Going, FlagHeld, NEW t \in Threads,
         PushLink(t) \/ PushRetry(t) \/ PushCas(t) \/ Expand(t) \/ SlabLock(t)
  PROVE  FlagHeld'
<1> USE DEF Going, Core
<1>1. UNCHANGED <<flag, left, design>>
  BY DEF PushLink, PushRetry, PushCas, Expand, SlabLock, Quiet, Unmoved, Still
<1>2. r[t] \in Rec /\ Null \in Links /\ {"push_link", "push_cas", "unflag"} \subseteq Pcs
      /\ r[t].todo \in Seq(Nat)
  BY DEF Types, Links, Pcs, Rec
<1>3. CASE PushLink(t)
  <2> DEFINE q == SetHead(r[t], "push_cas", head[r[t].cls])
  <2>1. q.pc = "push_cas" /\ q.op = r[t].op
    <3>1. head[r[t].cls] \in Links /\ "push_cas" \in Pcs
      BY <1>2 DEF Types, Rec
    <3>2. QED
      BY <1>2, <3>1, SetHeadIs
  <2>2. r' = [r EXCEPT ![t] = q]
    BY <1>3 DEF PushLink, Become, SetHead
  <2> HIDE DEF q
  <2>3. r'[t] = q /\ \A u \in Threads : u # t => r'[u] = r[u]
    BY <2>2 DEF Types
  <2>4. Expanding(t) <=> Expanding(t)'
    BY <1>3, <2>1, <2>3 DEF Expanding, PushLink
  <2>5. QED
    BY <1>1, <2>3, <2>4, FlagKept DEF FlagMoves
<1>4. CASE PushRetry(t)
  <2> DEFINE q == SetHead(r[t], "push_link", Null)
  <2>1. q.pc = "push_link" /\ q.op = r[t].op
    BY <1>2, SetHeadIs
  <2>2. r' = [r EXCEPT ![t] = q]
    BY <1>4 DEF PushRetry, Become, SetHead
  <2> HIDE DEF q
  <2>3. r'[t] = q /\ \A u \in Threads : u # t => r'[u] = r[u]
    BY <2>2 DEF Types
  <2>4. Expanding(t) <=> Expanding(t)'
    BY <1>4, <2>1, <2>3 DEF Expanding, PushRetry
  <2>5. QED
    BY <1>1, <2>3, <2>4, FlagKept DEF FlagMoves
<1>5. CASE PushCas(t)
  <2> DEFINE z == r[t].todo
             y == Tail(z)
             e == <<>>
  <2>0. z # <<>> /\ y \in Seq(Nat) /\ e \in Seq(Nat)
    <3>1. z # <<>>
      BY <1>5 DEF PushCas, Shape
    <3> HIDE DEF z
    <3>2. z \in Seq(Nat)
      BY <1>2 DEF z
    <3>3. QED
      BY <3>1, <3>2, ElementsEmpty
  <2>1. CASE Len(z) > 1
    <3> DEFINE q == SetTodo(r[t], "push_link", Null, y)
    <3>1. q.pc = "push_link" /\ q.op = r[t].op
      <4> HIDE DEF y
      <4>1. QED
        BY <1>2, <2>0, SetTodoIs
    <3>2. r' = [r EXCEPT ![t] = q]
      BY <1>5, <2>1 DEF PushCas, Become, SetTodo
    <3> HIDE DEF q
    <3>3. r'[t] = q /\ \A u \in Threads : u # t => r'[u] = r[u]
      BY <3>2 DEF Types
    <3>4. Expanding(t) <=> Expanding(t)'
      BY <1>5, <3>1, <3>3 DEF Expanding, PushCas
    <3>5. QED
      BY <1>1, <3>3, <3>4, FlagKept DEF FlagMoves
  <2>2. CASE ~(Len(z) > 1)
    <3>1. r' = [r EXCEPT ![t] = AfterPushes(t)]
      BY <1>5, <2>2 DEF PushCas, Become
    <3>2. r'[t] = AfterPushes(t) /\ \A u \in Threads : u # t => r'[u] = r[u]
      BY <3>1 DEF Types
    <3>3. CASE Expanding(t) /\ design = "bridge"
      <4> DEFINE q == SetTodo(r[t], "unflag", Null, e)
      <4>1. AfterPushes(t) = q
        BY <3>3 DEF AfterPushes, SetTodo, Expanding
      <4>2. q.pc = "unflag" /\ q.op = r[t].op
        <5> HIDE DEF e
        <5>1. QED
          BY <1>2, <2>0, SetTodoIs
      <4> HIDE DEF q
      <4>3. Expanding(t)'
        BY <3>2, <3>3, <4>1, <4>2 DEF Expanding
      <4>4. QED
        BY <1>1, <3>2, <3>3, <4>3, FlagKept DEF FlagMoves
    <3>4. CASE ~Expanding(t) /\ design = "bridge"
      <4>1. r[t].op \in {"free", "grow"}
        <5>1. r[t].pc = "push_cas" /\ r[t].op \notin Allocs
          BY <1>5, <3>4 DEF PushCas, Expanding, Allocs
        <5>2. r[t].op # "none" /\ r[t].op \in Ops
          BY <1>2, <2>0 DEF Shape, Rec
        <5>3. QED
          BY <5>1, <5>2 DEF Ops
      <4>2. r'[t] = Idle
        BY <3>2, <4>1 DEF AfterPushes
      <4>3. ~Expanding(t)'
        BY <4>2, IdleRec DEF Expanding
      <4>4. QED
        BY <1>1, <3>2, <3>4, <4>3, FlagKept DEF FlagMoves
    <3>5. CASE design # "bridge"
      BY <1>1, <3>2, <3>5, FlagKept DEF FlagMoves
    <3>6. QED
      BY <3>3, <3>4, <3>5
  <2>3. QED
    BY <2>1, <2>2
<1>6. CASE Expand(t) \/ SlabLock(t)
  <2>1. design = "slab" \/ r[t].pc = "expand"
    BY <1>6 DEF Expand, SlabLock
  <2>2. design # "bridge"
    BY <2>1 DEF Shape
  <2>3. \E q : r' = [r EXCEPT ![t] = q]
    BY <1>6 DEF Expand, SlabLock, NewChunk, Become
  <2>4. \A u \in Threads : u # t => r'[u] = r[u]
    BY <2>3 DEF Types
  <2>5. QED
    BY <1>1, <2>2, <2>4, FlagKept DEF FlagMoves
<1>7. QED
  BY <1>3, <1>4, <1>5, <1>6

\* The steps around the flag and the limit.
LEMMA FlagSteps ==
  ASSUME Going, FlagHeld, NEW t \in Threads,
         \/ TakeFlag(t) \/ CheckLimit(t) \/ ExpandLocked(t) \/ ReleaseFlag(t) \/ NewThrows(t)
  PROVE  FlagHeld'
<1> USE DEF Going, Core
<1>1. UNCHANGED design
  BY DEF TakeFlag, CheckLimit, ExpandLocked, ReleaseFlag, NewThrows, Still
<1>2. r[t] \in Rec /\ {"push_link", "check", "lock", "unflag"} \subseteq Pcs
  BY DEF Types, Pcs
<1>3. \A q : r' = [r EXCEPT ![t] = q] => r'[t] = q /\ \A u \in Threads : u # t => r'[u] = r[u]
  BY DEF Types
<1>4. CASE TakeFlag(t)
  <2>1. r[t].pc = "flag" /\ design = "bridge" /\ left' = left
    BY <1>4 DEF TakeFlag, Shape, Still
  <2>2. r[t].op \in {"alloc", "fill", "refill"}
    BY <2>1 DEF Shape, Allocs
  <2>3. CASE flag
    <3>1. \E q : r' = [r EXCEPT ![t] = q]
      BY <1>4 DEF TakeFlag, Become
    <3>2. ~Expanding(t)
      BY <2>1 DEF Expanding
    <3>3. flag' = flag /\ r' = [r EXCEPT ![t] = SetTry(r[t], "pop_load", 4)]
      BY <1>4, <2>3 DEF TakeFlag, Become, SetTry
    <3>4. SetTry(r[t], "pop_load", 4).pc = "pop_load"
      <4>1. "pop_load" \in Pcs /\ 4 \in Tries
        BY DEF Pcs, Tries
      <4>2. QED
        BY <1>2, <4>1, SetTryIs
    <3>5. ~Expanding(t)'
      BY <1>3, <3>3, <3>4 DEF Expanding
    <3>6. QED
      BY <1>1, <1>3, <2>1, <3>1, <3>2, <3>3, <3>5, FlagKept DEF FlagMoves
  <2>4. CASE ~flag
    <3> DEFINE q == SetPc(r[t], "check")
    <3>1. q.pc = "check" /\ q.op = r[t].op
      BY <1>2, SetPcIs
    <3>2. r' = [r EXCEPT ![t] = q]
      BY <1>4, <2>4 DEF TakeFlag, Become, SetPc
    <3> HIDE DEF q
    <3>3. Expanding(t)'
      BY <1>3, <2>2, <3>1, <3>2 DEF Expanding
    <3>4. flag'
      BY <1>4 DEF TakeFlag
    <3>5. QED
      BY <1>1, <1>3, <2>1, <2>4, <3>1, <3>2, <3>3, <3>4, FlagKept DEF FlagMoves
  <2>5. QED
    BY <2>3, <2>4
<1>5. CASE CheckLimit(t) \/ ExpandLocked(t)
  <2>1. r[t].pc \in {"check", "lock"} /\ UNCHANGED <<left, flag>>
    BY <1>5 DEF CheckLimit, ExpandLocked, Still
  <2>2. \E q : /\ r' = [r EXCEPT ![t] = q]
               /\ \/ q.op = r[t].op /\ q.pc \in {"lock", "push_link", "unflag"}
                  \/ r[t].op = "grow" /\ q = Idle
    <3> DEFINE n == NextChunk
               z == [i \in 1..Pushed(n) |-> Len(class) + i]
               q1 == SetPc(r[t], "unflag")
               q2 == SetPc(r[t], "lock")
               q3 == SetTryTodo(r[t], "push_link", 3, Null, z)
    <3>1. q1.op = r[t].op /\ q1.pc = "unflag" /\ q2.op = r[t].op /\ q2.pc = "lock"
      BY <1>2, SetPcIs
    <3>2. q3.op = r[t].op /\ q3.pc = "push_link"
      <4>1. Len(class) \in Nat /\ n \in Nat
        BY PoolsAssumption DEF Types, NextChunk
      <4> HIDE DEF n
      <4>2. z \in Seq(Nat)
        BY <4>1 DEF Pushed
      <4>3. Null \in Links /\ "push_link" \in Pcs /\ 3 \in Tries
        BY DEF Links, Pcs, Tries
      <4> HIDE DEF z
      <4>4. QED
        BY <1>2, <4>2, <4>3, SetTryTodoIs
    <3>3. \/ r' = [r EXCEPT ![t] = Idle] /\ r[t].op = "grow"
          \/ r' = [r EXCEPT ![t] = q1]
          \/ r' = [r EXCEPT ![t] = q2]
          \/ r' = [r EXCEPT ![t] = q3]
      BY <1>5 DEF CheckLimit, ExpandLocked, Return, NewChunk, Become, SetPc, SetTryTodo
    <3> HIDE DEF q1, q2, q3
    <3>4. QED
      BY <3>1, <3>2, <3>3
  <2>3. \A u \in Threads : u # t => r'[u] = r[u]
    BY <1>3, <2>2
  <2>4. Expanding(t)' <=> Expanding(t)
    BY <1>3, <2>1, <2>2, IdleRec DEF Expanding
  <2>5. QED
    BY <1>1, <2>1, <2>3, <2>4, FlagKept DEF FlagMoves
<1>6. CASE ReleaseFlag(t)
  <2>1. flag' = FALSE /\ r[t].pc = "unflag" /\ left' = left
        /\ r' = [r EXCEPT ![t] = SetTry(r[t], "pop_load", 3)]
    BY <1>6 DEF ReleaseFlag, Become, SetTry, Still
  <2>2. SetTry(r[t], "pop_load", 3).pc = "pop_load"
    <3>1. "pop_load" \in Pcs /\ 3 \in Tries
      BY DEF Pcs, Tries
    <3>2. QED
      BY <1>2, <3>1, SetTryIs
  <2>3. ~Expanding(t)'
    BY <1>3, <2>1, <2>2 DEF Expanding
  <2>4. design = "bridge" /\ Expanding(t)
    BY <2>1 DEF Shape, Allocs, Expanding
  <2>5. \A u \in Threads : u # t => r'[u] = r[u]
    BY <1>3, <2>1
  <2>6. QED
    BY <1>1, <2>1, <2>3, <2>4, <2>5, FlagKept DEF FlagMoves
<1>7. CASE NewThrows(t)
  <2>1. /\ flag' = flag /\ r' = [r EXCEPT ![t] = Idle]
        /\ left' = (left \/ (design = "bridge" /\ r[t].op # "grow"))
    BY <1>7 DEF NewThrows, Leave, Become
  <2>2. r'[t] = Idle /\ \A u \in Threads : u # t => r'[u] = r[u]
    BY <1>3, <2>1
  <2>3. ~Expanding(t)'
    BY <2>2, IdleRec DEF Expanding
  <2>4. CASE design # "bridge"
    <3>1. left' <=> left
      BY <2>1, <2>4
    <3>2. QED
      BY <1>1, <2>1, <2>2, <2>4, <3>1, FlagKept DEF FlagMoves
  <2>5. CASE design = "bridge" /\ r[t].op = "grow"
    <3>1. ~Expanding(t) /\ (left' <=> left)
      BY <2>1, <2>5 DEF Expanding
    <3>2. QED
      BY <1>1, <2>1, <2>2, <2>3, <3>1, FlagKept DEF FlagMoves
  <2>6. CASE design = "bridge" /\ r[t].op # "grow"
    <3>1. Expanding(t)
      BY <1>7, <2>6 DEF NewThrows, Shape, Allocs, Expanding
    <3>2. left'
      BY <2>1, <2>6
    <3>3. QED
      BY <1>1, <2>1, <2>2, <2>3, <2>6, <3>1, <3>2, FlagKept DEF FlagMoves
  <2>7. QED
    BY <2>4, <2>5, <2>6
<1>8. QED
  BY <1>4, <1>5, <1>6, <1>7

LEMMA StepFlag ==
  ASSUME PoolsInv, FlagHeld, [Next]_vars
  PROVE  FlagHeld'
<1>1. ASSUME Going, NEW t \in Threads, Step(t)
      PROVE  FlagHeld'
  <2>1. CASE NewTerminates(t)
    BY <2>1 DEF NewTerminates, FlagHeld, Expanding
  <2>2. QED
    BY <1>1, <2>1, FlagCalls, FlagPops, FlagPushes, FlagSteps DEF Step
<1>2. CASE UNCHANGED vars
  BY <1>2 DEF vars, FlagHeld, Expanding
<1>3. QED
  BY <1>1, <1>2, StepGoing DEF Next

\* A step moves no other thread.
LEMMA StepMoves ==
  ASSUME r \in [Threads -> Rec], NEW t \in Threads, Step(t)
  PROVE  \A u \in Threads : u # t => r'[u] = r[u]
<1>1. (\E q : r' = [r EXCEPT ![t] = q]) \/ r' = r
  <2>1. \A x : Finish(t, x) => \E q : r' = [r EXCEPT ![t] = q]
    BY DEF Finish, Become
  <2>2. CASE PopLoad(t) \/ PopNext(t) \/ PopRetry(t) \/ PopCas(t)
    <3>1. ReadHead(t) => \E q : r' = [r EXCEPT ![t] = q]
      BY <2>1 DEF ReadHead, Empty, Become
    <3>2. QED
      BY <2>1, <2>2, <3>1 DEF PopLoad, PopNext, PopRetry, PopCas, Become
  <2>3. CASE \/ PushLink(t) \/ PushCas(t) \/ PushRetry(t) \/ Expand(t) \/ SlabLock(t)
    BY <2>3 DEF PushLink, PushCas, PushRetry, Expand, SlabLock, NewChunk, Become
  <2>4. CASE \/ TakeFlag(t) \/ CheckLimit(t) \/ ExpandLocked(t) \/ ReleaseFlag(t)
             \/ NewThrows(t) \/ NewTerminates(t)
    BY <2>4 DEF TakeFlag, CheckLimit, ExpandLocked, ReleaseFlag, NewThrows, NewTerminates,
                Leave, Return, NewChunk, Become
  <2>5. CASE \/ Allocate(t) \/ Deallocate(t) \/ CallExpand(t) \/ NewCache(t) \/ Get(t)
             \/ GetBack(t) \/ GetUnderflow(t) \/ Put(t) \/ DropCache(t)
    BY <2>5 DEF Allocate, Deallocate, CallExpand, NewCache, Get, GetBack, GetUnderflow, Put,
                DropCache, Become
  <2>6. QED
    BY <2>2, <2>3, <2>4, <2>5 DEF Step
<1>2. QED
  BY <1>1

\* At the flag, a thread takes it.
LEMMA FlagStepIs ==
  ASSUME NEW t \in Threads, Step(t), r[t].pc = "flag"
  PROVE  TakeFlag(t)
BY DEF Step, Allocate, Deallocate, CallExpand, Start, PopLoad, PopNext, PopCas, PopRetry,
       PushLink, PushCas, PushRetry, Expand, SlabLock, CheckLimit, ExpandLocked, ReleaseFlag,
       NewThrows, NewTerminates, NewCache, Get, GetBack, GetUnderflow, Put, DropCache

-----------------------------------------------------------------------------
(* The theorems *)

\* The inductive invariant of the pools.
THEOREM PoolsSafe == Spec => []PoolsInv
<1>1. Init => PoolsInv
  BY InitInv
<1>2. PoolsInv /\ [Next]_vars => PoolsInv'
  BY StepInv
<1>3. QED
  BY <1>1, <1>2, PTL DEF Spec

\* is_expanding_ is raised only by the one thread that expands, or was left so by an
\* exception, and then no Allocate expands.
THEOREM PoolsFlag == Spec => []FlagHeld
<1>1. Init => FlagHeld
  BY IdleRec DEF Init, FlagHeld, Expanding
<1>2. PoolsInv /\ FlagHeld /\ [Next]_vars => FlagHeld'
  BY StepFlag
<1>3. QED
  BY <1>1, <1>2, PoolsSafe, PTL DEF Spec

\* LockFreeStack: the links spell the free lists until a recycled head is met,
\* for any number of threads that push, pop and expand at once, with expansions
\* that fail.
THEOREM MemoryStackLinked == Spec => []StackLinked
<1>1. PoolsInv => StackLinked
  BY DEF PoolsInv, Linked, StackLinked
<1>2. QED
  BY <1>1, PoolsSafe, PTL

\* A held block is large enough for the request, always: even a pop that meets a
\* recycled head, or an empty cache, hands out a block of the pool's own class.
THEOREM MemoryFitsRequest == Spec => []FitsRequest
<1>1. PoolsInv => FitsRequest
  BY DEF PoolsInv
<1>2. QED
  BY <1>1, PoolsSafe, PTL

\* max_chunks_ holds for any number of callers of Allocate and Expand.
THEOREM MemoryChunkLimit == Spec => []ChunkLimit
<1>1. PoolsInv => ChunkLimit
  BY DEF PoolsInv
<1>2. QED
  BY <1>1, PoolsSafe, PTL

\* Every block of every chunk has exactly one owner, whichever expansions fail:
\* Allocate gives no block to two clients and the caches lose none.  The only
\* exceptions are a recycled head and the last element of an empty cache.
THEOREM MemoryOneOwner == Spec => []OneOwner
<1>1. ASSUME Core, NEW b \in Blocks
      PROVE  Places(b) = 1
  <2> DEFINE F == {c \in Classes : b \in Elements(stack[c])}
             H == {t \in Threads : \E p \in held[t] : p[1] = b}
             K == {t \in Threads : b \in Elements(cache[t])}
             P == {t \in Threads : b \in Elements(r[t].todo)}
             D == IF b \in dropped THEN 1 ELSE 0
  <2>1. PICK w \in Where : Home(b, w)
    BY <1>1 DEF Core, Homes
  <2>2. /\ \A c \in Classes : c \in F <=> <<"free", c>> = w
        /\ \A t \in Threads : /\ t \in H <=> <<"held", t>> = w
                              /\ t \in K <=> <<"cache", t>> = w
                              /\ t \in P <=> <<"todo", t>> = w
        /\ b \in dropped <=> <<"dropped", 0>> = w
    <3>1. ASSUME NEW c \in Classes
          PROVE  c \in F <=> <<"free", c>> = w
      <4>1. <<"free", c>> \in Where /\ At(<<"free", c>>) = Elements(stack[c])
        BY WhereAre, AtAre
      <4>2. QED
        BY <2>1, <4>1 DEF Home
    <3>2. ASSUME NEW t \in Threads
          PROVE  /\ t \in H <=> <<"held", t>> = w
                 /\ t \in K <=> <<"cache", t>> = w
                 /\ t \in P <=> <<"todo", t>> = w
      <4>1. /\ <<"held", t>> \in Where /\ At(<<"held", t>>) = {p[1] : p \in held[t]}
            /\ <<"cache", t>> \in Where /\ At(<<"cache", t>>) = Elements(cache[t])
            /\ <<"todo", t>> \in Where /\ At(<<"todo", t>>) = Elements(r[t].todo)
        BY WhereAre, AtAre
      <4>2. t \in H <=> b \in {p[1] : p \in held[t]}
        OBVIOUS
      <4>3. QED
        BY <2>1, <4>1, <4>2 DEF Home
    <3>3. b \in dropped <=> <<"dropped", 0>> = w
      BY <2>1, WhereAre, AtAre DEF Home
    <3>4. QED
      BY <3>1, <3>2, <3>3
  <2>3. Places(b) = Cardinality(F) + Cardinality(H) + Cardinality(K) + Cardinality(P) + D
    BY DEF Places
  <2>4. F \subseteq Classes /\ H \subseteq Threads /\ K \subseteq Threads /\ P \subseteq Threads
    OBVIOUS
  <2>5. D = IF <<"dropped", 0>> = w THEN 1 ELSE 0
    BY <2>2
  <2>6. Cardinality({}) = 0 /\ \A x : Cardinality({x}) = 1
    BY FS_EmptySet, FS_Singleton
  <2> HIDE DEF F, H, K, P, D
  <2>7. ASSUME NEW c \in Classes, w = <<"free", c>>
        PROVE  Places(b) = 1
    <3>1. F = {c} /\ H = {} /\ K = {} /\ P = {} /\ D = 0
      BY <2>2, <2>4, <2>5, <2>7
    <3>2. Cardinality(F) = 1 /\ Cardinality(H) = 0 /\ Cardinality(K) = 0 /\ Cardinality(P) = 0
      BY <2>6, <3>1
    <3>3. QED
      BY <2>3, <3>1, <3>2
  <2>8. ASSUME NEW t \in Threads, w \in {<<"held", t>>, <<"cache", t>>, <<"todo", t>>}
        PROVE  Places(b) = 1
    <3>1. CASE w = <<"held", t>>
      <4>1. F = {} /\ H = {t} /\ K = {} /\ P = {} /\ D = 0
        BY <2>2, <2>4, <2>5, <3>1
      <4>2. Cardinality(F) = 0 /\ Cardinality(H) = 1 /\ Cardinality(K) = 0 /\ Cardinality(P) = 0
        BY <2>6, <4>1
      <4>3. QED
        BY <2>3, <4>1, <4>2
    <3>2. CASE w = <<"cache", t>>
      <4>1. F = {} /\ H = {} /\ K = {t} /\ P = {} /\ D = 0
        BY <2>2, <2>4, <2>5, <3>2
      <4>2. QED
        BY <2>3, <2>6, <4>1
    <3>3. CASE w = <<"todo", t>>
      <4>1. F = {} /\ H = {} /\ K = {} /\ P = {t} /\ D = 0
        BY <2>2, <2>4, <2>5, <3>3
      <4>2. QED
        BY <2>3, <2>6, <4>1
    <3>4. QED
      BY <2>8, <3>1, <3>2, <3>3
  <2>9. CASE w = <<"dropped", 0>>
    <3>1. F = {} /\ H = {} /\ K = {} /\ P = {} /\ D = 1
      BY <2>2, <2>4, <2>5, <2>9
    <3>2. QED
      BY <2>3, <2>6, <3>1
  <2>10. QED
    BY <2>7, <2>8, <2>9, WhereAre
<1>2. PoolsInv => OneOwner
  BY <1>1 DEF PoolsInv, OneOwner
<1>3. QED
  BY <1>2, PoolsSafe, PTL

\* Allocate answers null only when others popped a whole chunk behind its back, the
\* limit was reached or is_expanding_ was raised; and it is raised only while another
\* thread expands or after operator new failed in such an expansion, which leaves it
\* raised for good and keeps every Allocate from expanding.
THEOREM MemoryNullExplained == Spec => NullExplained
<1> DEFINE Why(t) == \/ stolen[t] >= NextChunk
                     \/ design = "bridge" /\ (r[t].try = 4 \/ AtLimit)
           Who(t) == left \/ \E u \in Threads \ {t} : Expanding(u)
<1>1. ASSUME PoolsInv, [Next]_vars, NEW t \in Threads, AnswersNull(t)
      PROVE  Why(t)
  <2>1. AnswersNull(t)
    BY <1>1
  <2>2. Going
    <3>1. r' # r
      BY <2>1 DEF AnswersNull
    <3>2. Next
      BY <1>1, <3>1 DEF vars
    <3>3. QED
      BY <1>1, <3>2, StepGoing
  <2>3. /\ r[t] \in Rec /\ r[t].cls \in Classes /\ r[t].try \in Tries /\ Shape(r[t]) /\ Counted(t)
        /\ Linked(r[t].cls) /\ stack[r[t].cls] \in Seq(Nat) /\ stolen[t] \in Nat
    BY <2>2 DEF Going, Core, Types, Rec
  <2>4. r[t].try > 2 /\ r[t].pc \in {"pop_load", "pop_cas"} /\ head[r[t].cls] = Null
    BY <2>1 DEF AnswersNull
  <2>5. r[t].try = 3 \/ r[t].try = 4
    BY <2>3, <2>4 DEF Tries
  <2>6. r[t].todo = <<>>
    BY <2>3, <2>4 DEF Shape
  <2>7. stack[r[t].cls] = <<>>
    <3>1. stack[r[t].cls] # <<>> => stack[r[t].cls][1] \in Nat
      BY <2>3
    <3>2. QED
      BY <2>3, <2>4, <3>1, PoolsAssumption DEF Linked
  <2>8. NextChunk \in Nat
    BY PoolsAssumption DEF NextChunk
  <2>9. CASE r[t].try = 3
    <3>1. CASE design = "bridge" /\ AtLimit
      BY <3>1
    <3>2. CASE ~(design = "bridge" /\ AtLimit)
      <4>1. Len(stack[r[t].cls]) + Len(r[t].todo) + stolen[t] >= NextChunk
        BY <2>3, <2>9, <3>2 DEF Counted
      <4>2. Len(stack[r[t].cls]) = 0 /\ Len(r[t].todo) = 0
        BY <2>6, <2>7
      <4>3. QED
        BY <2>3, <2>8, <4>1, <4>2
    <3>3. QED
      BY <3>1, <3>2
  <2>10. CASE r[t].try = 4
    BY <2>3, <2>10 DEF Shape
  <2>11. QED
    BY <2>5, <2>9, <2>10
<1>2. ASSUME PoolsInv, FlagHeld, [Next]_vars, NEW t \in Threads, FindsFlag(t)
      PROVE  Who(t)
  <2>1. r[t].pc = "flag" /\ r'[t].pc = "pop_load"
    BY <1>2 DEF FindsFlag
  <2>2. r' # r
    <3>1. "flag" # "pop_load"
      OBVIOUS
    <3>2. QED
      BY <2>1, <3>1
  <2>3. Going /\ Next
    <3>1. Next
      BY <1>2, <2>2 DEF vars
    <3>2. QED
      BY <1>2, <3>1, StepGoing
  <2>4. PICK u \in Threads : Step(u)
    BY <2>3 DEF Next
  <2>5. r \in [Threads -> Rec]
    BY <2>3 DEF Going, Core, Types
  <2>6. u = t
    <3>1. SUFFICES ASSUME u # t PROVE FALSE
      OBVIOUS
    <3>2. r'[t] = r[t]
      BY <2>4, <2>5, <3>1, StepMoves
    <3>3. QED
      BY <2>1, <3>2
  <2>7. flag
    <3>1. TakeFlag(t)
      BY <2>1, <2>4, <2>6, FlagStepIs
    <3>2. r[t] \in Rec
      BY <2>5
    <3>3. ~flag => r'[t].pc = "check"
      BY <2>5, <3>1, <3>2, SetPcIs DEF TakeFlag, Become
    <3>4. QED
      BY <2>1, <3>3
  <2>8. left \/ \E v \in Threads : Expanding(v)
    BY <1>2, <2>7 DEF FlagHeld
  <2>9. ~Expanding(t)
    BY <2>1 DEF Expanding
  <2>10. QED
    BY <2>8, <2>9
<1>3. ASSUME FlagHeld, FlagHeld', [Next]_vars, NEW t \in Threads, left
      PROVE  left' /\ flag' /\ ~Expanding(t)'
  <2>1. left'
    <3>1. ASSUME NEW u \in Threads, Step(u)
          PROVE  left'
      <4>1. CASE PopLoad(u) \/ PopNext(u) \/ PopRetry(u) \/ PopCas(u)
        <5>1. ReadHead(u) => UNCHANGED left
          BY DEF ReadHead, Unmoved
        <5>2. QED
          BY <1>3, <4>1, <5>1 DEF PopLoad, PopNext, PopRetry, PopCas, Unmoved
      <4>2. CASE PushLink(u) \/ PushCas(u) \/ PushRetry(u) \/ Expand(u) \/ SlabLock(u)
        BY <1>3, <4>2 DEF PushLink, PushCas, PushRetry, Expand, SlabLock, Unmoved, Quiet, Still
      <4>3. CASE \/ TakeFlag(u) \/ CheckLimit(u) \/ ExpandLocked(u) \/ ReleaseFlag(u)
                 \/ NewThrows(u) \/ NewTerminates(u)
        BY <1>3, <4>3 DEF TakeFlag, CheckLimit, ExpandLocked, ReleaseFlag, NewThrows,
                          NewTerminates, Still
      <4>4. CASE \/ Allocate(u) \/ Deallocate(u) \/ CallExpand(u) \/ NewCache(u) \/ Get(u)
                 \/ GetBack(u) \/ GetUnderflow(u) \/ Put(u) \/ DropCache(u)
        BY <1>3, <4>4 DEF Allocate, Deallocate, CallExpand, Start, NewCache, Get, GetBack,
                          GetUnderflow, Put, DropCache
      <4>5. QED
        BY <3>1, <4>1, <4>2, <4>3, <4>4 DEF Step
    <3>2. QED
      BY <1>3, <3>1 DEF Next, vars
  <2>2. QED
    BY <1>3, <2>1 DEF FlagHeld
<1>4. PoolsInv /\ FlagHeld /\ FlagHeld' /\ [Next]_vars =>
        [\A t \in Threads :
           /\ AnswersNull(t) => \/ stolen[t] >= NextChunk
                                \/ design = "bridge" /\ (r[t].try = 4 \/ AtLimit)
           /\ FindsFlag(t) => left \/ \E u \in Threads \ {t} : Expanding(u)
           /\ left => left' /\ flag' /\ ~Expanding(t)']_vars
  BY <1>1, <1>2, <1>3
<1>5. QED
  BY <1>4, PoolsSafe, PoolsFlag, PTL DEF Spec, NullExplained
=============================================================================
