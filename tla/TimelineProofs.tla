--------------------------- MODULE TimelineProofs ---------------------------
(***************************************************************************)
(* Proofs about what is shown of a turn, for any agents and any number of  *)
(* turns, messages, pieces and permission requests: the state keeps its    *)
(* type, a permission that is waited for can be answered, and a turn that  *)
(* completed is on the screen as the agent said it.                        *)
(***************************************************************************)
EXTENDS Timeline, SequenceTheorems, FiniteSetTheorems, TLAPS

-----------------------------------------------------------------------------
(* Folding over one event, and over two                                    *)

LEMMA LargestOf == Max({1}) = 1 /\ Max({2}) = 2 /\ Max({1, 2}) = 2
<1>1. Max({1}) = 1
  BY DEF Max
<1>2. Max({2}) = 2
  BY DEF Max
<1>3. \A x \in {1, 2} : (\A y \in {1, 2} : x >= y) <=> x = 2
  OBVIOUS
<1>4. Max({1, 2}) = 2
  <2>1. \E x \in {1, 2} : \A y \in {1, 2} : x >= y
    BY <1>3
  <2> QED BY <1>3, <2>1 DEF Max
<1> QED BY <1>1, <1>2, <1>4

LEMMA ConcatTwo ==
    ASSUME NEW x, NEW y
    PROVE  <<x>> \o <<y>> = <<x, y>>
<1> DEFINE S == {x, y}
<1>1. <<x>> \in Seq(S) /\ <<y>> \in Seq(S) /\ <<x, y>> \in Seq(S)
  BY SeqDef
<1>2. /\ Len(<<x>>) = 1 /\ Len(<<y>>) = 1 /\ Len(<<x, y>>) = 2
      /\ <<x>>[1] = x /\ <<y>>[1] = y /\ <<x, y>>[1] = x /\ <<x, y>>[2] = y
  OBVIOUS
<1> HIDE DEF S
<1>3. /\ <<x>> \o <<y>> \in Seq(S) /\ Len(<<x>> \o <<y>>) = Len(<<x>>) + Len(<<y>>)
      /\ \A i \in 1 .. Len(<<x>>) + Len(<<y>>) :
            (<<x>> \o <<y>>)[i] = IF i <= Len(<<x>>) THEN <<x>>[i] ELSE <<y>>[i - Len(<<x>>)]
  BY <1>1, ConcatProperties
<1>4. (<<x>> \o <<y>>)[1] = x /\ (<<x>> \o <<y>>)[2] = y /\ Len(<<x>> \o <<y>>) = 2
  BY <1>2, <1>3
<1>5. \A i \in 1 .. 2 : i = 1 \/ i = 2
  OBVIOUS
<1>6. \A i \in 1 .. Len(<<x>> \o <<y>>) : (<<x>> \o <<y>>)[i] = <<x, y>>[i]
  BY <1>2, <1>4, <1>5
<1> QED BY <1>1, <1>2, <1>3, <1>4, <1>6, SeqEqual

LEMMA FoldOne ==
    ASSUME NEW list, NEW x
    PROVE  FoldLeft(AppendItem, list, <<x>>) = AppendItem(list, x)
<1> DEFINE body(g) == [s \in SUBSET {1} |->
                         IF s = {} THEN list
                         ELSE AppendItem(g[s \ {Max(s)}], <<x>>[Max(s)])]
           h == [s \in SUBSET {1} |-> IF s = {} THEN list ELSE AppendItem(list, x)]
<1>1. h = body(h)
  <2>1. ASSUME NEW s \in SUBSET {1} PROVE h[s] = body(h)[s]
    <3>1. CASE s = {}
      BY <3>1
    <3>2. CASE s = {1}
      <4>1. s \ {Max(s)} = {} /\ Max(s) = 1
        BY <3>2, LargestOf
      <4>2. body(h)[s] = AppendItem(h[{}], <<x>>[1])
        BY <3>2, <4>1
      <4>3. h[{}] = list
        OBVIOUS
      <4> QED BY <3>2, <4>2, <4>3
    <3> QED BY <3>1, <3>2
  <2> HIDE DEF h
  <2>2. body(h) = [s \in SUBSET {1} |-> body(h)[s]]
    OBVIOUS
  <2>3. h = [s \in SUBSET {1} |-> h[s]]
    BY DEF h
  <2> QED BY <2>1, <2>2, <2>3
<1>2. \A g : g = body(g) => g[{1}] = AppendItem(list, x)
  <2>1. SUFFICES ASSUME NEW g, g = body(g) PROVE g[{1}] = AppendItem(list, x)
    OBVIOUS
  <2>2. {1} \ {Max({1})} = {} /\ Max({1}) = 1
    BY LargestOf
  <2>3. body(g)[{1}] = AppendItem(g[{1} \ {Max({1})}], <<x>>[Max({1})])
    OBVIOUS
  <2>4. body(g)[{}] = list
    OBVIOUS
  <2> HIDE DEF body
  <2>5. g[{1} \ {Max({1})}] = list
    BY <2>1, <2>2, <2>4
  <2> QED BY <2>1, <2>2, <2>3, <2>5
<1>3. (CHOOSE g : g = body(g)) = body(CHOOSE g : g = body(g))
  BY <1>1
<1>4. FoldLeft(AppendItem, list, <<x>>) = (CHOOSE g : g = body(g))[{1}]
  BY DOMAIN <<x>> = {1} DEF FoldLeft, MapThenFoldSet
<1> QED BY <1>2, <1>3, <1>4

AppendTwo(list, x, y) == AppendItem(AppendItem(list, x), y)

LEMMA FoldTwo ==
    ASSUME NEW list, NEW x, NEW y
    PROVE  FoldLeft(AppendItem, list, <<x, y>>) = AppendTwo(list, x, y)
<1> USE DEF AppendTwo
<1> DEFINE body(g) == [s \in SUBSET {1, 2} |->
                         IF s = {} THEN list
                         ELSE AppendItem(g[s \ {Max(s)}], <<x, y>>[Max(s)])]
           h == [s \in SUBSET {1, 2} |->
                   IF s = {} THEN list
                   ELSE IF s = {1} THEN AppendItem(list, x)
                   ELSE IF s = {2} THEN AppendItem(list, y)
                   ELSE AppendItem(AppendItem(list, x), y)]
<1>0. {1} \ {Max({1})} = {} /\ {2} \ {Max({2})} = {} /\ {1, 2} \ {Max({1, 2})} = {1}
  BY LargestOf
<1>1. h = body(h)
  <2>0. h[{}] = list /\ h[{1}] = AppendItem(list, x) /\ h[{2}] = AppendItem(list, y)
    <3>1. {1} # {} /\ {2} # {} /\ {2} # {1}
      OBVIOUS
    <3> QED BY <3>1
  <2>00. h[{1, 2}] = AppendItem(AppendItem(list, x), y)
    <3>1. {1, 2} # {} /\ {1, 2} # {1} /\ {1, 2} # {2}
      OBVIOUS
    <3> QED BY <3>1
  <2>01. h = [s \in SUBSET {1, 2} |-> h[s]]
    OBVIOUS
  <2> HIDE DEF h
  <2>1. ASSUME NEW s \in SUBSET {1, 2} PROVE h[s] = body(h)[s]
    <3>1. CASE s = {}
      BY <2>0, <3>1
    <3>2. CASE s = {1}
      <4>1. body(h)[s] = AppendItem(h[{}], <<x, y>>[1])
        BY <3>2, <1>0, LargestOf
      <4> QED BY <3>2, <4>1, <2>0
    <3>3. CASE s = {2}
      <4>1. body(h)[s] = AppendItem(h[{}], <<x, y>>[2])
        BY <3>3, <1>0, LargestOf
      <4> QED BY <3>3, <4>1, <2>0
    <3>4. CASE s = {1, 2}
      <4>1. body(h)[s] = AppendItem(h[{1}], <<x, y>>[2])
        BY <3>4, <1>0, LargestOf
      <4> QED BY <3>4, <4>1, <2>0, <2>00
    <3> QED BY <3>1, <3>2, <3>3, <3>4
  <2>2. body(h) = [s \in SUBSET {1, 2} |-> body(h)[s]]
    OBVIOUS
  <2> HIDE DEF body
  <2> QED BY <2>01, <2>1, <2>2
<1>2. \A g : g = body(g) => g[{1, 2}] = AppendItem(AppendItem(list, x), y)
  <2>1. SUFFICES ASSUME NEW g, g = body(g)
                 PROVE  g[{1, 2}] = AppendItem(AppendItem(list, x), y)
    OBVIOUS
  <2>2. body(g)[{1, 2}] = AppendItem(g[{1, 2} \ {Max({1, 2})}], <<x, y>>[Max({1, 2})])
    OBVIOUS
  <2>3. body(g)[{1}] = AppendItem(g[{1} \ {Max({1})}], <<x, y>>[Max({1})])
    OBVIOUS
  <2>4. body(g)[{}] = list
    OBVIOUS
  <2> HIDE DEF body
  <2>5. g[{1}] = AppendItem(list, x)
    BY <2>1, <2>3, <2>4, <1>0, LargestOf
  <2> QED BY <2>1, <2>2, <2>5, <1>0, LargestOf
<1>3. (CHOOSE g : g = body(g)) = body(CHOOSE g : g = body(g))
  BY <1>1
<1>4. FoldLeft(AppendItem, list, <<x, y>>) = (CHOOSE g : g = body(g))[{1, 2}]
  BY DOMAIN <<x, y>> = {1, 2} DEF FoldLeft, MapThenFoldSet
<1> QED BY <1>2, <1>3, <1>4

-----------------------------------------------------------------------------
(* The list                                                                *)

Words == {"assistant", "reasoning"}

\* The place of an item that a new one takes, if it takes one.
Replaces(list, x, p) ==
    /\ x.kind \in Words \cup {"tool"}
    /\ p \in 1 .. Len(list) /\ list[p].kind = x.kind
    /\ x.kind \in Words => p = Len(list) /\ list[p].turn = x.turn
    /\ x.kind = "tool" => list[p].of = x.of

\* The item x comes into the list at place p.
Puts(list, x, p, new) ==
    /\ list \in Seq(Item) /\ new \in Seq(Item) /\ x \in Item
    /\ Len(list) \in Nat /\ Len(new) \in Nat /\ p \in 1 .. Len(new)
    /\ \/ Replaces(list, x, p) /\ Len(new) = Len(list)
       \/ /\ p = Len(list) + 1 /\ Len(new) = p
          /\ \A q : ~Replaces(list, x, q)
    /\ new[p] = x
    /\ \A i \in 1 .. Len(list) : i # p => new[i] = list[i]

LEMMA AppendPuts ==
    ASSUME NEW list \in Seq(Item), NEW x \in Item, \A q : ~Replaces(list, x, q)
    PROVE  Puts(list, x, Len(list) + 1, Append(list, x))
<1>1. /\ Append(list, x) \in Seq(Item)
      /\ Len(Append(list, x)) = Len(list) + 1
      /\ \A i \in 1 .. Len(list) : Append(list, x)[i] = list[i]
      /\ Append(list, x)[Len(list) + 1] = x
  BY AppendProperties
<1>2. Len(list) \in Nat
  BY LenProperties
<1> HIDE DEF Item
<1> QED BY <1>1, <1>2 DEF Puts

LEMMA ExceptPuts ==
    ASSUME NEW list \in Seq(Item), NEW x \in Item, NEW p, Replaces(list, x, p)
    PROVE  Puts(list, x, p, [list EXCEPT ![p] = x])
<1>1. p \in 1 .. Len(list) /\ Len(list) \in Nat
  BY LenProperties DEF Replaces
<1>2. /\ [list EXCEPT ![p] = x] \in Seq(Item)
      /\ Len([list EXCEPT ![p] = x]) = Len(list)
      /\ \A j \in 1 .. Len(list) : [list EXCEPT ![p] = x][j] = IF j = p THEN x ELSE list[j]
  BY <1>1, ExceptSeq
<1> QED BY <1>1, <1>2 DEF Puts

LEMMA AppendItemPuts ==
    ASSUME NEW list \in Seq(Item), NEW x \in Item, x.kind \in Words \cup {"tool"}
    PROVE  \E p \in Nat : Puts(list, x, p, AppendItem(list, x))
<1> DEFINE calls == {i \in DOMAIN list : list[i].kind = "tool" /\ list[i].of = x.of}
           grows == /\ list # <<>>
                    /\ Last(list).kind = x.kind /\ Last(list).turn = x.turn
<1>1. /\ Len(list) \in Nat /\ DOMAIN list = 1 .. Len(list)
      /\ list # <<>> => Len(list) \in 1 .. Len(list)
  BY LenProperties, EmptySeq
<1>2. CASE x.kind \in Words /\ grows
  <2>1. Replaces(list, x, Len(list))
    BY <1>1, <1>2 DEF Replaces, Last, Words
  <2>2. AppendItem(list, x) = [list EXCEPT ![Len(list)] = x]
    BY <1>2 DEF AppendItem, Words
  <2>3. Puts(list, x, Len(list), [list EXCEPT ![Len(list)] = x])
    BY <2>1, ExceptPuts
  <2> HIDE DEF grows, calls
  <2> QED BY <1>1, <2>2, <2>3
<1>3. CASE x.kind = "tool" /\ calls # {}
  <2>1. PICK p \in calls : p = CHOOSE i \in calls : TRUE
    BY <1>3
  <2>2. Replaces(list, x, p) /\ p \in Nat
    BY <1>1, <1>3, <2>1 DEF Replaces, Words
  <2>3. AppendItem(list, x) = [list EXCEPT ![p] = x]
    BY <1>3, <2>1 DEF AppendItem
  <2>4. Puts(list, x, p, [list EXCEPT ![p] = x])
    BY <2>2, ExceptPuts
  <2> HIDE DEF grows, calls
  <2> QED BY <2>2, <2>3, <2>4
<1>4. CASE ~(x.kind \in Words /\ grows) /\ ~(x.kind = "tool" /\ calls # {})
  <2>1. AppendItem(list, x) = Append(list, x)
    BY <1>4 DEF AppendItem, Words
  <2>2. ASSUME NEW q, Replaces(list, x, q) PROVE FALSE
    <3>1. CASE x.kind \in Words
      <4>1. /\ q \in 1 .. Len(list) /\ q = Len(list)
            /\ list[q].kind = x.kind /\ list[q].turn = x.turn
        BY <2>2, <3>1 DEF Replaces
      <4>2. list # <<>>
        BY <4>1, EmptySeq
      <4> QED BY <1>4, <3>1, <4>1, <4>2 DEF Last
    <3>2. CASE x.kind = "tool"
      <4>1. q \in calls
        BY <1>1, <2>2, <3>2 DEF Replaces
      <4> QED BY <1>4, <3>2, <4>1
    <3> QED BY <3>1, <3>2
  <2> QED BY <1>1, <2>1, <2>2, AppendPuts
<1> QED BY <1>2, <1>3, <1>4

\* The list without one of its items.
LEMMA WithoutOne ==
    ASSUME NEW list \in Seq(Item), NEW c \in 1 .. Len(list)
    PROVE  /\ Without(list, {c}) \in Seq(Item)
           /\ Len(list) \in Nat
           /\ Len(Without(list, {c})) = Len(list) - 1
           /\ \A k \in 1 .. (Len(list) - 1) :
                 Without(list, {c})[k] = IF k < c THEN list[k] ELSE list[k + 1]
<1>1. Len(list) \in Nat /\ DOMAIN list = 1 .. Len(list)
  BY LenProperties
<1>2. Cardinality({c}) = 1 /\ Cardinality({}) = 0
  BY FS_Singleton, FS_EmptySet
<1> DEFINE Before(i) == {g \in {c} : g < i}
           n == Len(list) - 1
<1>3. ASSUME NEW i \in 1 .. Len(list), i # c
      PROVE  Cardinality(Before(i)) = IF i < c THEN 0 ELSE 1
  <2>1. i < c => Before(i) = {}
    BY <1>1
  <2>2. ~(i < c) => Before(i) = {c}
    BY <1>1, <1>3
  <2> QED BY <1>2, <2>1, <2>2
<1> HIDE DEF Before
<1>4. ASSUME NEW k \in 1 .. n
      PROVE  (CHOOSE i \in DOMAIN list \ {c} : i - Cardinality(Before(i)) = k)
                = IF k < c THEN k ELSE k + 1
  <2> DEFINE P(i) == i \in DOMAIN list \ {c} /\ i - Cardinality(Before(i)) = k
             j == IF k < c THEN k ELSE k + 1
  <2>1. j \in 1 .. Len(list) /\ j # c /\ j - (IF j < c THEN 0 ELSE 1) = k
    BY <1>1
  <2>2. P(j)
    BY <1>1, <1>3, <2>1
  <2>3. ASSUME NEW i, P(i) PROVE i = j
    <3>1. i \in 1 .. Len(list) /\ i # c
      BY <1>1, <2>3
    <3>2. i - (IF i < c THEN 0 ELSE 1) = k
      BY <1>3, <2>3, <3>1
    <3> QED BY <1>1, <3>1, <3>2
  <2> HIDE DEF j
  <2>4. (CHOOSE i \in DOMAIN list \ {c} : i - Cardinality(Before(i)) = k) = j
    BY <2>2, <2>3
  <2> QED BY <2>4 DEF j
<1>5. Without(list, {c}) = [k \in 1 .. n |->
                              list[CHOOSE i \in DOMAIN list \ {c} :
                                      i - Cardinality(Before(i)) = k]]
  BY <1>2 DEF Without, Before
<1>6. Without(list, {c}) = [k \in 1 .. n |-> IF k < c THEN list[k] ELSE list[k + 1]]
  <2> DEFINE place(k) == CHOOSE i \in DOMAIN list \ {c} : i - Cardinality(Before(i)) = k
  <2>1. \A k \in 1 .. n : place(k) = IF k < c THEN k ELSE k + 1
    BY <1>4
  <2>2. Without(list, {c}) = [k \in 1 .. n |-> list[place(k)]]
    BY <1>5
  <2> HIDE DEF place, n
  <2> QED BY <2>1, <2>2
<1>7. n \in Nat
  BY <1>1
<1>8. \A k \in 1 .. n : (IF k < c THEN list[k] ELSE list[k + 1]) \in Item
  <2>1. ASSUME NEW k \in 1 .. n PROVE (IF k < c THEN list[k] ELSE list[k + 1]) \in Item
    <3>1. k \in 1 .. Len(list) /\ k + 1 \in 1 .. Len(list)
      BY <1>1
    <3> QED BY <3>1, ElementOfSeq
  <2> QED BY <2>1
<1> HIDE DEF n
<1>9. Without(list, {c}) \in [1 .. n -> Item]
  BY <1>6, <1>8
<1>10. Without(list, {c}) \in Seq(Item)
  BY <1>7, <1>9, SeqDef
<1>11. Len(Without(list, {c})) = n
  <2>1. DOMAIN Without(list, {c}) = 1 .. n
    BY <1>9
  <2> QED BY <1>7, <1>10, <2>1, LenProperties
<1> QED BY <1>1, <1>6, <1>10, <1>11 DEF n

\* What is shown in a list: an item of this kind with this text, which stays when
\* something that is not a card comes after it, or which is the last.
Has(list, kind, content) ==
    \E i \in 1 .. Len(list) : list[i].kind = kind /\ list[i].text = content

HasFixed(list, kind, content) ==
    \E i, j \in 1 .. Len(list) :
       /\ list[i].kind = kind /\ list[i].text = content
       /\ i < j /\ list[j].kind # "card"

Ends(list, kind, content) ==
    /\ Len(list) \in 1 .. Len(list)
    /\ list[Len(list)].kind = kind /\ list[Len(list)].text = content

HasTool(list, m, statuses) ==
    \E i \in 1 .. Len(list) :
       list[i].kind = "tool" /\ list[i].of = m /\ list[i].status \in statuses

ToolsOnce(list) ==
    \A i, j \in 1 .. Len(list) :
       /\ list[i].kind = "tool" /\ list[j].kind = "tool"
       /\ list[i].of = list[j].of
       => i = j

CardsIn(list, n) == {i \in 1 .. Len(list) : list[i].kind = "card" /\ list[i].of = n}

LEMMA PutsKeeps ==
    ASSUME NEW list, NEW x, NEW p, NEW new, Puts(list, x, p, new)
    PROVE  \A kind \in Words : \A content :
              HasFixed(list, kind, content) => HasFixed(new, kind, content)
<1> SUFFICES ASSUME NEW kind \in Words, NEW content, HasFixed(list, kind, content)
             PROVE  HasFixed(new, kind, content)
  OBVIOUS
<1>1. PICK i \in 1 .. Len(list), j \in 1 .. Len(list) :
         /\ list[i].kind = kind /\ list[i].text = content
         /\ i < j /\ list[j].kind # "card"
  BY DEF HasFixed
<1>2. i \in 1 .. Len(new) /\ j \in 1 .. Len(new)
  BY DEF Puts
<1>3. i # p
  BY <1>1 DEF Puts, Replaces, Words
<1>4. new[i] = list[i]
  BY <1>3 DEF Puts
<1>5. new[j].kind # "card"
  BY <1>1 DEF Puts, Replaces
<1> QED BY <1>1, <1>2, <1>4, <1>5 DEF HasFixed

LEMMA PutsFixes ==
    ASSUME NEW list, NEW x, NEW p, NEW new, Puts(list, x, p, new),
           p = Len(list) + 1, x.kind # "card"
    PROVE  \A kind, content : Has(list, kind, content) => HasFixed(new, kind, content)
<1> SUFFICES ASSUME NEW kind, NEW content, Has(list, kind, content)
             PROVE  HasFixed(new, kind, content)
  OBVIOUS
<1>1. PICK i \in 1 .. Len(list) : list[i].kind = kind /\ list[i].text = content
  BY DEF Has
<1>2. i \in 1 .. Len(new) /\ p \in 1 .. Len(new) /\ i < p /\ new[i] = list[i] /\ new[p] = x
  BY DEF Puts, Replaces
<1> QED BY <1>1, <1>2 DEF HasFixed

LEMMA PutsEnds ==
    ASSUME NEW list, NEW x, NEW p, NEW new, Puts(list, x, p, new), x.kind \in Words
    PROVE  p = Len(new) /\ Ends(new, x.kind, x.text)
BY DEF Puts, Replaces, Ends, Words

LEMMA PutsAfter ==
    ASSUME NEW list, NEW x, NEW p, NEW new, Puts(list, x, p, new),
           Len(list) = 0 \/ list[Len(list)].kind # x.kind, x.kind \in Words
    PROVE  p = Len(list) + 1
BY DEF Puts, Replaces

LEMMA PutsShows ==
    ASSUME NEW list, NEW x, NEW p, NEW new, Puts(list, x, p, new)
    PROVE  /\ Has(new, x.kind, x.text)
           /\ x.kind = "tool" => HasTool(new, x.of, {x.status})
BY DEF Puts, Has, HasTool

LEMMA PutsItems ==
    ASSUME NEW list, NEW x, NEW p, NEW new, Puts(list, x, p, new)
    PROVE  \A i \in 1 .. Len(new) :
              new[i] = x \/ (i \in 1 .. Len(list) /\ new[i] = list[i])
BY DEF Puts, Replaces

LEMMA PutsTools ==
    ASSUME NEW list, NEW x, NEW p, NEW new, Puts(list, x, p, new)
    PROVE  /\ ToolsOnce(list) => ToolsOnce(new)
           /\ \A m, statuses : x.kind # "tool" \/ x.of # m \/ x.status \in statuses =>
                 (HasTool(list, m, statuses) => HasTool(new, m, statuses))
<1>1. ASSUME ToolsOnce(list),
             NEW i \in 1 .. Len(new), NEW j \in 1 .. Len(new),
             new[i].kind = "tool", new[j].kind = "tool", new[i].of = new[j].of
      PROVE  i = j
  <2>1. CASE i = p /\ j # p
    <3>1. j \in 1 .. Len(list) /\ list[j] = new[j] /\ new[i] = x
      BY <2>1 DEF Puts, Replaces
    <3>2. Replaces(list, x, j)
      BY <1>1, <3>1 DEF Replaces, Words
    <3>3. i \in 1 .. Len(list) /\ list[i].kind = "tool" /\ list[i].of = x.of
      BY <1>1, <2>1, <3>1, <3>2 DEF Puts, Replaces
    <3> QED BY <1>1, <3>1, <3>3 DEF ToolsOnce
  <2>2. CASE j = p /\ i # p
    <3>1. i \in 1 .. Len(list) /\ list[i] = new[i] /\ new[j] = x
      BY <2>2 DEF Puts, Replaces
    <3>2. Replaces(list, x, i)
      BY <1>1, <3>1 DEF Replaces, Words
    <3>3. j \in 1 .. Len(list) /\ list[j].kind = "tool" /\ list[j].of = x.of
      BY <1>1, <2>2, <3>1, <3>2 DEF Puts, Replaces
    <3> QED BY <1>1, <3>1, <3>3 DEF ToolsOnce
  <2>3. CASE i # p /\ j # p
    <3>1. /\ i \in 1 .. Len(list) /\ list[i] = new[i]
          /\ j \in 1 .. Len(list) /\ list[j] = new[j]
      BY <2>3 DEF Puts, Replaces
    <3> QED BY <1>1, <3>1 DEF ToolsOnce
  <2> QED BY <2>1, <2>2, <2>3
<1>2. ASSUME NEW m, NEW statuses, x.kind # "tool" \/ x.of # m \/ x.status \in statuses,
             HasTool(list, m, statuses)
      PROVE  HasTool(new, m, statuses)
  <2>1. PICK i \in 1 .. Len(list) :
           list[i].kind = "tool" /\ list[i].of = m /\ list[i].status \in statuses
    BY <1>2 DEF HasTool
  <2>2. i \in 1 .. Len(new)
    BY DEF Puts
  <2>3. CASE i # p
    BY <2>1, <2>2, <2>3 DEF Puts, HasTool
  <2>4. CASE i = p
    <3>1. new[i] = x /\ x.kind = "tool" /\ x.of = m
      BY <2>1, <2>4 DEF Puts, Replaces, Words
    <3> QED BY <1>2, <2>2, <3>1 DEF HasTool
  <2> QED BY <2>3, <2>4
<1> HIDE DEF Puts
<1> QED BY <1>1, <1>2 DEF ToolsOnce

LEMMA PutsCards ==
    ASSUME NEW list, NEW x, NEW p, NEW new, Puts(list, x, p, new)
    PROVE  \A n : CardsIn(new, n) =
              IF x.kind = "card" /\ x.of = n THEN CardsIn(list, n) \cup {p}
              ELSE CardsIn(list, n)
<1> SUFFICES ASSUME NEW n
             PROVE  CardsIn(new, n) = IF x.kind = "card" /\ x.of = n
                                      THEN CardsIn(list, n) \cup {p} ELSE CardsIn(list, n)
  OBVIOUS
<1>1. ASSUME NEW i \in 1 .. Len(new), i # p
      PROVE  i \in CardsIn(new, n) <=> i \in CardsIn(list, n)
  BY <1>1 DEF Puts, Replaces, CardsIn
<1>2. p \in CardsIn(new, n) <=> x.kind = "card" /\ x.of = n
  BY DEF Puts, CardsIn
<1>3. p \in CardsIn(list, n) => x.kind # "card" /\ FALSE
  BY DEF Puts, Replaces, CardsIn, Words
<1>4. \A i \in CardsIn(list, n) : i \in 1 .. Len(new)
  BY DEF Puts, CardsIn
<1>5. \A i \in CardsIn(new, n) : i \in 1 .. Len(new)
  BY DEF CardsIn
<1> HIDE DEF Puts
<1> QED BY <1>1, <1>2, <1>3, <1>4, <1>5

\* The item at place c is taken out of the list.
Drops(list, c, new) ==
    /\ list \in Seq(Item) /\ new \in Seq(Item)
    /\ Len(list) \in Nat /\ Len(new) = Len(list) - 1 /\ c \in 1 .. Len(list)
    /\ \A i \in 1 .. Len(new) : new[i] = IF i < c THEN list[i] ELSE list[i + 1]

\* Its effect on the items that stay.
LEMMA DropsItems ==
    ASSUME NEW list, NEW c, NEW new, Drops(list, c, new)
    PROVE  /\ \A i \in 1 .. Len(new) : \E j \in 1 .. Len(list) :
                 new[i] = list[j] /\ (j = i \/ j = i + 1) /\ j # c
           /\ \A j \in 1 .. Len(list) : j < c => j \in 1 .. Len(new) /\ new[j] = list[j]
           /\ \A j \in 1 .. Len(list) : j > c =>
                 j - 1 \in 1 .. Len(new) /\ new[j - 1] = list[j]
<1>1. ASSUME NEW i \in 1 .. Len(new)
      PROVE  \E j \in 1 .. Len(list) : new[i] = list[j] /\ (j = i \/ j = i + 1) /\ j # c
  <2>1. CASE i < c
    <3>1. i \in 1 .. Len(list) /\ new[i] = list[i] /\ i # c
      BY <2>1 DEF Drops
    <3> QED BY <3>1
  <2>2. CASE ~(i < c)
    <3>1. i + 1 \in 1 .. Len(list) /\ new[i] = list[i + 1] /\ i + 1 # c
      BY <2>2 DEF Drops
    <3> QED BY <3>1
  <2> QED BY <2>1, <2>2
<1>2. ASSUME NEW j \in 1 .. Len(list), j < c
      PROVE  j \in 1 .. Len(new) /\ new[j] = list[j]
  BY <1>2 DEF Drops
<1>3. ASSUME NEW j \in 1 .. Len(list), j > c
      PROVE  j - 1 \in 1 .. Len(new) /\ new[j - 1] = list[j]
  BY <1>3 DEF Drops
<1> QED BY <1>1, <1>2, <1>3

\* The new place of an item that stays.
Moved(c, j) == IF j < c THEN j ELSE j - 1

LEMMA DropsMoves ==
    ASSUME NEW list, NEW c, NEW new, Drops(list, c, new)
    PROVE  /\ \A j \in 1 .. Len(list) \ {c} :
                 Moved(c, j) \in 1 .. Len(new) /\ new[Moved(c, j)] = list[j]
           /\ \A i, j \in 1 .. Len(list) \ {c} : i < j => Moved(c, i) < Moved(c, j)
           /\ \A i \in 1 .. Len(new) : \E j \in 1 .. Len(list) \ {c} : i = Moved(c, j)
<1>1. c \in 1 .. Len(list) /\ Len(list) \in Nat /\ Len(new) = Len(list) - 1
  BY DEF Drops
<1>2. ASSUME NEW j \in 1 .. Len(list) \ {c}
      PROVE  Moved(c, j) \in 1 .. Len(new) /\ new[Moved(c, j)] = list[j]
  <2>1. j < c \/ j > c
    BY <1>1
  <2> QED BY <2>1, DropsItems DEF Moved
<1>3. ASSUME NEW i \in 1 .. Len(list) \ {c}, NEW j \in 1 .. Len(list) \ {c}, i < j
      PROVE  Moved(c, i) < Moved(c, j)
  BY <1>1, <1>3 DEF Moved
<1>4. ASSUME NEW i \in 1 .. Len(new)
      PROVE  \E j \in 1 .. Len(list) \ {c} : i = Moved(c, j)
  <2>1. CASE i < c
    <3>1. i \in 1 .. Len(list) \ {c} /\ Moved(c, i) = i
      BY <1>1, <2>1 DEF Moved
    <3> QED BY <3>1
  <2>2. CASE ~(i < c)
    <3>1. i + 1 \in 1 .. Len(list) \ {c} /\ Moved(c, i + 1) = i
      BY <1>1, <2>2 DEF Moved
    <3> QED BY <3>1
  <2> QED BY <2>1, <2>2
<1> QED BY <1>2, <1>3, <1>4

LEMMA DropsKeeps ==
    ASSUME NEW list, NEW c, NEW new, Drops(list, c, new), list[c].kind = "card"
    PROVE  /\ \A kind \in Words : \A content :
                 /\ Has(list, kind, content) => Has(new, kind, content)
                 /\ HasFixed(list, kind, content) => HasFixed(new, kind, content)
                 /\ Ends(list, kind, content) => Ends(new, kind, content)
           /\ ToolsOnce(list) => ToolsOnce(new)
           /\ \A m, statuses : HasTool(list, m, statuses) => HasTool(new, m, statuses)
<1> USE DropsMoves
<1>1. ASSUME NEW kind \in Words, NEW content, Has(list, kind, content)
      PROVE  Has(new, kind, content)
  <2>1. PICK i \in 1 .. Len(list) : list[i].kind = kind /\ list[i].text = content
    BY <1>1 DEF Has
  <2>2. i # c
    BY <2>1 DEF Words
  <2> QED BY <2>1, <2>2 DEF Has
<1>2. ASSUME NEW kind \in Words, NEW content, HasFixed(list, kind, content)
      PROVE  HasFixed(new, kind, content)
  <2>1. PICK i \in 1 .. Len(list), j \in 1 .. Len(list) :
           /\ list[i].kind = kind /\ list[i].text = content
           /\ i < j /\ list[j].kind # "card"
    BY <1>2 DEF HasFixed
  <2>2. i # c /\ j # c
    BY <2>1 DEF Words
  <2>3. /\ Moved(c, i) \in 1 .. Len(new) /\ new[Moved(c, i)] = list[i]
        /\ Moved(c, j) \in 1 .. Len(new) /\ new[Moved(c, j)] = list[j]
        /\ Moved(c, i) < Moved(c, j)
    BY <2>1, <2>2
  <2> QED BY <2>1, <2>3 DEF HasFixed
<1>3. ASSUME NEW kind \in Words, NEW content, Ends(list, kind, content)
      PROVE  Ends(new, kind, content)
  <2>1. Len(list) # c /\ Len(list) \in 1 .. Len(list)
    BY <1>3 DEF Ends, Words
  <2>2. Moved(c, Len(list)) = Len(new)
    BY <2>1 DEF Moved, Drops
  <2> QED BY <1>3, <2>1, <2>2 DEF Ends
<1>4. ASSUME ToolsOnce(list), NEW i \in 1 .. Len(new), NEW j \in 1 .. Len(new),
             new[i].kind = "tool", new[j].kind = "tool", new[i].of = new[j].of
      PROVE  i = j
  <2>1. PICK k \in 1 .. Len(list) \ {c} : i = Moved(c, k)
    OBVIOUS
  <2>2. PICK l \in 1 .. Len(list) \ {c} : j = Moved(c, l)
    OBVIOUS
  <2>3. new[i] = list[k] /\ new[j] = list[l]
    BY <2>1, <2>2
  <2> QED BY <1>4, <2>1, <2>2, <2>3 DEF ToolsOnce
<1>5. ASSUME NEW m, NEW statuses, HasTool(list, m, statuses)
      PROVE  HasTool(new, m, statuses)
  <2>1. PICK i \in 1 .. Len(list) :
           list[i].kind = "tool" /\ list[i].of = m /\ list[i].status \in statuses
    BY <1>5 DEF HasTool
  <2>2. i # c
    BY <2>1
  <2> QED BY <2>1, <2>2 DEF HasTool
<1>6. ToolsOnce(list) => ToolsOnce(new)
  BY <1>4 DEF ToolsOnce
<1> QED BY <1>1, <1>2, <1>3, <1>5, <1>6

LEMMA DropsCards ==
    ASSUME NEW list, NEW c, NEW new, Drops(list, c, new)
    PROVE  \A n, i : CardsIn(list, n) = {i} /\ i # c => CardsIn(new, n) = {Moved(c, i)}
<1> SUFFICES ASSUME NEW n, NEW i, CardsIn(list, n) = {i}, i # c
             PROVE  CardsIn(new, n) = {Moved(c, i)}
  OBVIOUS
<1> USE DropsMoves
<1>1. i \in 1 .. Len(list) \ {c} /\ list[i].kind = "card" /\ list[i].of = n
  BY DEF CardsIn
<1>2. Moved(c, i) \in CardsIn(new, n)
  BY <1>1 DEF CardsIn
<1>3. ASSUME NEW k \in CardsIn(new, n) PROVE k = Moved(c, i)
  <2>1. k \in 1 .. Len(new) /\ new[k].kind = "card" /\ new[k].of = n
    BY <1>3 DEF CardsIn
  <2>2. PICK j \in 1 .. Len(list) \ {c} : k = Moved(c, j)
    BY <2>1
  <2>3. j \in CardsIn(list, n)
    BY <2>1, <2>2 DEF CardsIn
  <2> QED BY <2>2, <2>3
<1> QED BY <1>2, <1>3

-----------------------------------------------------------------------------
(* Types                                                                   *)

SpeakingSteps == {"thinking", "thought", "text", "whole", "tool"}

\* What the types rest on: where the agent is, and how much it can have said.
StepKnown ==
    /\ step # "idle" => turn \in Turns
    /\ aborting => turn \in stopped
    /\ step \in SpeakingSteps => messages # <<>>
    /\ \A m \in 1 .. Len(messages) :
          messages[m].thought <= pieces /\ messages[m].sent <= pieces

TInv == TypeOK /\ StepKnown

LEMMA Bounds ==
    /\ MaxMessages \in Nat /\ MaxPieces \in Nat /\ MaxAsks \in Nat
    /\ Turns \subseteq Nat /\ None \notin Turns
BY TimelineAssumption, TurnsAssumption DEF Turns

LEMMA Lengths ==
    ASSUME TypeOK
    PROVE  /\ Len(messages) \in 0 .. MaxMessages /\ DOMAIN messages = 1 .. Len(messages)
           /\ messages # <<>> => Len(messages) \in 1 .. MaxMessages
           /\ \A m \in 1 .. Len(messages) : m \in Numbers /\ messages[m] \in Message
           /\ Len(items) \in Nat /\ DOMAIN items = 1 .. Len(items)
           /\ \A i \in 1 .. Len(items) : items[i] \in Item
<1>1. messages \in Seq(Message) /\ Len(messages) <= MaxMessages /\ items \in Seq(Item)
  BY DEF TypeOK
<1>2. Len(messages) \in Nat /\ DOMAIN messages = 1 .. Len(messages)
  BY <1>1, LenProperties
<1>3. messages # <<>> => Len(messages) \in Nat \ {0}
  BY <1>1, EmptySeq
<1>4. Len(items) \in Nat /\ DOMAIN items = 1 .. Len(items)
  BY <1>1, LenProperties
<1>5. \A m \in 1 .. Len(messages) : messages[m] \in Message
  BY <1>1, ElementOfSeq
<1>6. \A i \in 1 .. Len(items) : items[i] \in Item
  BY <1>1, ElementOfSeq
<1>7. \A m \in 1 .. Len(messages) : m \in Numbers
  BY <1>1, <1>2, Bounds DEF Numbers
<1> QED BY <1>1, <1>2, <1>3, <1>4, <1>5, <1>6, <1>7, Bounds

LEMMA PiecesType ==
    ASSUME NEW m \in Numbers, NEW n \in 0 .. MaxPieces
    PROVE  /\ Pieces(m, n) \in Seq(Piece) /\ Len(Pieces(m, n)) = n
           /\ \A k \in 1 .. n : Pieces(m, n)[k] = <<m, k>>
<1>1. n \in Nat /\ n <= MaxPieces
  BY Bounds
<1>2. \A k \in 1 .. n : <<m, k>> \in Piece
  BY <1>1, Bounds DEF Piece
<1>3. Pieces(m, n) \in [1 .. n -> Piece]
  BY <1>2 DEF Pieces
<1>4. Pieces(m, n) \in Seq(Piece)
  BY <1>1, <1>3, SeqDef
<1>5. DOMAIN Pieces(m, n) = 1 .. Len(Pieces(m, n)) /\ Len(Pieces(m, n)) \in Nat
  BY <1>4, LenProperties
<1>6. DOMAIN Pieces(m, n) = 1 .. n
  BY DEF Pieces
<1> QED BY <1>1, <1>4, <1>5, <1>6 DEF Pieces

LEMMA WholesType ==
    ASSUME TypeOK, NEW m \in 1 .. Len(messages)
    PROVE  WholeText(m) \in Seq(Piece) /\ WholeThinking(m) \in Seq(Piece)
<1>1. m \in Numbers /\ messages[m] \in Message
  BY Lengths
<1>2. messages[m].sent \in 0 .. MaxPieces /\ messages[m].thought \in 0 .. MaxPieces
  BY <1>1 DEF Message
<1> QED BY <1>1, <1>2, PiecesType DEF WholeText, WholeThinking

LEMMA NewItemType ==
    ASSUME TypeOK
    PROVE  /\ \A content \in Seq(Piece) :
                 /\ Assistant(content) \in Item /\ Assistant(content).kind = "assistant"
                 /\ Assistant(content).text = content /\ Assistant(content).turn = active
                 /\ Reasoning(content) \in Item /\ Reasoning(content).kind = "reasoning"
                 /\ Reasoning(content).text = content /\ Reasoning(content).turn = active
           /\ \A m \in Nat : \A status \in {"running", "completed", "failed"} :
                 /\ ToolCall(m, status) \in Item /\ ToolCall(m, status).kind = "tool"
                 /\ ToolCall(m, status).of = m /\ ToolCall(m, status).status = status
                 /\ ToolCall(m, status).turn = active
<1>1. active \in Turns \cup {None} /\ <<>> \in Seq(Piece)
  BY EmptySeq DEF TypeOK
<1> QED BY <1>1 DEF Assistant, Reasoning, ToolCall, NewItem, Item

\* While finalText listens.
Listening == run.phase # "idle" /\ run.buffer = <<>>

LEMMA EmitOne ==
    ASSUME TypeOK, NEW x \in Item, x.kind \in Words \cup {"tool"}, Emit(<<x>>)
    PROVE  /\ \E p \in Nat : Puts(items, x, p, items')
           /\ answer' = IF x.kind = "assistant" /\ Listening
                        THEN [answer EXCEPT ![run.turn] = x.text] ELSE answer
<1>1. items' = AppendItem(items, x)
  BY FoldOne DEF Emit
<1>2. \E p \in Nat : Puts(items, x, p, AppendItem(items, x))
  BY AppendItemPuts DEF TypeOK
<1>3. DOMAIN <<x>> = {1} /\ <<x>>[1] = x
  OBVIOUS
<1>4. CASE x.kind = "assistant"
  <2>1. Texts(<<x>>) = {1}
    BY <1>3, <1>4 DEF Texts
  <2>2. <<x>>[Max(Texts(<<x>>))] = x
    BY <1>3, <2>1, LargestOf
  <2> QED BY <1>1, <1>2, <1>4, <2>1, <2>2 DEF Emit, Listening
<1>5. CASE x.kind # "assistant"
  <2>1. Texts(<<x>>) = {}
    BY <1>3, <1>5 DEF Texts
  <2> QED BY <1>1, <1>2, <1>5, <2>1 DEF Emit
<1> QED BY <1>4, <1>5

LEMMA EmitTwo ==
    ASSUME TypeOK, NEW x \in Item, x.kind \in Words \cup {"tool"},
           NEW y \in Item, y.kind \in Words \cup {"tool"}, Emit(<<x, y>>),
           NEW z \in {x, y}, z.kind = "assistant",
           \/ z = x /\ y.kind # "assistant"
           \/ z = y /\ x.kind # "assistant"
    PROVE  /\ \E list \in Seq(Item) : \E p, q \in Nat :
                 Puts(items, x, p, list) /\ Puts(list, y, q, items')
           /\ answer' = IF Listening THEN [answer EXCEPT ![run.turn] = z.text] ELSE answer
<1>1. items' = AppendItem(AppendItem(items, x), y)
  <2>1. items' = AppendTwo(items, x, y)
    BY FoldTwo DEF Emit
  <2> QED BY <2>1 DEF AppendTwo
<1>2. PICK p \in Nat : Puts(items, x, p, AppendItem(items, x))
  BY AppendItemPuts DEF TypeOK
<1>3. AppendItem(items, x) \in Seq(Item)
  BY <1>2 DEF Puts
<1>4. PICK q \in Nat : Puts(AppendItem(items, x), y, q, items')
  BY <1>1, <1>3, AppendItemPuts
<1>5. DOMAIN <<x, y>> = {1, 2} /\ <<x, y>>[1] = x /\ <<x, y>>[2] = y
  OBVIOUS
<1>6. Texts(<<x, y>>) # {} /\ <<x, y>>[Max(Texts(<<x, y>>))] = z
  <2>1. CASE z = x /\ y.kind # "assistant"
    <3>1. Texts(<<x, y>>) = {1}
      BY <1>5, <2>1 DEF Texts
    <3> QED BY <1>5, <2>1, <3>1, LargestOf
  <2>2. CASE z = y /\ x.kind # "assistant"
    <3>1. Texts(<<x, y>>) = {2}
      BY <1>5, <2>2 DEF Texts
    <3> QED BY <1>5, <2>2, <3>1, LargestOf
  <2> QED BY <2>1, <2>2
<1> QED BY <1>2, <1>3, <1>4, <1>6 DEF Emit, Listening

\* What is emitted keeps the types.
LEMMA EmitTypes ==
    ASSUME TypeOK
    PROVE  /\ \A x \in Item : x.kind \in Words \cup {"tool"} /\ Emit(<<x>>) =>
                 items' \in Seq(Item) /\ answer' \in [Turns -> Seq(Piece)]
           /\ \A x, y \in Item :
                 /\ x.kind \in Words \cup {"tool"} /\ y.kind \in Words \cup {"tool"}
                 /\ (x.kind = "assistant") # (y.kind = "assistant")
                 /\ Emit(<<x, y>>)
                 => items' \in Seq(Item) /\ answer' \in [Turns -> Seq(Piece)]
<1>1. \A x \in Item : [answer EXCEPT ![run.turn] = x.text] \in [Turns -> Seq(Piece)]
  BY DEF TypeOK, Item
<1>2. ASSUME NEW x \in Item, x.kind \in Words \cup {"tool"}, Emit(<<x>>)
      PROVE  items' \in Seq(Item) /\ answer' \in [Turns -> Seq(Piece)]
  <2>1. \E p \in Nat : Puts(items, x, p, items')
    BY <1>2, EmitOne
  <2>2. answer' \in {answer, [answer EXCEPT ![run.turn] = x.text]}
    BY <1>2, EmitOne
  <2> QED BY <1>1, <2>1, <2>2 DEF Puts, TypeOK
<1>3. ASSUME NEW x \in Item, x.kind \in Words \cup {"tool"},
             NEW y \in Item, y.kind \in Words \cup {"tool"}, Emit(<<x, y>>),
             (x.kind = "assistant") # (y.kind = "assistant")
      PROVE  items' \in Seq(Item) /\ answer' \in [Turns -> Seq(Piece)]
  <2>1. PICK z \in {x, y} : /\ z.kind = "assistant"
                            /\ \/ z = x /\ y.kind # "assistant"
                               \/ z = y /\ x.kind # "assistant"
    <3>1. CASE x.kind = "assistant" /\ y.kind # "assistant"
      BY <3>1
    <3>2. CASE y.kind = "assistant" /\ x.kind # "assistant"
      BY <3>2
    <3> QED BY <1>3, <3>1, <3>2
  <2>2. /\ \E list \in Seq(Item) : \E p, q \in Nat :
              Puts(items, x, p, list) /\ Puts(list, y, q, items')
        /\ answer' \in {answer, [answer EXCEPT ![run.turn] = z.text]}
    BY <1>3, <2>1, EmitTwo
  <2>3. items' \in Seq(Item)
    BY <2>2 DEF Puts
  <2>4. [answer EXCEPT ![run.turn] = z.text] \in [Turns -> Seq(Piece)]
    BY <1>1, <2>1
  <2> QED BY <2>2, <2>3, <2>4 DEF TypeOK
<1> QED BY <1>2, <1>3

LEMMA EventType ==
    ASSUME turn \in Turns, NEW type \in {"turn_completed", "turn_failed", "turn_canceled"}
    PROVE  [type |-> type, turn |-> turn] \in Event
BY DEF Event

LEMMA ObserveType ==
    ASSUME RunnerTypeOK, NEW e \in Event, Observe(e)
    PROVE  RunnerTypeOK'
<1>1. e \in Outcomes /\ NoRun \in Run
  BY DEF Outcomes, Run
<1>2. CASE run.phase = "idle"
  BY <1>2 DEF Observe, RunnerTypeOK
<1>3. CASE run.phase = "starting"
  <2>1. run \in [turn : Turns, phase : {"starting", "waiting"}, buffer : Seq(Event)]
    BY <1>3 DEF RunnerTypeOK, Run, NoRun
  <2>2. Append(run.buffer, e) \in Seq(Event)
    BY <2>1, AppendProperties
  <2>3. run' = [run EXCEPT !.buffer = Append(@, e)] /\ outcome' = outcome
    BY <1>3 DEF Observe
  <2>4. run' \in Run
    BY <2>1, <2>2, <2>3 DEF Run
  <2> QED BY <2>3, <2>4 DEF RunnerTypeOK
<1>4. CASE run.phase = "waiting"
  <2>1. run' = NoRun /\ outcome' = [outcome EXCEPT ![run.turn] = e]
    BY <1>4 DEF Observe, Settle
  <2> QED BY <1>1, <2>1 DEF RunnerTypeOK
<1> QED BY <1>2, <1>3, <1>4 DEF Observe

LEMMA RunBegins ==
    ASSUME RunnerTypeOK, NEW t \in Turns, StartRun(t)
    PROVE  RunnerTypeOK'
BY EmptySeq DEF StartRun, RunnerTypeOK, Run

LEMMA RunReturns ==
    ASSUME RunnerTypeOK, StartTurnReturns
    PROVE  RunnerTypeOK'
<1>1. run \in [turn : Turns, phase : {"starting", "waiting"}, buffer : Seq(Event)]
  BY DEF RunnerTypeOK, Run, NoRun, StartTurnReturns
<1>2. CASE run.buffer = <<>>
  BY <1>1, <1>2 DEF RunnerTypeOK, Run, StartTurnReturns
<1>3. CASE run.buffer # <<>>
  <2>1. Head(run.buffer) \in Event
    BY <1>1, <1>3, HeadTailProperties
  <2>2. run' = NoRun /\ outcome' = [outcome EXCEPT ![run.turn] = Head(run.buffer)]
    BY <1>3 DEF StartTurnReturns, Settle
  <2> QED BY <2>1, <2>2 DEF RunnerTypeOK, Run, Outcomes
<1> QED BY <1>2, <1>3

\* One more piece: of the message that is open, or of a new one.
LEMMA GrowEffect ==
    ASSUME TInv, NEW field \in {"thought", "sent"}, Grow(field),
           step \in {"open"} \cup SpeakingSteps
    PROVE  /\ messages' \in Seq(Message) /\ Len(messages') \in 1 .. MaxMessages
           /\ Len(messages') = IF step = "open" THEN Len(messages) + 1 ELSE Len(messages)
           /\ pieces' \in 0 .. MaxPieces
           /\ \A m \in 1 .. Len(messages') :
                 messages'[m].thought <= pieces' /\ messages'[m].sent <= pieces'
           /\ \A m \in 1 .. Len(messages') :
                 m # Len(messages') => m \in 1 .. Len(messages) /\ messages'[m] = messages[m]
           /\ messages'[Len(messages')] =
                 [(IF step = "open" THEN Blank ELSE messages[Len(messages)])
                     EXCEPT ![field] = @ + 1]
<1>0. /\ Len(messages) \in 0 .. MaxMessages /\ messages \in Seq(Message)
      /\ messages # <<>> => Len(messages) \in 1 .. MaxMessages
      /\ pieces \in 0 .. MaxPieces /\ pieces < MaxPieces /\ pieces' = pieces + 1
      /\ turn \in Turns
      /\ MaxPieces \in Nat /\ MaxMessages \in Nat
      /\ \A m \in 1 .. Len(messages) : messages[m] \in Message
  BY Bounds, Lengths DEF Grow, TInv, TypeOK, StepKnown, SpeakingSteps
<1>1. ASSUME NEW old \in Message, old.thought <= pieces, old.sent <= pieces
      PROVE  /\ [old EXCEPT ![field] = @ + 1] \in Message
             /\ [old EXCEPT ![field] = @ + 1].thought <= pieces'
             /\ [old EXCEPT ![field] = @ + 1].sent <= pieces'
  <2>1. /\ [old EXCEPT !.thought = @ + 1] \in Message
        /\ [old EXCEPT !.thought = @ + 1].thought <= pieces'
        /\ [old EXCEPT !.thought = @ + 1].sent <= pieces'
    BY <1>0, <1>1 DEF Message
  <2>2. /\ [old EXCEPT !.sent = @ + 1] \in Message
        /\ [old EXCEPT !.sent = @ + 1].thought <= pieces'
        /\ [old EXCEPT !.sent = @ + 1].sent <= pieces'
    BY <1>0, <1>1 DEF Message
  <2> QED BY <2>1, <2>2
<1>2. Blank \in Message /\ Blank.thought <= pieces /\ Blank.sent <= pieces
  BY <1>0 DEF Blank, Message
<1>3. CASE step = "open"
  <2> DEFINE new == [Blank EXCEPT ![field] = @ + 1]
  <2>1. new \in Message /\ new.thought <= pieces' /\ new.sent <= pieces'
    BY <1>1, <1>2
  <2>2. messages' = Append(messages, new) /\ Len(messages) < MaxMessages
    <3>1. new = [Blank EXCEPT ![field] = 1]
      <4>1. CASE field = "thought"
        BY <4>1 DEF Blank
      <4>2. CASE field = "sent"
        BY <4>2 DEF Blank
      <4> QED BY <4>1, <4>2
    <3> QED BY <1>3, <3>1 DEF Grow, Current
  <2> HIDE DEF new
  <2>3. /\ messages' \in Seq(Message) /\ Len(messages') = Len(messages) + 1
        /\ \A m \in 1 .. Len(messages) : messages'[m] = messages[m]
        /\ messages'[Len(messages) + 1] = new
    BY <1>0, <2>1, <2>2, AppendProperties
  <2>4. Len(messages') \in 1 .. MaxMessages
    BY <1>0, <2>2, <2>3
  <2>5. ASSUME NEW m \in 1 .. Len(messages')
        PROVE  /\ messages'[m].thought <= pieces' /\ messages'[m].sent <= pieces'
               /\ m # Len(messages') => m \in 1 .. Len(messages) /\ messages'[m] = messages[m]
    <3>1. CASE m = Len(messages) + 1
      BY <1>0, <2>1, <2>3, <3>1
    <3>2. CASE m # Len(messages) + 1
      <4>1. m \in 1 .. Len(messages) /\ messages'[m] = messages[m]
        BY <1>0, <2>3, <3>2
      <4>2. messages[m].thought <= pieces /\ messages[m].sent <= pieces /\ messages[m] \in Message
        BY <1>0, <4>1 DEF TInv, StepKnown
      <4> QED BY <1>0, <4>1, <4>2 DEF Message
    <3> QED BY <3>1, <3>2
  <2> QED BY <1>0, <1>3, <2>3, <2>4, <2>5 DEF new
<1>4. CASE step # "open"
  <2>0. Len(messages) \in 1 .. MaxMessages
    BY <1>0, <1>4 DEF TInv, StepKnown
  <2> DEFINE old == messages[Len(messages)]
             new == [old EXCEPT ![field] = @ + 1]
  <2>1. old \in Message /\ old.thought <= pieces /\ old.sent <= pieces
    BY <1>0, <2>0 DEF TInv, StepKnown
  <2>2. new \in Message /\ new.thought <= pieces' /\ new.sent <= pieces'
    BY <1>1, <2>1
  <2>3. messages' = [messages EXCEPT ![Len(messages)] = new]
    BY <1>0, <1>4, <2>0 DEF Grow, Current
  <2> HIDE DEF new, old
  <2>4. /\ messages' \in Seq(Message) /\ Len(messages') = Len(messages)
        /\ \A m \in 1 .. Len(messages) :
              messages'[m] = IF m = Len(messages) THEN new ELSE messages[m]
    BY <1>0, <2>0, <2>2, <2>3, ExceptSeq
  <2>5. ASSUME NEW m \in 1 .. Len(messages')
        PROVE  /\ messages'[m].thought <= pieces' /\ messages'[m].sent <= pieces'
               /\ m # Len(messages') => m \in 1 .. Len(messages) /\ messages'[m] = messages[m]
    <3>1. CASE m = Len(messages)
      BY <1>0, <2>2, <2>4, <3>1
    <3>2. CASE m # Len(messages)
      <4>1. m \in 1 .. Len(messages) /\ messages'[m] = messages[m]
        BY <1>0, <2>4, <3>2
      <4>2. messages[m].thought <= pieces /\ messages[m].sent <= pieces /\ messages[m] \in Message
        BY <1>0, <4>1 DEF TInv, StepKnown
      <4> QED BY <1>0, <4>1, <4>2 DEF Message
    <3> QED BY <3>1, <3>2
  <2>6. messages'[Len(messages')] = new
    BY <2>0, <2>4
  <2> QED BY <1>0, <1>4, <2>0, <2>4, <2>5, <2>6 DEF new, old
<1> QED BY <1>3, <1>4

\* A message that is marked stays what was said.
LEMMA MarkEffect ==
    ASSUME TInv, step \in SpeakingSteps, NEW new \in Message,
           messages' = [messages EXCEPT ![Current] = new],
           new.thought = messages[Current].thought, new.sent = messages[Current].sent,
           pieces' = pieces
    PROVE  /\ messages' \in Seq(Message)
           /\ Len(messages) \in 1 .. MaxMessages /\ Len(messages') = Len(messages)
           /\ \A m \in 1 .. Len(messages) :
                 messages'[m] = IF m = Len(messages) THEN new ELSE messages[m]
           /\ \A m \in 1 .. Len(messages') :
                 messages'[m].thought <= pieces' /\ messages'[m].sent <= pieces'
<1>1. messages \in Seq(Message) /\ Len(messages) \in 1 .. MaxMessages
  BY Lengths DEF TInv, TypeOK, StepKnown
<1>2. /\ messages' \in Seq(Message) /\ Len(messages') = Len(messages)
      /\ \A m \in 1 .. Len(messages) :
            messages'[m] = IF m = Len(messages) THEN new ELSE messages[m]
  BY <1>1, ExceptSeq DEF Current
<1>3. \A m \in 1 .. Len(messages') :
         messages'[m].thought <= pieces' /\ messages'[m].sent <= pieces'
  BY <1>2 DEF TInv, StepKnown, Current
<1> QED BY <1>1, <1>2, <1>3

LEMMA AccumulatedType ==
    ASSUME NEW old \in Seq(Piece), NEW m \in Numbers, NEW k \in 1 .. MaxPieces
    PROVE  Accumulated(old, m, k) \in Seq(Piece) /\ <<<<m, k>>>> \in Seq(Piece)
<1>1. <<m, k>> \in Piece
  BY DEF Piece
<1>2. Append(old, <<m, k>>) \in Seq(Piece)
  BY <1>1, AppendProperties
<1>3. <<<<m, k>>>> \in Seq(Piece)
  BY <1>1, SeqDef
<1> QED BY <1>2, <1>3 DEF Accumulated

LEMMA InitTypes == Init => TInv
<1> SUFFICES ASSUME Init PROVE TInv
  OBVIOUS
<1>1. RunnerTypeOK
  BY DEF Init, RunnerInit, RunnerTypeOK, Run, Outcomes
<1>2. /\ text \in Seq(Piece) /\ thinking \in Seq(Piece) /\ items \in Seq(Item)
      /\ messages \in Seq(Message) /\ Len(messages) = 0
      /\ answer \in [Turns -> Seq(Piece)]
  <2>1. <<>> \in Seq(Piece) /\ <<>> \in Seq(Item) /\ <<>> \in Seq(Message) /\ Len(<<>>) = 0
    BY EmptySeq
  <2> QED BY <2>1 DEF Init
<1>3. 0 \in 0 .. MaxAsks /\ 0 \in 0 .. MaxPieces /\ 0 <= MaxMessages
  BY Bounds
<1>4. TypeOK
  BY <1>1, <1>2, <1>3 DEF Init, TypeOK
<1>5. StepKnown
  BY <1>2 DEF Init, StepKnown, SpeakingSteps
<1> QED BY <1>4, <1>5 DEF TInv

\* The steps in which nothing is said.
LEMMA StartTurnTypes ==
    ASSUME TInv, NEW t \in Turns, StartTurn(t)
    PROVE  TInv'
<1>1. RunnerTypeOK'
  BY RunBegins DEF StartTurn, TInv, TypeOK
<1> DEFINE x == [NewItem("user", t, <<>>, "none") EXCEPT !.turn = None]
<1>2. <<>> \in Seq(Piece) /\ t \in Nat
  BY EmptySeq, Bounds
<1>3. x \in Item
  BY <1>2 DEF NewItem, Item
<1> HIDE DEF x
<1>4. items' \in Seq(Item)
  <2>1. items' = Append(items, x)
    BY DEF StartTurn, x
  <2> QED BY <1>3, <2>1, AppendProperties DEF TInv, TypeOK
<1>5. /\ text' \in Seq(Piece) /\ thinking' \in Seq(Piece)
      /\ active' \in Turns \cup {None}
  BY <1>2 DEF StartTurn, TInv, TypeOK
<1>6. TypeOK'
  BY <1>1, <1>4, <1>5 DEF StartTurn, TInv, TypeOK
<1>7. StepKnown'
  BY DEF StartTurn, TInv, StepKnown, SpeakingSteps
<1> QED BY <1>6, <1>7 DEF TInv

LEMMA StartReturnsTypes == TInv /\ StartReturns => TInv'
<1> SUFFICES ASSUME TInv, StartReturns PROVE TInv'
  OBVIOUS
<1>1. RunnerTypeOK'
  BY RunReturns DEF StartReturns, TInv, TypeOK
<1>2. <<>> \in Seq(Piece)
  BY EmptySeq
<1>3. /\ text' \in Seq(Piece) /\ thinking' \in Seq(Piece)
      /\ active' \in Turns \cup {None}
  BY <1>2 DEF StartReturns, TInv, TypeOK
<1>4. TypeOK'
  BY <1>1, <1>3 DEF StartReturns, TInv, TypeOK
<1>5. StepKnown'
  BY DEF StartReturns, TInv, StepKnown, SpeakingSteps
<1> QED BY <1>4, <1>5 DEF TInv

LEMMA ControlTypes ==
    TInv /\ (AgentBegins \/ TurnEnds \/ Interrupt \/ InterruptReturns \/ AgentAborted
             \/ MessageUpdated) => TInv'
<1> SUFFICES ASSUME TInv PROVE (AgentBegins \/ TurnEnds \/ Interrupt \/ InterruptReturns
                                \/ AgentAborted \/ MessageUpdated) => TInv'
  OBVIOUS
<1>1. ASSUME AgentBegins PROVE TInv'
  <2>1. TypeOK'
    BY <1>1 DEF AgentBegins, said, TInv, TypeOK, RunnerTypeOK
  <2>2. StepKnown'
    BY <1>1 DEF AgentBegins, said, TInv, StepKnown, SpeakingSteps
  <2> QED BY <2>1, <2>2 DEF TInv
<1>2. ASSUME turn \in Turns,
             NEW type \in {"turn_completed", "turn_failed", "turn_canceled"},
             Terminal(type) \/ UNCHANGED <<run, outcome>>
      PROVE  RunnerTypeOK'
  <2>1. CASE Terminal(type)
    BY <1>2, <2>1, EventType, ObserveType DEF Terminal, TInv, TypeOK
  <2>2. CASE UNCHANGED <<run, outcome>>
    BY <2>2 DEF TInv, TypeOK, RunnerTypeOK
  <2> QED BY <1>2, <2>1, <2>2
<1>3. ASSUME TurnEnds PROVE TInv'
  <2>1. RunnerTypeOK'
    BY <1>2, <1>3 DEF TurnEnds, TInv, StepKnown
  <2>2. TypeOK'
    BY <1>3, <2>1 DEF TurnEnds, said, TInv, TypeOK
  <2>3. StepKnown'
    BY <1>3 DEF TurnEnds, said, TInv, StepKnown, SpeakingSteps
  <2> QED BY <2>2, <2>3 DEF TInv
<1>4. ASSUME Interrupt PROVE TInv'
  <2>0. turn \in Turns
    BY <1>4 DEF Interrupt, TInv, StepKnown
  <2>1. TypeOK'
    BY <1>4, <2>0 DEF Interrupt, said, TInv, TypeOK, RunnerTypeOK
  <2>2. StepKnown'
    BY <1>4 DEF Interrupt, said, TInv, StepKnown, SpeakingSteps
  <2> QED BY <2>1, <2>2 DEF TInv
<1>5. ASSUME InterruptReturns PROVE TInv'
  <2>0. turn \in Turns
    BY <1>5 DEF InterruptReturns, TInv, StepKnown, TypeOK
  <2>1. RunnerTypeOK'
    BY <1>2, <1>5, <2>0 DEF InterruptReturns
  <2>2. TypeOK'
    BY <1>5, <2>1 DEF InterruptReturns, said, TInv, TypeOK
  <2>3. StepKnown'
    BY <1>5 DEF InterruptReturns, said, TInv, StepKnown, SpeakingSteps
  <2> QED BY <2>2, <2>3 DEF TInv
<1>6. ASSUME AgentAborted PROVE TInv'
  <2>1. RunnerTypeOK'
    BY <1>2, <1>6 DEF AgentAborted, TInv, StepKnown
  <2>2. TypeOK'
    BY <1>6, <2>1 DEF AgentAborted, Kept, said, TInv, TypeOK
  <2>3. StepKnown'
    BY <1>6 DEF AgentAborted, said, TInv, StepKnown, SpeakingSteps
  <2> QED BY <2>2, <2>3 DEF TInv
<1>7. ASSUME MessageUpdated PROVE TInv'
  <2>0. Current \in Numbers
    BY <1>7, Lengths DEF MessageUpdated, Current, TInv, StepKnown, SpeakingSteps, Numbers
  <2>1. TypeOK'
    BY <1>7, <2>0 DEF MessageUpdated, said, TInv, TypeOK, RunnerTypeOK
  <2>2. StepKnown'
    BY <1>7 DEF MessageUpdated, said, TInv, StepKnown, SpeakingSteps
  <2> QED BY <2>1, <2>2 DEF TInv
<1> QED BY <1>1, <1>3, <1>4, <1>5, <1>6, <1>7

LEMMA AskTypes ==
    ASSUME TInv
    PROVE  /\ PermissionAsked => TInv'
           /\ \A n \in pending : RespondToPermission(n) /\ (\E c : Cards(n) = {c}) => TInv'
<1>1. ASSUME PermissionAsked PROVE TInv'
  <2>1. asked' \in 1 .. MaxAsks /\ asked' \in Nat /\ asked' = asked + 1
    BY <1>1, Bounds DEF PermissionAsked, TInv, TypeOK
  <2> DEFINE x == NewItem("card", asked', <<>>, "none")
  <2>2. x \in Item
    BY <2>1, EmptySeq DEF NewItem, Item, TInv, TypeOK
  <2> HIDE DEF x
  <2>3. items' = Append(items, x)
    BY <1>1 DEF PermissionAsked, x
  <2>4. items' \in Seq(Item)
    BY <2>2, <2>3, AppendProperties DEF TInv, TypeOK
  <2>5. asked' \in 0 .. MaxAsks
    BY <2>1, Bounds
  <2>6. waiting' \subseteq 1 .. MaxAsks /\ pending' \subseteq 1 .. MaxAsks
    BY <1>1, <2>1 DEF PermissionAsked, Remember, TInv, TypeOK
  <2>7. TypeOK'
    BY <1>1, <2>4, <2>5, <2>6 DEF PermissionAsked, TInv, TypeOK, RunnerTypeOK
  <2>8. StepKnown'
    BY <1>1 DEF PermissionAsked, TInv, StepKnown, SpeakingSteps
  <2> QED BY <2>7, <2>8 DEF TInv
<1>2. ASSUME NEW n \in pending, RespondToPermission(n), NEW c, Cards(n) = {c} PROVE TInv'
  <2>1. c \in 1 .. Len(items) /\ items \in Seq(Item)
    BY <1>2, Lengths DEF Cards, TInv, TypeOK
  <2>2. items' \in Seq(Item)
    BY <1>2, <2>1, WithoutOne DEF RespondToPermission
  <2>3. TypeOK'
    BY <1>2, <2>2 DEF RespondToPermission, Forget, TInv, TypeOK, RunnerTypeOK
  <2>4. StepKnown'
    BY <1>2 DEF RespondToPermission, TInv, StepKnown, SpeakingSteps
  <2> QED BY <2>3, <2>4 DEF TInv
<1> QED BY <1>1, <1>2

-----------------------------------------------------------------------------
(* What the agent's words do                                               *)

\* Nothing but these is changed when the agent speaks.
LEMMA SpeaksTypes ==
    ASSUME TInv, Streamed,
           messages' \in Seq(Message), Len(messages') \in 1 .. MaxMessages,
           pieces' \in 0 .. MaxPieces,
           \A m \in 1 .. Len(messages') :
              messages'[m].thought <= pieces' /\ messages'[m].sent <= pieces',
           text' \in Seq(Piece), thinking' \in Seq(Piece),
           items' \in Seq(Item), answer' \in [Turns -> Seq(Piece)],
           step # "idle", step' \in {"open"} \cup SpeakingSteps
    PROVE  TInv'
<1>1. TypeOK'
  <2>1. Len(messages') <= MaxMessages
    BY Bounds
  <2>2. RunnerTypeOK' /\ turn' = turn /\ asked' = asked /\ stopped' = stopped
    BY DEF Streamed, TInv, TypeOK, RunnerTypeOK
  <2>3. step' \in {"idle", "begun", "open", "thinking", "thought", "text", "whole", "tool"}
    BY DEF SpeakingSteps
  <2> QED BY <2>1, <2>2, <2>3 DEF Streamed, TInv, TypeOK
<1>2. messages' # <<>>
  BY EmptySeq
<1>3. StepKnown'
  BY <1>2 DEF Streamed, TInv, StepKnown, SpeakingSteps
<1> QED BY <1>1, <1>3 DEF TInv

LEMMA ReasoningDeltaEffect ==
    ASSUME TInv, ReasoningDelta
    PROVE  /\ TInv'
           /\ LET m == Len(messages')
                  k == messages'[m].thought
              IN  /\ m \in Numbers /\ k \in 1 .. MaxPieces
                  /\ \/ /\ Heard(m)
                        /\ thinking' = IF agent = "codex" THEN thinking
                                       ELSE Accumulated(thinking, m, k)
                        /\ \E content \in Seq(Piece) : \E p \in Nat :
                              /\ content = IF agent = "codex" THEN <<<<m, k>>>> ELSE thinking'
                              /\ Puts(items, Reasoning(content), p, items')
                        /\ answer' = answer
                     \/ /\ ~Heard(m)
                        /\ UNCHANGED <<thinking, items, answer>>
<1> DEFINE m == Len(messages')
           k == messages'[m].thought
<1>1. step \in {"open"} \cup SpeakingSteps /\ Grow("thought")
  BY DEF ReasoningDelta, SpeakingSteps
<1>2. /\ messages' \in Seq(Message) /\ m \in 1 .. MaxMessages
      /\ pieces' \in 0 .. MaxPieces
      /\ \A n \in 1 .. m : messages'[n].thought <= pieces' /\ messages'[n].sent <= pieces'
      /\ messages'[m] = [(IF step = "open" THEN Blank ELSE messages[Len(messages)])
                            EXCEPT !.thought = @ + 1]
  BY <1>1, GrowEffect
<1>3. m \in Numbers /\ messages'[m] \in Message
  BY <1>2, Bounds, ElementOfSeq DEF Numbers
<1>4. k \in 1 .. MaxPieces
  <2> DEFINE old == IF step = "open" THEN Blank ELSE messages[Len(messages)]
  <2>1. old \in Message
    <3>1. CASE step = "open"
      BY <3>1, Bounds DEF Blank, Message, TInv, StepKnown
    <3>2. CASE step # "open"
      BY <1>1, <3>2, Lengths DEF TInv, StepKnown
    <3> QED BY <3>1, <3>2
  <2>2. messages'[m].thought = old.thought + 1
    BY <1>2, <2>1 DEF Message
  <2>3. old.thought \in Nat /\ messages'[m].thought \in 0 .. MaxPieces
    BY <1>3, <2>1, Bounds DEF Message
  <2> HIDE DEF old
  <2> QED BY <2>2, <2>3, Bounds
<1> HIDE DEF m, k
<1>5. CASE Heard(m)
  <2> DEFINE now == Accumulated(thinking, m, k)
             content == IF agent = "codex" THEN <<<<m, k>>>> ELSE now
  <2>1. now \in Seq(Piece) /\ content \in Seq(Piece)
    BY <1>3, <1>4, AccumulatedType DEF TInv, TypeOK
  <2>2. /\ thinking' = IF agent = "codex" THEN thinking ELSE now
        /\ Emit(<<Reasoning(content)>>)
    BY <1>5 DEF ReasoningDelta, ThoughtShown, m, k
  <2> HIDE DEF content, now
  <2>3. Reasoning(content) \in Item /\ Reasoning(content).kind = "reasoning"
    BY <2>1, NewItemType DEF TInv
  <2>4. items' \in Seq(Item) /\ answer' \in [Turns -> Seq(Piece)]
    BY <2>2, <2>3, EmitTypes DEF TInv, Words
  <2>5. (\E p \in Nat : Puts(items, Reasoning(content), p, items')) /\ answer' = answer
    BY <2>2, <2>3, EmitOne DEF TInv, Words
  <2>6. text' \in Seq(Piece) /\ thinking' \in Seq(Piece)
    BY <2>1, <2>2 DEF ReasoningDelta, TInv, TypeOK
  <2>7. TInv'
    BY <1>2, <2>4, <2>6, SpeaksTypes DEF ReasoningDelta, SpeakingSteps, m
  <2>8. content = IF agent = "codex" THEN <<<<m, k>>>> ELSE thinking'
    BY <2>2 DEF content
  <2> QED BY <1>3, <1>4, <1>5, <2>1, <2>2, <2>5, <2>7, <2>8 DEF m, k, now
<1>6. CASE ~Heard(m)
  <2>1. UNCHANGED <<thinking, items, answer, text>>
    BY <1>6 DEF ReasoningDelta, m
  <2>2. TInv'
    BY <1>2, <2>1, SpeaksTypes DEF ReasoningDelta, SpeakingSteps, TInv, TypeOK, m
  <2> QED BY <1>3, <1>4, <1>6, <2>1, <2>2 DEF m, k
<1> QED BY <1>5, <1>6

LEMMA TextDeltaEffect ==
    ASSUME TInv, TextDelta
    PROVE  /\ TInv'
           /\ LET m == Len(messages')
                  k == messages'[m].sent
              IN  /\ m \in Numbers /\ k \in 1 .. MaxPieces
                  /\ \/ /\ Heard(m)
                        /\ text' = Accumulated(text, m, k)
                        /\ \E p \in Nat : Puts(items, Assistant(text'), p, items')
                        /\ answer' = IF Listening THEN [answer EXCEPT ![run.turn] = text']
                                     ELSE answer
                     \/ /\ ~Heard(m)
                        /\ UNCHANGED <<text, items, answer>>
<1> DEFINE m == Len(messages')
           k == messages'[m].sent
<1>1. step \in {"open"} \cup SpeakingSteps /\ Grow("sent")
  BY DEF TextDelta, SpeakingSteps
<1>2. /\ messages' \in Seq(Message) /\ m \in 1 .. MaxMessages
      /\ pieces' \in 0 .. MaxPieces
      /\ \A n \in 1 .. m : messages'[n].thought <= pieces' /\ messages'[n].sent <= pieces'
      /\ messages'[m] = [(IF step = "open" THEN Blank ELSE messages[Len(messages)])
                            EXCEPT !.sent = @ + 1]
  BY <1>1, GrowEffect
<1>3. m \in Numbers /\ messages'[m] \in Message
  BY <1>2, Bounds, ElementOfSeq DEF Numbers
<1>4. k \in 1 .. MaxPieces
  <2> DEFINE old == IF step = "open" THEN Blank ELSE messages[Len(messages)]
  <2>1. old \in Message
    <3>1. CASE step = "open"
      BY <3>1, Bounds DEF Blank, Message, TInv, StepKnown
    <3>2. CASE step # "open"
      BY <1>1, <3>2, Lengths DEF TInv, StepKnown
    <3> QED BY <3>1, <3>2
  <2>2. messages'[m].sent = old.sent + 1
    BY <1>2, <2>1 DEF Message
  <2>3. old.sent \in Nat /\ messages'[m].sent \in 0 .. MaxPieces
    BY <1>3, <2>1, Bounds DEF Message
  <2> HIDE DEF old
  <2> QED BY <2>2, <2>3, Bounds
<1> HIDE DEF m, k
<1>5. CASE Heard(m)
  <2>1. PICK now \in Seq(Piece) : now = Accumulated(text, m, k)
    BY <1>3, <1>4, AccumulatedType DEF TInv, TypeOK
  <2>2. text' = now /\ Emit(<<Assistant(now)>>)
    BY <1>5, <2>1 DEF TextDelta, m, k
  <2>3. /\ Assistant(now) \in Item /\ Assistant(now).kind = "assistant"
        /\ Assistant(now).text = now
    BY NewItemType DEF TInv
  <2>4. items' \in Seq(Item) /\ answer' \in [Turns -> Seq(Piece)]
    BY <2>2, <2>3, EmitTypes DEF TInv, Words
  <2>5. /\ \E p \in Nat : Puts(items, Assistant(now), p, items')
        /\ answer' = IF Listening THEN [answer EXCEPT ![run.turn] = now] ELSE answer
    BY <2>2, <2>3, EmitOne DEF TInv, Words
  <2>6. text' \in Seq(Piece) /\ thinking' \in Seq(Piece)
    BY <2>2 DEF TextDelta, TInv, TypeOK
  <2>7. TInv'
    BY <1>2, <2>4, <2>6, SpeaksTypes DEF TextDelta, SpeakingSteps, m
  <2>8. Assistant(now) = Assistant(text')
    BY <2>2
  <2> QED BY <1>3, <1>4, <1>5, <2>1, <2>2, <2>5, <2>7, <2>8 DEF m, k
<1>6. CASE ~Heard(m)
  <2>1. UNCHANGED <<thinking, items, answer, text>>
    BY <1>6 DEF TextDelta, m
  <2>2. TInv'
    BY <1>2, <2>1, SpeaksTypes DEF TextDelta, SpeakingSteps, TInv, TypeOK, m
  <2> QED BY <1>3, <1>4, <1>6, <2>1, <2>2 DEF m, k
<1> QED BY <1>5, <1>6

LEMMA ReasoningEndsEffect ==
    ASSUME TInv, ReasoningEnds
    PROVE  /\ TInv'
           /\ thinking' = WholeThinking(Current) /\ answer' = answer
           /\ \/ thinking = WholeThinking(Current) /\ items' = items
              \/ \E p \in Nat : Puts(items, Reasoning(WholeThinking(Current)), p, items')
<1>1. /\ Len(messages) \in 1 .. MaxMessages /\ messages' = messages /\ pieces' = pieces
      /\ Current = Len(messages)
  BY Lengths DEF ReasoningEnds, TInv, StepKnown, SpeakingSteps, Current
<1>2. PICK w \in Seq(Piece) : w = WholeThinking(Current)
  BY <1>1, WholesType DEF TInv
<1>3. CASE thinking = w
  <2>1. UNCHANGED <<thinking, items, answer, text>>
    BY <1>2, <1>3 DEF ReasoningEnds
  <2>2. TInv'
    BY <1>1, <2>1, SpeaksTypes DEF ReasoningEnds, SpeakingSteps, TInv, TypeOK, StepKnown
  <2> QED BY <1>2, <1>3, <2>1, <2>2
<1>4. CASE thinking # w
  <2>1. thinking' = w /\ Emit(<<Reasoning(w)>>) /\ text' = text
    BY <1>2, <1>4 DEF ReasoningEnds
  <2>2. Reasoning(w) \in Item /\ Reasoning(w).kind = "reasoning"
    BY NewItemType DEF TInv
  <2>3. items' \in Seq(Item) /\ answer' \in [Turns -> Seq(Piece)]
    BY <2>1, <2>2, EmitTypes DEF TInv, Words
  <2>4. (\E p \in Nat : Puts(items, Reasoning(w), p, items')) /\ answer' = answer
    BY <2>1, <2>2, EmitOne DEF TInv, Words
  <2>5. TInv'
    BY <1>1, <2>1, <2>3, SpeaksTypes
    DEF ReasoningEnds, SpeakingSteps, TInv, TypeOK, StepKnown
  <2> QED BY <1>2, <2>1, <2>4, <2>5
<1> QED BY <1>3, <1>4

LEMMA MessageEndsEffect ==
    ASSUME TInv, MessageEnds
    PROVE  /\ TInv'
           /\ Len(messages) \in 1 .. MaxMessages /\ Current = Len(messages)
           /\ Len(messages') = Len(messages)
           /\ \A m \in 1 .. Len(messages) :
                 messages'[m] = IF m = Current THEN [messages[m] EXCEPT !.ended = TRUE]
                                ELSE messages[m]
           /\ \/ /\ Repeats /\ UNCHANGED <<items, answer>>
              \/ /\ ~Repeats
                 /\ answer' = IF Listening THEN [answer EXCEPT ![run.turn] = WholeText(Current)]
                              ELSE answer
                 /\ \/ /\ ~Rethought
                       /\ \E p \in Nat : Puts(items, Assistant(WholeText(Current)), p, items')
                    \/ /\ Rethought
                       /\ \E list \in Seq(Item) : \E p, q \in Nat :
                             /\ Puts(items, Reasoning(WholeThinking(Current)), p, list)
                             /\ Puts(list, Assistant(WholeText(Current)), q, items')
           /\ text' = IF agent = "claude" THEN text ELSE WholeText(Current)
           /\ thinking' = IF Rethought THEN WholeThinking(Current) ELSE thinking
<1>1. Current = Len(messages) /\ Current \in 1 .. MaxMessages
  BY Lengths DEF MessageEnds, TInv, StepKnown, SpeakingSteps, Current
<1>2. messages[Current] \in Message
  BY <1>1, Lengths DEF TInv
<1> DEFINE marked == [messages[Current] EXCEPT !.ended = TRUE]
<1>3. /\ marked \in Message
      /\ marked.thought = messages[Current].thought /\ marked.sent = messages[Current].sent
  BY <1>2 DEF Message
<1>4. messages' = [messages EXCEPT ![Current] = marked] /\ pieces' = pieces
  BY <1>1, <1>2 DEF MessageEnds, Ended
<1>5. step \in SpeakingSteps /\ step' \in SpeakingSteps
  BY DEF MessageEnds, SpeakingSteps
<1> HIDE DEF marked
<1>6. /\ messages' \in Seq(Message) /\ Len(messages') = Len(messages)
      /\ \A m \in 1 .. Len(messages) :
            messages'[m] = IF m = Len(messages) THEN marked ELSE messages[m]
      /\ \A m \in 1 .. Len(messages') :
            messages'[m].thought <= pieces' /\ messages'[m].sent <= pieces'
  BY <1>3, <1>4, <1>5, MarkEffect
<1>7. \A m \in 1 .. Len(messages) :
         messages'[m] = IF m = Current THEN [messages[m] EXCEPT !.ended = TRUE]
                        ELSE messages[m]
  BY <1>1, <1>6 DEF marked
<1>8. PICK w \in Seq(Piece) : w = WholeText(Current)
  BY <1>1, WholesType DEF TInv
<1>9. PICK v \in Seq(Piece) : v = WholeThinking(Current)
  BY <1>1, WholesType DEF TInv
<1>10. /\ text' = IF agent = "claude" THEN text ELSE w
       /\ thinking' = IF Rethought THEN v ELSE thinking
  BY <1>8, <1>9 DEF MessageEnds
<1>11. text' \in Seq(Piece) /\ thinking' \in Seq(Piece)
  BY <1>10 DEF TInv, TypeOK
<1>12. ASSUME items' \in Seq(Item), answer' \in [Turns -> Seq(Piece)] PROVE TInv'
  <2>1. step # "idle" /\ Streamed
    BY DEF MessageEnds
  <2> QED BY <1>1, <1>4, <1>5, <1>6, <1>11, <1>12, <2>1, SpeaksTypes DEF TInv, TypeOK
<1>13. CASE Repeats
  <2>1. UNCHANGED <<items, answer>>
    BY <1>13 DEF MessageEnds
  <2>2. TInv'
    BY <1>12, <2>1 DEF TInv, TypeOK
  <2> QED BY <1>1, <1>6, <1>7, <1>8, <1>9, <1>10, <1>13, <2>1, <2>2
<1>14. CASE ~Repeats /\ ~Rethought
  <2>1. Emit(<<Assistant(w)>>)
    <3>1. Emit(<<>> \o <<Assistant(w)>>)
      BY <1>8, <1>14 DEF MessageEnds
    <3>2. <<>> \o <<Assistant(w)>> = <<Assistant(w)>>
      OBVIOUS
    <3> QED BY <3>1, <3>2
  <2>2. /\ Assistant(w) \in Item /\ Assistant(w).kind = "assistant"
        /\ Assistant(w).text = w
    BY NewItemType DEF TInv
  <2>3. items' \in Seq(Item) /\ answer' \in [Turns -> Seq(Piece)]
    BY <2>1, <2>2, EmitTypes DEF TInv, Words
  <2>4. /\ \E p \in Nat : Puts(items, Assistant(w), p, items')
        /\ answer' = IF Listening THEN [answer EXCEPT ![run.turn] = w] ELSE answer
    BY <2>1, <2>2, EmitOne DEF TInv, Words
  <2>5. TInv'
    BY <1>12, <2>3
  <2> QED BY <1>1, <1>6, <1>7, <1>8, <1>9, <1>10, <1>14, <2>4, <2>5
<1>15. CASE ~Repeats /\ Rethought
  <2>1. Emit(<<Reasoning(v), Assistant(w)>>)
    <3>1. Emit(<<Reasoning(v)>> \o <<Assistant(w)>>)
      BY <1>8, <1>10, <1>15 DEF MessageEnds
    <3>2. <<Reasoning(v)>> \o <<Assistant(w)>> = <<Reasoning(v), Assistant(w)>>
      BY ConcatTwo
    <3> QED BY <3>1, <3>2
  <2>2. /\ Assistant(w) \in Item /\ Assistant(w).kind = "assistant"
        /\ Assistant(w).text = w
        /\ Reasoning(v) \in Item /\ Reasoning(v).kind = "reasoning"
    BY NewItemType DEF TInv
  <2>3. items' \in Seq(Item) /\ answer' \in [Turns -> Seq(Piece)]
    <3>1. (Reasoning(v).kind = "assistant") # (Assistant(w).kind = "assistant")
      BY <2>2
    <3> QED BY <2>1, <2>2, <3>1, EmitTypes DEF TInv, Words
  <2>4. /\ \E list \in Seq(Item) : \E p, q \in Nat :
              Puts(items, Reasoning(v), p, list) /\ Puts(list, Assistant(w), q, items')
        /\ answer' = IF Listening THEN [answer EXCEPT ![run.turn] = w] ELSE answer
    <3>1. Reasoning(v).kind # "assistant"
      BY <2>2
    <3> QED BY <2>1, <2>2, <3>1, EmitTwo DEF TInv, Words
  <2>5. TInv'
    BY <1>12, <2>3
  <2> QED BY <1>1, <1>6, <1>7, <1>8, <1>9, <1>10, <1>15, <2>4, <2>5
<1> QED BY <1>13, <1>14, <1>15

LEMMA ToolStartsEffect ==
    ASSUME TInv, ToolStarts
    PROVE  /\ TInv'
           /\ Len(messages) \in 1 .. MaxMessages /\ Current = Len(messages)
           /\ Len(messages') = Len(messages)
           /\ \A m \in 1 .. Len(messages) :
                 messages'[m] = IF m = Current THEN [messages[m] EXCEPT !.tool = TRUE]
                                ELSE messages[m]
           /\ answer' = answer
           /\ \E p \in Nat : Puts(items, ToolCall(Current, "running"), p, items')
<1>1. Current = Len(messages) /\ Current \in 1 .. MaxMessages /\ Current \in Nat
  BY Lengths DEF ToolStarts, TInv, StepKnown, SpeakingSteps, Current
<1>2. messages[Current] \in Message
  BY <1>1, Lengths DEF TInv
<1> DEFINE marked == [messages[Current] EXCEPT !.tool = TRUE]
<1>3. /\ marked \in Message
      /\ marked.thought = messages[Current].thought /\ marked.sent = messages[Current].sent
  BY <1>2 DEF Message
<1>4. messages' = [messages EXCEPT ![Current] = marked] /\ pieces' = pieces
  BY <1>1, <1>2 DEF ToolStarts
<1>5. step \in SpeakingSteps /\ step' \in SpeakingSteps /\ step # "idle" /\ Streamed
  BY DEF ToolStarts, SpeakingSteps
<1> HIDE DEF marked
<1>6. /\ messages' \in Seq(Message) /\ Len(messages') = Len(messages)
      /\ \A m \in 1 .. Len(messages) :
            messages'[m] = IF m = Len(messages) THEN marked ELSE messages[m]
      /\ \A m \in 1 .. Len(messages') :
            messages'[m].thought <= pieces' /\ messages'[m].sent <= pieces'
  BY <1>3, <1>4, <1>5, MarkEffect
<1>7. \A m \in 1 .. Len(messages) :
         messages'[m] = IF m = Current THEN [messages[m] EXCEPT !.tool = TRUE]
                        ELSE messages[m]
  BY <1>1, <1>6 DEF marked
<1>8. PICK c \in Nat : c = Current
  BY <1>1
<1>9. Emit(<<ToolCall(c, "running")>>) /\ UNCHANGED <<text, thinking>>
  BY <1>8 DEF ToolStarts
<1>10. ToolCall(c, "running") \in Item /\ ToolCall(c, "running").kind = "tool"
  BY NewItemType DEF TInv
<1>11. items' \in Seq(Item) /\ answer' \in [Turns -> Seq(Piece)]
  BY <1>9, <1>10, EmitTypes DEF TInv, Words
<1>12. (\E p \in Nat : Puts(items, ToolCall(c, "running"), p, items')) /\ answer' = answer
  BY <1>9, <1>10, EmitOne DEF TInv, Words
<1>13. TInv'
  BY <1>1, <1>4, <1>5, <1>6, <1>9, <1>11, SpeaksTypes DEF TInv, TypeOK
<1> QED BY <1>1, <1>6, <1>7, <1>8, <1>12, <1>13

LEMMA ToolEndsEffect ==
    ASSUME TInv, ToolEnds
    PROVE  /\ TInv'
           /\ Len(messages) \in 1 .. MaxMessages /\ Current = Len(messages)
           /\ Len(messages') = Len(messages)
           /\ \A m \in 1 .. Len(messages) :
                 messages'[m] = IF m = Current THEN [messages[m] EXCEPT !.ended = TRUE]
                                ELSE messages[m]
           /\ \E status \in {"completed", "failed"} :
                 \/ /\ answer' = answer
                    /\ \E p \in Nat : Puts(items, ToolCall(Current, status), p, items')
                 \/ /\ answer' = IF Listening
                                 THEN [answer EXCEPT ![run.turn] = WholeText(Current)]
                                 ELSE answer
                    /\ \E list \in Seq(Item) : \E p, q \in Nat :
                          /\ Puts(items, Assistant(WholeText(Current)), p, list)
                          /\ Puts(list, ToolCall(Current, status), q, items')
<1>1. Current = Len(messages) /\ Current \in 1 .. MaxMessages /\ Current \in Nat
  BY Lengths DEF ToolEnds, TInv, StepKnown, SpeakingSteps, Current
<1>2. messages[Current] \in Message
  BY <1>1, Lengths DEF TInv
<1> DEFINE marked == [messages[Current] EXCEPT !.ended = TRUE]
<1>3. /\ marked \in Message
      /\ marked.thought = messages[Current].thought /\ marked.sent = messages[Current].sent
  BY <1>2 DEF Message
<1>4. messages' = [messages EXCEPT ![Current] = marked] /\ pieces' = pieces
  BY <1>1, <1>2 DEF ToolEnds, Ended
<1>5. step \in SpeakingSteps /\ step' = "open" /\ step # "idle" /\ Streamed
  BY DEF ToolEnds, SpeakingSteps
<1> HIDE DEF marked
<1>6. /\ messages' \in Seq(Message) /\ Len(messages') = Len(messages)
      /\ \A m \in 1 .. Len(messages) :
            messages'[m] = IF m = Len(messages) THEN marked ELSE messages[m]
      /\ \A m \in 1 .. Len(messages') :
            messages'[m].thought <= pieces' /\ messages'[m].sent <= pieces'
  BY <1>3, <1>4, <1>5, MarkEffect
<1>7. \A m \in 1 .. Len(messages) :
         messages'[m] = IF m = Current THEN [messages[m] EXCEPT !.ended = TRUE]
                        ELSE messages[m]
  BY <1>1, <1>6 DEF marked
<1>8. PICK c \in Nat : c = Current
  BY <1>1
<1>9. PICK w \in Seq(Piece) : w = WholeText(Current)
  BY <1>1, WholesType DEF TInv
<1>10. PICK status \in {"completed", "failed"} :
          Emit((IF messages[Current].ended THEN <<>> ELSE <<Assistant(w)>>)
               \o <<ToolCall(c, status)>>)
  BY <1>8, <1>9 DEF ToolEnds, ToolStatuses
<1>11. /\ ToolCall(c, status) \in Item /\ ToolCall(c, status).kind = "tool"
       /\ Assistant(w) \in Item /\ Assistant(w).kind = "assistant"
       /\ Assistant(w).text = w
  BY NewItemType DEF TInv
<1>12. ASSUME items' \in Seq(Item), answer' \in [Turns -> Seq(Piece)] PROVE TInv'
  <2>1. UNCHANGED <<text, thinking>>
    BY DEF ToolEnds
  <2> QED BY <1>1, <1>4, <1>5, <1>6, <1>12, <2>1, SpeaksTypes DEF TInv, TypeOK
<1>13. CASE messages[Current].ended
  <2>1. Emit(<<ToolCall(c, status)>>)
    <3>1. Emit(<<>> \o <<ToolCall(c, status)>>)
      BY <1>10, <1>13
    <3>2. <<>> \o <<ToolCall(c, status)>> = <<ToolCall(c, status)>>
      OBVIOUS
    <3> QED BY <3>1, <3>2
  <2>2. items' \in Seq(Item) /\ answer' \in [Turns -> Seq(Piece)]
    BY <1>11, <2>1, EmitTypes DEF TInv, Words
  <2>3. (\E p \in Nat : Puts(items, ToolCall(c, status), p, items')) /\ answer' = answer
    BY <1>11, <2>1, EmitOne DEF TInv, Words
  <2>4. TInv'
    BY <1>12, <2>2
  <2> QED BY <1>1, <1>6, <1>7, <1>8, <2>3, <2>4
<1>14. CASE ~messages[Current].ended
  <2>1. Emit(<<Assistant(w), ToolCall(c, status)>>)
    <3>1. Emit(<<Assistant(w)>> \o <<ToolCall(c, status)>>)
      BY <1>10, <1>14
    <3>2. <<Assistant(w)>> \o <<ToolCall(c, status)>> = <<Assistant(w), ToolCall(c, status)>>
      BY ConcatTwo
    <3> QED BY <3>1, <3>2
  <2>2. items' \in Seq(Item) /\ answer' \in [Turns -> Seq(Piece)]
    <3>1. (Assistant(w).kind = "assistant") # (ToolCall(c, status).kind = "assistant")
      BY <1>11
    <3> QED BY <1>11, <2>1, <3>1, EmitTypes DEF TInv, Words
  <2>3. /\ \E list \in Seq(Item) : \E p, q \in Nat :
              Puts(items, Assistant(w), p, list) /\ Puts(list, ToolCall(c, status), q, items')
        /\ answer' = IF Listening THEN [answer EXCEPT ![run.turn] = w] ELSE answer
    <3>1. ToolCall(c, status).kind # "assistant"
      BY <1>11
    <3> QED BY <1>11, <2>1, <3>1, EmitTwo DEF TInv, Words
  <2>4. TInv'
    BY <1>12, <2>2
  <2> QED BY <1>1, <1>6, <1>7, <1>8, <1>9, <2>3, <2>4
<1> QED BY <1>13, <1>14

-----------------------------------------------------------------------------
(* Permissions, and the type                                               *)

\* A request has a number of its own, and until it is answered it has one card.
CardsOnce ==
    /\ waiting \subseteq pending /\ pending \subseteq 1 .. asked
    /\ \A i \in 1 .. Len(items) : items[i].kind = "card" => items[i].of \in 1 .. asked
    /\ \A n \in pending : \E i : CardsIn(items, n) = {i}

LEMMA CardsStay ==
    ASSUME CardsOnce, \A n : CardsIn(items', n) = CardsIn(items, n),
           asked' = asked, pending' \subseteq pending, waiting' \subseteq pending'
    PROVE  CardsOnce'
<1>1. ASSUME NEW i \in 1 .. Len(items'), items'[i].kind = "card"
      PROVE  items'[i].of \in 1 .. asked'
  <2>1. i \in CardsIn(items', items'[i].of)
    BY <1>1 DEF CardsIn
  <2>2. i \in CardsIn(items, items'[i].of)
    BY <2>1
  <2>3. i \in 1 .. Len(items) /\ items[i].kind = "card" /\ items[i].of = items'[i].of
    BY <2>2 DEF CardsIn
  <2> QED BY <2>3 DEF CardsOnce
<1>2. \A n \in pending' : \E i : CardsIn(items', n) = {i}
  BY DEF CardsOnce
<1>3. pending' \subseteq 1 .. asked'
  BY DEF CardsOnce
<1> QED BY <1>1, <1>2, <1>3 DEF CardsOnce

LEMMA SpeaksCards ==
    ASSUME TInv, CardsOnce, Speaks
    PROVE  TInv' /\ CardsOnce'
<1>1. ASSUME NEW x, NEW p, Puts(items, x, p, items'), x.kind # "card"
      PROVE  \A n : CardsIn(items', n) = CardsIn(items, n)
  BY <1>1, PutsCards
<1>2. ASSUME NEW x, NEW y, NEW list, NEW p, NEW q, Puts(items, x, p, list),
             Puts(list, y, q, items'), x.kind # "card", y.kind # "card"
      PROVE  \A n : CardsIn(items', n) = CardsIn(items, n)
  <2>1. \A n : CardsIn(list, n) = CardsIn(items, n)
    BY <1>2, PutsCards
  <2>2. \A n : CardsIn(items', n) = CardsIn(list, n)
    BY <1>2, PutsCards
  <2> QED BY <2>1, <2>2
<1>3. \A content, m, status :
         /\ Assistant(content).kind # "card" /\ Reasoning(content).kind # "card"
         /\ ToolCall(m, status).kind # "card"
  BY DEF Assistant, Reasoning, ToolCall, NewItem
<1>4. ASSUME Streamed \/ MessageUpdated
      PROVE  asked' = asked /\ pending' \subseteq pending /\ waiting' \subseteq pending'
  BY <1>4 DEF Streamed, MessageUpdated, CardsOnce
<1>5. CASE ReasoningDelta
  <2>1. TInv' /\ Streamed
    BY <1>5, ReasoningDeltaEffect DEF ReasoningDelta
  <2>2. \/ items' = items
        \/ \E content, p : Puts(items, Reasoning(content), p, items')
    BY <1>5, ReasoningDeltaEffect
  <2>3. \A n : CardsIn(items', n) = CardsIn(items, n)
    BY <1>1, <1>3, <2>2
  <2> QED BY <1>4, <2>1, <2>3, CardsStay
<1>6. CASE ReasoningEnds
  <2>1. TInv' /\ Streamed
    BY <1>6, ReasoningEndsEffect DEF ReasoningEnds
  <2>2. \/ items' = items
        \/ \E content, p : Puts(items, Reasoning(content), p, items')
    BY <1>6, ReasoningEndsEffect
  <2>3. \A n : CardsIn(items', n) = CardsIn(items, n)
    BY <1>1, <1>3, <2>2
  <2> QED BY <1>4, <2>1, <2>3, CardsStay
<1>7. CASE TextDelta
  <2>1. TInv' /\ Streamed
    BY <1>7, TextDeltaEffect DEF TextDelta
  <2>2. \/ items' = items
        \/ \E p : Puts(items, Assistant(text'), p, items')
    BY <1>7, TextDeltaEffect
  <2>3. \A n : CardsIn(items', n) = CardsIn(items, n)
    BY <1>1, <1>3, <2>2
  <2> QED BY <1>4, <2>1, <2>3, CardsStay
<1>8. CASE MessageUpdated
  <2>1. TInv' /\ items' = items
    BY <1>8, ControlTypes DEF MessageUpdated, said
  <2> QED BY <1>4, <1>8, <2>1, CardsStay
<1>9. CASE MessageEnds
  <2>1. TInv' /\ Streamed
    BY <1>9, MessageEndsEffect DEF MessageEnds
  <2>2. \/ items' = items
        \/ \E content, p : Puts(items, Assistant(content), p, items')
        \/ \E v, w, list, p, q :
              Puts(items, Reasoning(v), p, list) /\ Puts(list, Assistant(w), q, items')
    <3>1. CASE Repeats
      BY <1>9, <3>1, MessageEndsEffect
    <3>2. CASE ~Repeats /\ ~Rethought
      BY <1>9, <3>2, MessageEndsEffect
    <3>3. CASE ~Repeats /\ Rethought
      BY <1>9, <3>3, MessageEndsEffect
    <3> QED BY <3>1, <3>2, <3>3
  <2>3. \A n : CardsIn(items', n) = CardsIn(items, n)
    BY <1>1, <1>2, <1>3, <2>2
  <2> QED BY <1>4, <2>1, <2>3, CardsStay
<1>10. CASE ToolStarts
  <2>1. TInv' /\ Streamed
    BY <1>10, ToolStartsEffect DEF ToolStarts
  <2>2. \E m, status, p : Puts(items, ToolCall(m, status), p, items')
    BY <1>10, ToolStartsEffect
  <2>3. \A n : CardsIn(items', n) = CardsIn(items, n)
    BY <1>1, <1>3, <2>2
  <2> QED BY <1>4, <2>1, <2>3, CardsStay
<1>11. CASE ToolEnds
  <2>1. TInv' /\ Streamed
    BY <1>11, ToolEndsEffect DEF ToolEnds
  <2>2. \/ \E m, status, p : Puts(items, ToolCall(m, status), p, items')
        \/ \E m, status, w, list, p, q :
              Puts(items, Assistant(w), p, list) /\ Puts(list, ToolCall(m, status), q, items')
    BY <1>11, ToolEndsEffect
  <2>3. \A n : CardsIn(items', n) = CardsIn(items, n)
    BY <1>1, <1>2, <1>3, <2>2
  <2> QED BY <1>4, <2>1, <2>3, CardsStay
<1> QED BY <1>5, <1>6, <1>7, <1>8, <1>9, <1>10, <1>11 DEF Speaks

LEMMA CardIsPut ==
    ASSUME TInv, PermissionAsked
    PROVE  /\ asked' \in Nat /\ asked' = asked + 1
           /\ NewItem("card", asked', <<>>, "none") \in Item
           /\ Puts(items, NewItem("card", asked', <<>>, "none"), Len(items) + 1, items')
<1>1. asked' \in Nat /\ asked' = asked + 1
  BY Bounds DEF PermissionAsked, TInv, TypeOK
<1> DEFINE x == NewItem("card", asked', <<>>, "none")
<1>2. x \in Item /\ x.kind = "card"
  BY <1>1, EmptySeq DEF NewItem, Item, TInv, TypeOK
<1>3. \A q : ~Replaces(items, x, q)
  BY <1>2 DEF Replaces, Words
<1> HIDE DEF x
<1>4. items' = Append(items, x)
  BY DEF PermissionAsked, x
<1>5. Puts(items, x, Len(items) + 1, items')
  BY <1>2, <1>3, <1>4, AppendPuts DEF TInv, TypeOK
<1> QED BY <1>1, <1>2, <1>5 DEF x

\* The user's message.
LEMMA UserIsPut ==
    ASSUME TInv, NEW t \in Turns, StartTurn(t)
    PROVE  \E x \in Item : /\ x.kind = "user" /\ x.turn = None
                           /\ Puts(items, x, Len(items) + 1, items')
<1> DEFINE x == [NewItem("user", t, <<>>, "none") EXCEPT !.turn = None]
<1>1. x \in Item /\ x.kind = "user" /\ x.turn = None
  BY EmptySeq, Bounds DEF NewItem, Item
<1>2. \A q : ~Replaces(items, x, q)
  BY <1>1 DEF Replaces, Words
<1> HIDE DEF x
<1>3. items' = Append(items, x)
  BY DEF StartTurn, x
<1>4. Puts(items, x, Len(items) + 1, items')
  BY <1>1, <1>2, <1>3, AppendPuts DEF TInv, TypeOK
<1> QED BY <1>1, <1>4

\* A card is dropped.
LEMMA RespondDrops ==
    ASSUME TInv, CardsOnce, NEW n \in pending, RespondToPermission(n)
    PROVE  \E c : /\ Cards(n) = {c} /\ CardsIn(items, n) = {c}
                  /\ items[c].kind = "card" /\ Drops(items, c, items')
<1>1. Cards(n) = CardsIn(items, n)
  BY Lengths DEF Cards, CardsIn, TInv
<1>2. PICK c : CardsIn(items, n) = {c}
  BY DEF CardsOnce
<1>3. c \in 1 .. Len(items) /\ items[c].kind = "card"
  BY <1>2 DEF CardsIn
<1>4. items' = Without(items, {c}) /\ items \in Seq(Item)
  BY <1>1, <1>2 DEF RespondToPermission, TInv, TypeOK
<1>5. Drops(items, c, items')
  <2>1. /\ items' \in Seq(Item) /\ Len(items) \in Nat /\ Len(items') = Len(items) - 1
        /\ \A k \in 1 .. (Len(items) - 1) :
              items'[k] = IF k < c THEN items[k] ELSE items[k + 1]
    BY <1>3, <1>4, WithoutOne
  <2> QED BY <1>3, <1>4, <2>1 DEF Drops
<1> QED BY <1>1, <1>2, <1>3, <1>5

LEMMA AskCards ==
    ASSUME TInv, CardsOnce
    PROVE  /\ PermissionAsked => CardsOnce'
           /\ \A n \in pending : RespondToPermission(n) => CardsOnce'
<1>0. asked \in Nat /\ Len(items) \in Nat
  BY Bounds, Lengths DEF TInv, TypeOK
<1>1. ASSUME PermissionAsked PROVE CardsOnce'
  <2>1. PICK x, p : /\ x \in Item /\ x.kind = "card" /\ x.of = asked'
                    /\ Puts(items, x, p, items')
    BY <1>1, CardIsPut DEF NewItem
  <2>2. asked' = asked + 1 /\ pending' = pending \cup {asked'} /\ waiting' = waiting \cup {asked'}
    BY <1>1 DEF PermissionAsked, Remember
  <2>3. CardsIn(items, asked') = {}
    BY <1>0, <2>2 DEF CardsIn, CardsOnce
  <2>4. \A n : CardsIn(items', n) =
                  IF n = asked' THEN CardsIn(items, n) \cup {p} ELSE CardsIn(items, n)
    BY <2>1, PutsCards
  <2>5. ASSUME NEW i \in 1 .. Len(items'), items'[i].kind = "card"
        PROVE  items'[i].of \in 1 .. asked'
    <3>1. items'[i] = x \/ (i \in 1 .. Len(items) /\ items'[i] = items[i])
      BY <2>1, PutsItems
    <3> QED BY <1>0, <2>1, <2>2, <2>5, <3>1 DEF CardsOnce
  <2>6. ASSUME NEW n \in pending' PROVE \E i : CardsIn(items', n) = {i}
    <3>1. CASE n = asked'
      BY <2>3, <2>4, <3>1
    <3>2. CASE n # asked'
      BY <2>2, <2>4, <3>2 DEF CardsOnce
    <3> QED BY <3>1, <3>2
  <2>7. waiting' \subseteq pending' /\ pending' \subseteq 1 .. asked'
    BY <1>0, <2>2 DEF CardsOnce
  <2> QED BY <2>5, <2>6, <2>7 DEF CardsOnce
<1>2. ASSUME NEW n \in pending, RespondToPermission(n) PROVE CardsOnce'
  <2>1. PICK c : CardsIn(items, n) = {c} /\ Drops(items, c, items')
    BY <1>2, RespondDrops
  <2>2. asked' = asked /\ pending' = pending \ {n} /\ waiting' = waiting \ {n}
    BY <1>2 DEF RespondToPermission, Forget
  <2>3. ASSUME NEW i \in 1 .. Len(items'), items'[i].kind = "card"
        PROVE  items'[i].of \in 1 .. asked'
    <3>1. PICK j \in 1 .. Len(items) : items'[i] = items[j]
      BY <2>1, DropsItems
    <3> QED BY <2>2, <2>3, <3>1 DEF CardsOnce
  <2>4. ASSUME NEW k \in pending' PROVE \E i : CardsIn(items', k) = {i}
    <3>1. k \in pending /\ k # n
      BY <2>2
    <3>2. PICK i : CardsIn(items, k) = {i}
      BY <3>1 DEF CardsOnce
    <3>3. i # c
      BY <2>1, <3>1, <3>2 DEF CardsIn
    <3>4. CardsIn(items', k) = {Moved(c, i)}
      BY <2>1, <3>2, <3>3, DropsCards
    <3> QED BY <3>4
  <2>5. waiting' \subseteq pending' /\ pending' \subseteq 1 .. asked'
    BY <2>2 DEF CardsOnce
  <2> QED BY <2>3, <2>4, <2>5 DEF CardsOnce
<1> QED BY <1>1, <1>2

TypesAndCards == TInv /\ CardsOnce

LEMMA InitCards == Init => TypesAndCards
<1> SUFFICES ASSUME Init PROVE TypesAndCards
  OBVIOUS
<1>1. TInv
  BY InitTypes
<1>2. Len(items) = 0
  BY EmptySeq DEF Init
<1>3. CardsOnce
  BY <1>2 DEF Init, CardsOnce
<1> QED BY <1>1, <1>3 DEF TypesAndCards

LEMMA StepCards == TypesAndCards /\ [Next]_vars => TypesAndCards'
<1> SUFFICES ASSUME TInv, CardsOnce, [Next]_vars PROVE TInv' /\ CardsOnce'
  BY DEF TypesAndCards
<1>1. ASSUME NEW t \in Turns, StartTurn(t) PROVE TInv' /\ CardsOnce'
  <2>1. PICK x \in Item : x.kind = "user" /\ Puts(items, x, Len(items) + 1, items')
    BY <1>1, UserIsPut
  <2>2. \A n : CardsIn(items', n) = CardsIn(items, n)
    BY <2>1, PutsCards
  <2>3. CardsOnce'
    BY <1>1, <2>2, CardsStay DEF StartTurn, CardsOnce
  <2> QED BY <1>1, <2>3, StartTurnTypes
<1>2. ASSUME AgentBegins \/ StartReturns \/ TurnEnds \/ Interrupt \/ InterruptReturns
             \/ AgentAborted
      PROVE  TInv' /\ CardsOnce'
  <2>1. TInv'
    BY <1>2, ControlTypes, StartReturnsTypes
  <2>2. items' = items /\ asked' = asked
    BY <1>2 DEF AgentBegins, StartReturns, TurnEnds, Interrupt, InterruptReturns,
                AgentAborted, said
  <2>3. pending' \subseteq pending /\ waiting' \subseteq pending'
    <3>1. CASE AgentAborted
      BY <3>1 DEF AgentAborted, Kept, CardsOnce
    <3>2. CASE ~AgentAborted
      BY <1>2, <3>2 DEF AgentBegins, StartReturns, TurnEnds, Interrupt, InterruptReturns,
                        CardsOnce
    <3> QED BY <3>1, <3>2
  <2> QED BY <2>1, <2>2, <2>3, CardsStay
<1>3. ASSUME PermissionAsked PROVE TInv' /\ CardsOnce'
  BY <1>3, AskTypes, AskCards
<1>4. ASSUME NEW n \in pending, RespondToPermission(n) PROVE TInv' /\ CardsOnce'
  <2>1. \E c : Cards(n) = {c}
    BY <1>4, RespondDrops
  <2> QED BY <1>4, <2>1, AskTypes, AskCards
<1>5. ASSUME UNCHANGED vars PROVE TInv' /\ CardsOnce'
  BY <1>5 DEF vars, said, TInv, TypeOK, RunnerTypeOK, StepKnown, CardsOnce, CardsIn
<1> QED BY <1>1, <1>2, <1>3, <1>4, <1>5, SpeaksCards DEF Next

\* The session, the window and what the agent said keep their type, for any number of
\* turns, messages, pieces and requests (Timeline.TypeOK).
THEOREM TypeCorrect == Spec => []TypeOK
<1>1. TypesAndCards => TypeOK
  BY DEF TypesAndCards, TInv
<1> QED BY <1>1, InitCards, StepCards, PTL DEF Spec

\* A permission the agent waits for can be answered: respondToPermission knows its
\* request, and removePermission has one card of it to remove (Timeline.Answerable).
THEOREM AnswerableAlways == Spec => []Answerable
<1>1. ASSUME TypesAndCards PROVE Answerable
  <2>1. ASSUME NEW n \in waiting PROVE n \in pending /\ Cardinality(Cards(n)) = 1
    <3>1. n \in pending
      BY <1>1, <2>1 DEF TypesAndCards, CardsOnce
    <3>2. PICK i : CardsIn(items, n) = {i}
      BY <1>1, <3>1 DEF TypesAndCards, CardsOnce
    <3>3. Cards(n) = {i}
      BY <1>1, <3>2, Lengths DEF TypesAndCards, TInv, Cards, CardsIn
    <3> QED BY <3>1, <3>3, FS_Singleton
  <2> QED BY <2>1 DEF Answerable
<1>2. TypesAndCards => Answerable
  BY <1>1
<1> QED BY <1>2, InitCards, StepCards, PTL DEF Spec

-----------------------------------------------------------------------------
(* What is shown while a turn goes on                                      *)

\* The run under way is of the turn the agent works on, and it listens unless that
\* turn was interrupted.
RunOfTurn == run.phase # "idle" => run.turn = turn /\ outcome[turn] = None

RunListens == turn \notin stopped /\ step # "idle" => Listening

\* What is said is attributed to the turn, or to none once it was interrupted
\* (codex's turn is not known before the agent announces it).
Attributed ==
    agent # "pi" /\ step # "idle" /\ (agent = "codex" => step # "begun") =>
       active = turn \/ (active = None /\ turn \in stopped)

Unsaid == {"thinking", "thought", "text"}

\* The message that is open.
MessageOpen ==
    /\ step \in SpeakingSteps => messages[Current].turn = turn
    /\ step \in Unsaid \cup {"whole"} => ~messages[Current].tool
    /\ step \in {"thinking", "thought"} =>
          messages[Current].thought > 0 /\ messages[Current].sent = 0
    /\ step = "thought" => agent = "opencode" /\ Heard(Current)
    /\ step = "text" => messages[Current].sent > 0
    /\ step = "tool" => messages[Current].tool

Control == RunOfTurn /\ RunListens /\ Attributed /\ MessageOpen

\* A message that was said whole, or by claude as far as the tool call in it.
Spoken(m) == m # Current \/ step \notin Unsaid

\* It is on the list to stay: what comes next is no text that replaces it.
Secure(list, at, kind, content) ==
    \/ HasFixed(list, kind, content)
    \/ at \in {"idle", "whole"} /\ Has(list, kind, content)

WholeShown ==
    \A m \in 1 .. Len(messages) : messages[m].turn \notin stopped /\ Spoken(m) =>
       /\ Secure(items, step, "assistant", WholeText(m))
       /\ messages[m].thought > 0 /\ agent # "codex" =>
             Secure(items, step, "reasoning", WholeThinking(m))

\* The reasoning of the message whose text is streamed; pi sends it again.
ThoughtFixed ==
    /\ turn \notin stopped /\ step = "text" /\ agent \in {"claude", "opencode"}
    /\ messages[Current].thought > 0
    => HasFixed(items, "reasoning", WholeThinking(Current))

\* The reasoning that is streamed.
ThoughtLast ==
    turn \notin stopped =>
       /\ agent = "claude" /\ step = "thinking" =>
             thinking = WholeThinking(Current) /\ Ends(items, "reasoning", thinking)
       /\ step = "thought" => Ends(items, "reasoning", WholeThinking(Current))
       /\ agent = "opencode" /\ step = "thinking" =>
             \/ Ends(items, "reasoning", thinking)
             \/ \A k \in 1 .. Len(thinking) : thinking[k][1] # Current

ThinkingOld == \A k \in 1 .. Len(thinking) : thinking[k][1] \in 1 .. Len(messages)

\* The text that is streamed.
TextLast ==
    turn \notin stopped /\ step = "text" =>
       /\ agent = "codex" /\ text # <<>> =>
             Ends(items, "assistant", text) /\ answer[turn] = text
       /\ agent = "claude" =>
             /\ text = WholeText(Current)
             /\ Ends(items, "assistant", text) /\ answer[turn] = text

Streaming == WholeShown /\ ThoughtFixed /\ ThoughtLast /\ ThinkingOld /\ TextLast

\* A tool call is on the list once, and ended when the agent goes on.
ToolsShown ==
    /\ ToolsOnce(items)
    /\ \A i \in 1 .. Len(items) : items[i].kind = "tool" =>
          items[i].of \in 1 .. Len(messages) /\ messages[items[i].of].tool
    /\ \A m \in 1 .. Len(messages) : messages[m].tool =>
          \/ HasTool(items, m, {"completed", "failed"})
          \/ messages[m].turn \in stopped
          \/ m = Current /\ step = "tool"

\* What run() will return is the last message that was said.
AnswerIsLast ==
    \A t \in Turns : t \notin stopped =>
       /\ (\A m \in 1 .. Len(messages) : messages[m].turn # t) => answer[t] = <<>>
       /\ \A m \in 1 .. Len(messages) :
             /\ messages[m].turn = t /\ Spoken(m)
             /\ \A l \in 1 .. Len(messages) : messages[l].turn = t => l <= m
             => answer[t] = WholeText(m)

\* Whatever is on the list as the agent's text was said, or is the last of it and
\* still to be replaced.
NothingElse ==
    agent # "pi" =>
       \A i \in 1 .. Len(items) :
          items[i].kind = "assistant" /\ items[i].turn \in Turns \ stopped =>
             \/ \E m \in 1 .. Len(messages) :
                   /\ messages[m].turn = items[i].turn /\ Spoken(m)
                   /\ items[i].text = WholeText(m)
             \/ step = "text" /\ i = Len(items) /\ items[i].turn = turn

-----------------------------------------------------------------------------
(* The turn and its message                                                *)

LEMMA ObserveRun ==
    ASSUME RunnerTypeOK, NEW e, Observe(e), run'.phase # "idle"
    PROVE  /\ run.phase # "idle" /\ run'.turn = run.turn /\ outcome' = outcome
           /\ run'.phase = run.phase
<1>1. run'.phase # "idle" => run' # NoRun
  BY DEF NoRun
<1>2. CASE run.phase = "idle"
  BY <1>2 DEF Observe
<1>3. CASE run.phase = "starting"
  <2>1. run \in [turn : Turns, phase : {"starting", "waiting"}, buffer : Seq(Event)]
    BY <1>3 DEF RunnerTypeOK, Run, NoRun
  <2> QED BY <1>3, <2>1 DEF Observe
<1>4. CASE run.phase = "waiting"
  BY <1>1, <1>4 DEF Observe, Settle
<1> QED BY <1>2, <1>3, <1>4 DEF Observe

\* What the open message is after one more piece of its reasoning, or its text.
LEMMA ThoughtGrows ==
    ASSUME TInv, MessageOpen, ReasoningDelta
    PROVE  /\ Len(messages) \in Nat /\ Len(messages') \in 1 .. MaxMessages
           /\ Len(messages') = IF step = "open" THEN Len(messages) + 1 ELSE Len(messages)
           /\ \A m \in 1 .. Len(messages') :
                 m # Len(messages') => m \in 1 .. Len(messages) /\ messages'[m] = messages[m]
           /\ messages'[Len(messages')].turn = turn
           /\ messages'[Len(messages')].tool = FALSE
           /\ messages'[Len(messages')].sent = 0
           /\ messages'[Len(messages')].thought =
                 (IF step = "open" THEN 0 ELSE messages[Len(messages)].thought) + 1
<1>1. step \in {"open", "thinking"} /\ Grow("thought")
  BY DEF ReasoningDelta
<1>2. /\ Len(messages') \in 1 .. MaxMessages
      /\ Len(messages') = IF step = "open" THEN Len(messages) + 1 ELSE Len(messages)
      /\ \A m \in 1 .. Len(messages') :
            m # Len(messages') => m \in 1 .. Len(messages) /\ messages'[m] = messages[m]
      /\ messages'[Len(messages')] =
            [(IF step = "open" THEN Blank ELSE messages[Len(messages)]) EXCEPT !.thought = @ + 1]
  BY <1>1, GrowEffect DEF SpeakingSteps
<1>3. Len(messages) \in Nat
  BY Lengths, Bounds DEF TInv
<1>4. CASE step = "open"
  BY <1>2, <1>3, <1>4 DEF Blank
<1>5. CASE step = "thinking"
  <2>1. messages[Len(messages)] \in Message
    BY <1>5, Lengths DEF TInv, StepKnown, SpeakingSteps
  <2>2. /\ messages[Len(messages)].turn = turn /\ ~messages[Len(messages)].tool
        /\ messages[Len(messages)].sent = 0
    BY <1>5 DEF MessageOpen, SpeakingSteps, Unsaid, Current
  <2> QED BY <1>2, <1>3, <1>5, <2>1, <2>2 DEF Message
<1> QED BY <1>1, <1>4, <1>5

LEMMA TextGrows ==
    ASSUME TInv, MessageOpen, TextDelta
    PROVE  /\ Len(messages) \in Nat /\ Len(messages') \in 1 .. MaxMessages
           /\ Len(messages') = IF step = "open" THEN Len(messages) + 1 ELSE Len(messages)
           /\ \A m \in 1 .. Len(messages') :
                 m # Len(messages') => m \in 1 .. Len(messages) /\ messages'[m] = messages[m]
           /\ messages'[Len(messages')].turn = turn
           /\ messages'[Len(messages')].tool = FALSE
           /\ messages'[Len(messages')].sent =
                 (IF step = "open" THEN 0 ELSE messages[Len(messages)].sent) + 1
           /\ messages'[Len(messages')].thought =
                 IF step = "open" THEN 0 ELSE messages[Len(messages)].thought
<1>1. step \in {"open"} \cup Unsaid /\ Grow("sent")
  BY DEF TextDelta, Unsaid
<1>2. /\ Len(messages') \in 1 .. MaxMessages
      /\ Len(messages') = IF step = "open" THEN Len(messages) + 1 ELSE Len(messages)
      /\ \A m \in 1 .. Len(messages') :
            m # Len(messages') => m \in 1 .. Len(messages) /\ messages'[m] = messages[m]
      /\ messages'[Len(messages')] =
            [(IF step = "open" THEN Blank ELSE messages[Len(messages)]) EXCEPT !.sent = @ + 1]
  BY <1>1, GrowEffect DEF SpeakingSteps, Unsaid
<1>3. Len(messages) \in Nat
  BY Lengths, Bounds DEF TInv
<1>4. CASE step = "open"
  BY <1>2, <1>3, <1>4 DEF Blank
<1>5. CASE step \in Unsaid
  <2>1. messages[Len(messages)] \in Message
    BY <1>5, Lengths DEF TInv, StepKnown, SpeakingSteps, Unsaid
  <2>2. messages[Len(messages)].turn = turn /\ ~messages[Len(messages)].tool
    BY <1>5 DEF MessageOpen, SpeakingSteps, Unsaid, Current
  <2>3. step # "open"
    BY <1>5 DEF Unsaid
  <2> QED BY <1>2, <1>3, <2>1, <2>2, <2>3 DEF Message
<1> QED BY <1>1, <1>4, <1>5

\* A message that is marked stays as it was said.
LEMMA MarkedSame ==
    ASSUME TInv, MessageEnds \/ ToolStarts \/ ToolEnds
    PROVE  /\ Len(messages) \in 1 .. MaxMessages /\ Len(messages') = Len(messages)
           /\ Current = Len(messages) /\ step \in SpeakingSteps
           /\ \A m \in 1 .. Len(messages) :
                 /\ messages'[m].turn = messages[m].turn
                 /\ messages'[m].thought = messages[m].thought
                 /\ messages'[m].sent = messages[m].sent
                 /\ messages'[m].tool = (messages[m].tool \/ (ToolStarts /\ m = Current))
<1>1. \A m \in 1 .. Len(messages) : messages[m] \in Message
  BY Lengths DEF TInv
<1>2. CASE MessageEnds
  <2>1. ~ToolStarts
    BY <1>2 DEF MessageEnds, ToolStarts
  <2>2. step \in SpeakingSteps
    BY <1>2 DEF MessageEnds, SpeakingSteps
  <2>3. /\ Len(messages) \in 1 .. MaxMessages /\ Current = Len(messages)
        /\ Len(messages') = Len(messages)
        /\ \A m \in 1 .. Len(messages) :
              messages'[m] = IF m = Current THEN [messages[m] EXCEPT !.ended = TRUE]
                             ELSE messages[m]
    BY <1>2, MessageEndsEffect
  <2> QED BY <1>1, <2>1, <2>2, <2>3 DEF Message
<1>3. CASE ToolStarts
  <2>1. step \in SpeakingSteps
    BY <1>3 DEF ToolStarts, SpeakingSteps
  <2>2. /\ Len(messages) \in 1 .. MaxMessages /\ Current = Len(messages)
        /\ Len(messages') = Len(messages)
        /\ \A m \in 1 .. Len(messages) :
              messages'[m] = IF m = Current THEN [messages[m] EXCEPT !.tool = TRUE]
                             ELSE messages[m]
    BY <1>3, ToolStartsEffect
  <2> QED BY <1>1, <1>3, <2>1, <2>2 DEF Message
<1>4. CASE ToolEnds
  <2>1. ~ToolStarts
    BY <1>4 DEF ToolEnds, ToolStarts
  <2>2. step \in SpeakingSteps
    BY <1>4 DEF ToolEnds, SpeakingSteps
  <2>3. /\ Len(messages) \in 1 .. MaxMessages /\ Current = Len(messages)
        /\ Len(messages') = Len(messages)
        /\ \A m \in 1 .. Len(messages) :
              messages'[m] = IF m = Current THEN [messages[m] EXCEPT !.ended = TRUE]
                             ELSE messages[m]
    BY <1>4, ToolEndsEffect
  <2> QED BY <1>1, <2>1, <2>2, <2>3 DEF Message
<1> QED BY <1>2, <1>3, <1>4

LEMMA ControlInit == Init => Control
BY DEF Init, RunnerInit, NoRun, Control, RunOfTurn, RunListens, Attributed, MessageOpen,
       SpeakingSteps, Unsaid

\* The run goes on, or is settled; the turn is the same.
LEMMA ControlOfRun ==
    ASSUME TInv, Control, turn' = turn, stopped \subseteq stopped',
           (run' = run /\ outcome' = outcome) \/ StartTurnReturns \/ \E type : Terminal(type)
    PROVE  RunOfTurn'
<1>1. CASE run' = run /\ outcome' = outcome
  BY <1>1 DEF Control, RunOfTurn
<1>2. CASE StartTurnReturns
  <2>1. run \in [turn : Turns, phase : {"starting", "waiting"}, buffer : Seq(Event)]
    BY <1>2 DEF StartTurnReturns, TInv, TypeOK, RunnerTypeOK, Run, NoRun
  <2>2. CASE run.buffer = <<>>
    BY <1>2, <2>1, <2>2 DEF StartTurnReturns, Control, RunOfTurn
  <2>3. CASE run.buffer # <<>>
    BY <1>2, <2>3 DEF StartTurnReturns, Settle, NoRun, RunOfTurn
  <2> QED BY <2>2, <2>3
<1>3. CASE \E type : Terminal(type)
  <2>1. PICK e : Observe(e)
    BY <1>3 DEF Terminal
  <2>2. run'.phase # "idle" => /\ run.phase # "idle" /\ run'.turn = run.turn
                               /\ outcome' = outcome
    BY <2>1, ObserveRun DEF TInv, TypeOK
  <2> QED BY <2>2 DEF Control, RunOfTurn
<1> QED BY <1>1, <1>2, <1>3

LEMMA ControlStarts ==
    ASSUME TInv, Control, NEW t \in Turns, StartTurn(t)
    PROVE  Control'
<1>1. RunOfTurn' /\ RunListens'
  BY DEF StartTurn, StartRun, IsNext, RunOfTurn, RunListens, Listening
<1>2. Attributed'
  BY TimelineAssumption DEF StartTurn, Attributed, TInv, TypeOK
<1>3. MessageOpen'
  BY DEF StartTurn, MessageOpen, SpeakingSteps, Unsaid
<1> QED BY <1>1, <1>2, <1>3 DEF Control

LEMMA ControlQuiet ==
    ASSUME TInv, Control,
           \/ AgentBegins \/ StartReturns \/ MessageUpdated \/ TurnEnds \/ Interrupt
           \/ InterruptReturns \/ AgentAborted
    PROVE  Control'
<1> USE DEF Control
<1>1. CASE AgentBegins
  <2>1. RunOfTurn' /\ RunListens'
    BY <1>1 DEF AgentBegins, RunOfTurn, RunListens, Listening
  <2>2. Attributed'
    BY <1>1 DEF AgentBegins, Attributed
  <2>3. MessageOpen'
    BY <1>1 DEF AgentBegins, MessageOpen, SpeakingSteps, Unsaid
  <2> QED BY <2>1, <2>2, <2>3
<1>2. CASE StartReturns
  <2>1. RunOfTurn'
    BY <1>2, ControlOfRun DEF StartReturns
  <2>2. RunListens'
    <3>1. SUFFICES ASSUME turn' \notin stopped', step' # "idle" PROVE Listening'
      BY DEF RunListens
    <3>2. run.buffer = <<>>
      BY <1>2, <3>1 DEF StartReturns, RunListens, Listening
    <3>3. run \in [turn : Turns, phase : {"starting", "waiting"}, buffer : Seq(Event)]
      BY <1>2 DEF StartReturns, StartTurnReturns, TInv, TypeOK, RunnerTypeOK, Run, NoRun
    <3> QED BY <1>2, <3>2, <3>3 DEF StartReturns, StartTurnReturns, Listening
  <2>3. Attributed'
    <3>1. agent' = agent /\ turn' = turn /\ step' = step /\ stopped' = stopped
      BY <1>2 DEF StartReturns
    <3>2. CASE agent = "pi"
      BY <3>1, <3>2 DEF Attributed
    <3>3. CASE agent # "pi" /\ ~(agent = "codex" /\ active = None)
      BY <1>2, <3>1, <3>3 DEF StartReturns, Attributed
    <3>4. CASE agent = "codex" /\ active = None
      BY <1>2, <3>1, <3>4 DEF StartReturns, Attributed
    <3> QED BY <3>2, <3>3, <3>4
  <2>4. MessageOpen'
    BY <1>2 DEF StartReturns, MessageOpen, Heard, Current
  <2> QED BY <2>1, <2>2, <2>3, <2>4
<1>3. CASE MessageUpdated
  <2>1. RunOfTurn' /\ RunListens'
    BY <1>3 DEF MessageUpdated, RunOfTurn, RunListens, Listening
  <2>2. Attributed'
    BY <1>3 DEF MessageUpdated, Attributed
  <2>3. MessageOpen'
    BY <1>3 DEF MessageUpdated, MessageOpen, Heard, Current
  <2> QED BY <2>1, <2>2, <2>3
<1>4. CASE TurnEnds
  <2>1. RunOfTurn'
    BY <1>4, ControlOfRun DEF TurnEnds
  <2>2. RunListens' /\ Attributed' /\ MessageOpen'
    BY <1>4 DEF TurnEnds, RunListens, Attributed, MessageOpen, SpeakingSteps, Unsaid
  <2> QED BY <2>1, <2>2
<1>5. CASE Interrupt
  <2>1. turn' = turn /\ turn \in stopped' /\ stopped \subseteq stopped'
    BY <1>5 DEF Interrupt
  <2>2. RunOfTurn' /\ RunListens'
    BY <1>5, <2>1 DEF Interrupt, RunOfTurn, RunListens
  <2>3. Attributed'
    BY <1>5, <2>1 DEF Interrupt, Attributed
  <2>4. MessageOpen'
    BY <1>5 DEF Interrupt, MessageOpen, Heard, Current
  <2> QED BY <2>2, <2>3, <2>4
<1>6. CASE InterruptReturns
  <2>1. turn' = turn /\ turn \in stopped /\ stopped' = stopped
    BY <1>6 DEF InterruptReturns, TInv, StepKnown
  <2>2. RunOfTurn'
    BY <1>6, <2>1, ControlOfRun DEF InterruptReturns
  <2>3. RunListens'
    BY <2>1 DEF RunListens
  <2>4. Attributed'
    BY <1>6 DEF InterruptReturns, Attributed
  <2>5. MessageOpen'
    BY <1>6 DEF InterruptReturns, MessageOpen, Heard, Current
  <2> QED BY <2>2, <2>3, <2>4, <2>5
<1>7. CASE AgentAborted
  <2>1. RunOfTurn'
    BY <1>7, ControlOfRun DEF AgentAborted
  <2>2. RunListens' /\ Attributed' /\ MessageOpen'
    BY <1>7 DEF AgentAborted, RunListens, Attributed, MessageOpen, SpeakingSteps, Unsaid
  <2> QED BY <2>1, <2>2
<1> QED BY <1>1, <1>2, <1>3, <1>4, <1>5, <1>6, <1>7

\* While the agent speaks, and while it asks.
LEMMA ControlSpeaks ==
    ASSUME TInv, Control,
           \/ ReasoningDelta \/ ReasoningEnds \/ TextDelta \/ MessageEnds \/ ToolStarts
           \/ ToolEnds \/ PermissionAsked \/ \E n \in pending : RespondToPermission(n)
    PROVE  Control'
<1> USE DEF Control
<1>1. /\ run' = run /\ outcome' = outcome /\ agent' = agent /\ active' = active
      /\ roles' = roles /\ turn' = turn /\ stopped' = stopped
  BY DEF ReasoningDelta, ReasoningEnds, TextDelta, MessageEnds, ToolStarts, ToolEnds, Streamed,
         PermissionAsked, RespondToPermission
<1>2. step \notin {"idle", "begun"} \/ step' = step
  BY DEF ReasoningDelta, ReasoningEnds, TextDelta, MessageEnds, ToolStarts, ToolEnds,
         PermissionAsked, RespondToPermission
<1>3. RunOfTurn' /\ RunListens'
  BY <1>1, <1>2 DEF RunOfTurn, RunListens, Listening
<1>4. Attributed'
  BY <1>1, <1>2 DEF Attributed
<1>5. MessageOpen'
  <2>1. CASE ReasoningDelta
    <3>1. /\ messages'[Len(messages')].turn = turn
          /\ messages'[Len(messages')].tool = FALSE
          /\ messages'[Len(messages')].sent = 0
          /\ messages'[Len(messages')].thought > 0
      <4>1. /\ messages'[Len(messages')].thought =
                 (IF step = "open" THEN 0 ELSE messages[Len(messages)].thought) + 1
            /\ messages'[Len(messages')].turn = turn
            /\ messages'[Len(messages')].tool = FALSE
            /\ messages'[Len(messages')].sent = 0
        BY <2>1, ThoughtGrows
      <4>2. step = "thinking" => messages[Len(messages)].thought \in Nat
        BY Lengths, Bounds DEF TInv, StepKnown, SpeakingSteps, Message
      <4>3. step \in {"open", "thinking"}
        BY <2>1 DEF ReasoningDelta
      <4> QED BY <4>1, <4>2, <4>3
    <3>2. step' = "thinking"
      BY <2>1 DEF ReasoningDelta
    <3> QED BY <1>1, <3>1, <3>2 DEF MessageOpen, Current
  <2>2. CASE TextDelta
    <3>1. /\ messages'[Len(messages')].turn = turn
          /\ messages'[Len(messages')].tool = FALSE
          /\ messages'[Len(messages')].sent > 0
      <4>1. /\ messages'[Len(messages')].sent =
                 (IF step = "open" THEN 0 ELSE messages[Len(messages)].sent) + 1
            /\ messages'[Len(messages')].turn = turn
            /\ messages'[Len(messages')].tool = FALSE
        BY <2>2, TextGrows
      <4>2. step \in Unsaid => messages[Len(messages)].sent \in Nat
        BY Lengths, Bounds DEF TInv, StepKnown, SpeakingSteps, Unsaid, Message
      <4>3. step \in {"open"} \cup Unsaid
        BY <2>2 DEF TextDelta, Unsaid
      <4> QED BY <4>1, <4>2, <4>3
    <3>2. step' = "text"
      BY <2>2 DEF TextDelta
    <3> QED BY <1>1, <3>1, <3>2 DEF MessageOpen, Current
  <2>3. CASE ReasoningEnds
    <3>1. messages' = messages /\ step = "thinking" /\ step' = "thought"
      BY <2>3 DEF ReasoningEnds
    <3>2. agent = "opencode" /\ Heard(Current)
      BY <2>3 DEF ReasoningEnds
    <3> QED BY <1>1, <3>1, <3>2 DEF MessageOpen, Current, Heard, SpeakingSteps, Unsaid
  <2>4. CASE MessageEnds \/ ToolStarts \/ ToolEnds
    <3>1. /\ Len(messages') = Len(messages) /\ Current = Len(messages)
          /\ messages'[Len(messages)].turn = messages[Len(messages)].turn
          /\ messages'[Len(messages)].tool = (messages[Len(messages)].tool \/ ToolStarts)
          /\ step \in SpeakingSteps
      BY <2>4, MarkedSame
    <3>2. messages[Current].turn = turn
      BY <3>1 DEF MessageOpen
    <3>3. \/ step' = "whole" /\ step = "text" /\ ~ToolStarts
          \/ step' = "tool" /\ ToolStarts
          \/ step' = "open"
      BY <2>4 DEF MessageEnds, ToolStarts, ToolEnds
    <3>4. step' = "tool" => messages'[Len(messages)].tool
      BY <3>1, <3>3
    <3> QED BY <1>1, <3>1, <3>2, <3>3, <3>4 DEF MessageOpen, Current, SpeakingSteps, Unsaid
  <2>5. CASE PermissionAsked \/ \E n \in pending : RespondToPermission(n)
    <3>1. messages' = messages /\ step' = step
      BY <2>5 DEF PermissionAsked, RespondToPermission
    <3> QED BY <1>1, <3>1 DEF MessageOpen, Current, Heard
  <2> QED BY <2>1, <2>2, <2>3, <2>4, <2>5
<1> QED BY <1>3, <1>4, <1>5

-----------------------------------------------------------------------------
(* A step that says nothing                                                *)

\* What one list keeps of another.
Keeps(list, new) ==
    \A kind \in Words : \A content :
       HasFixed(list, kind, content) => HasFixed(new, kind, content)

Carries(list, new) ==
    \A kind \in Words : \A content : Has(list, kind, content) => Has(new, kind, content)

Fixes(list, new) ==
    \A kind \in Words : \A content : Has(list, kind, content) => HasFixed(new, kind, content)

\* Message m is what it was.
Same(m) ==
    /\ m \in 1 .. Len(messages)
    /\ messages'[m].turn = messages[m].turn
    /\ messages'[m].thought = messages[m].thought
    /\ messages'[m].sent = messages[m].sent

LEMMA WholesStay ==
    ASSUME WholeShown, agent' = agent, stopped \subseteq stopped',
           Keeps(items, items'),
           step \in {"idle", "whole"} =>
              \/ Fixes(items, items')
              \/ Carries(items, items') /\ step' \in {"idle", "whole"},
           \A m \in 1 .. Len(messages') : messages'[m].turn \notin stopped' /\ Spoken(m)' =>
              \/ Same(m) /\ Spoken(m)
              \/ /\ Secure(items', step', "assistant", WholeText(m)')
                 /\ messages'[m].thought > 0 /\ agent # "codex" =>
                       Secure(items', step', "reasoning", WholeThinking(m)')
    PROVE  WholeShown'
<1>1. \A kind \in Words : \A content :
         Secure(items, step, kind, content) => Secure(items', step', kind, content)
  BY DEF Secure, Keeps, Carries, Fixes
<1>2. SUFFICES ASSUME NEW m \in 1 .. Len(messages'), messages'[m].turn \notin stopped',
                      Spoken(m)', Same(m) /\ Spoken(m)
               PROVE  /\ Secure(items', step', "assistant", WholeText(m)')
                      /\ messages'[m].thought > 0 /\ agent # "codex" =>
                            Secure(items', step', "reasoning", WholeThinking(m)')
  BY DEF WholeShown
<1>3. PICK w : w = WholeText(m) /\ w = WholeText(m)'
  BY <1>2 DEF WholeText, Same
<1>4. PICK v : v = WholeThinking(m) /\ v = WholeThinking(m)'
  BY <1>2 DEF WholeThinking, Same
<1>5. m \in 1 .. Len(messages) /\ messages[m].turn \notin stopped
  BY <1>2 DEF Same
<1>6. Secure(items, step, "assistant", w)
  BY <1>2, <1>3, <1>5 DEF WholeShown
<1>7. messages[m].thought > 0 /\ agent # "codex" => Secure(items, step, "reasoning", v)
  BY <1>2, <1>4, <1>5 DEF WholeShown
<1>8. Secure(items', step', "assistant", w)
  BY <1>1, <1>6 DEF Words
<1>9. messages'[m].thought > 0 /\ agent # "codex" => Secure(items', step', "reasoning", v)
  BY <1>1, <1>2, <1>7 DEF Words, Same
<1> QED BY <1>3, <1>4, <1>8, <1>9

\* The session and the agent go on, and the list stays.
Quiet ==
    /\ UNCHANGED <<items, messages, answer, agent, turn>>
    /\ stopped \subseteq stopped' /\ roles \subseteq roles'
    /\ \/ step' = step
       \/ step = "begun" /\ step' = "open"
       \/ step \in {"open", "whole"} /\ step' = "idle"
       \/ step # "idle" /\ turn \in stopped /\ step' = "idle"
    /\ thinking' = thinking \/ (thinking' = <<>> /\ agent = "pi")
    /\ text' = text \/ (text' = <<>> /\ agent \in {"codex", "pi"})

LEMMA QuietSteps ==
    ASSUME \/ AgentBegins \/ StartReturns \/ MessageUpdated \/ TurnEnds \/ Interrupt
           \/ InterruptReturns \/ AgentAborted
    PROVE  Quiet
<1>1. CASE AgentBegins
  BY <1>1 DEF AgentBegins, said, Quiet
<1>2. CASE StartReturns
  BY <1>2 DEF StartReturns, Quiet
<1>3. CASE MessageUpdated
  BY <1>3 DEF MessageUpdated, said, Quiet
<1>4. CASE TurnEnds
  BY <1>4 DEF TurnEnds, said, Quiet
<1>5. CASE Interrupt
  BY <1>5 DEF Interrupt, said, Quiet
<1>6. CASE InterruptReturns
  BY <1>6 DEF InterruptReturns, said, Quiet
<1>7. CASE AgentAborted
  BY <1>7 DEF AgentAborted, said, Quiet
<1> QED BY <1>1, <1>2, <1>3, <1>4, <1>5, <1>6, <1>7

\* A message that is said when the step ends was said before, unless its turn was
\* interrupted.
LEMMA QuietSpoken ==
    ASSUME TInv, MessageOpen, Quiet
    PROVE  /\ Current' = Current
           /\ \A m \in 1 .. Len(messages) :
                 Spoken(m)' => Spoken(m) \/ (messages[m].turn = turn /\ turn \in stopped)
           /\ step' = step \/ step' \notin Unsaid \cup {"tool"}
           /\ step = "tool" => step' = "tool" \/ turn \in stopped
BY DEF Quiet, MessageOpen, Current, Spoken, Unsaid, SpeakingSteps

LEMMA StreamingQuiet ==
    ASSUME TInv, Control, Streaming, Quiet
    PROVE  Streaming'
<1>1. /\ items' = items /\ messages' = messages /\ answer' = answer /\ agent' = agent
      /\ turn' = turn /\ stopped \subseteq stopped' /\ roles \subseteq roles'
      /\ Current' = Current
      /\ \A m \in 1 .. Len(messages) :
            Spoken(m)' => Spoken(m) \/ (messages[m].turn = turn /\ turn \in stopped)
      /\ step' = step \/ step' \notin Unsaid \cup {"tool"}
  BY QuietSpoken DEF Quiet, Control
<1>2. \A m : WholeText(m)' = WholeText(m) /\ WholeThinking(m)' = WholeThinking(m)
  BY <1>1 DEF WholeText, WholeThinking
<1>3. WholeShown'
  <2>1. Keeps(items, items') /\ Carries(items, items')
    BY <1>1 DEF Keeps, Carries
  <2>2. step \in {"idle", "whole"} => step' \in {"idle", "whole"}
    BY DEF Quiet
  <2>3. ASSUME NEW m \in 1 .. Len(messages'), messages'[m].turn \notin stopped', Spoken(m)'
        PROVE  Same(m) /\ Spoken(m)
    BY <1>1, <2>3 DEF Same
  <2> QED BY <1>1, <2>1, <2>2, <2>3, WholesStay DEF Streaming
<1>4. ThoughtFixed'
  BY <1>1, <1>2 DEF Streaming, ThoughtFixed, Unsaid
<1>5. ThoughtLast'
  <2>1. SUFFICES ASSUME turn \notin stopped', step' = step, step \in Unsaid
                 PROVE  ThoughtLast'
    BY <1>1 DEF ThoughtLast, Unsaid
  <2>2. agent # "pi" => thinking' = thinking
    BY DEF Quiet
  <2> QED BY <1>1, <1>2, <2>1, <2>2 DEF Streaming, ThoughtLast, Unsaid
<1>6. ThinkingOld'
  <2>1. thinking' = thinking \/ thinking' = <<>>
    BY DEF Quiet
  <2> QED BY <1>1, <2>1 DEF Streaming, ThinkingOld
<1>7. TextLast'
  <2>1. SUFFICES ASSUME turn \notin stopped', step' = step, step = "text"
                 PROVE  TextLast'
    BY <1>1 DEF TextLast, Unsaid
  <2>2. agent = "claude" => text' = text
    BY DEF Quiet
  <2>3. agent = "codex" => text' = text \/ text' = <<>>
    BY DEF Quiet
  <2>4. turn \notin stopped
    BY <1>1, <2>1
  <2>5. agent = "claude" => /\ text = WholeText(Current)
                            /\ Ends(items, "assistant", text) /\ answer[turn] = text
    BY <2>1, <2>4 DEF Streaming, TextLast
  <2>6. agent = "codex" /\ text # <<>> => Ends(items, "assistant", text) /\ answer[turn] = text
    BY <2>1, <2>4 DEF Streaming, TextLast
  <2>7. WholeText(Current)' = WholeText(Current)
    BY <1>1 DEF WholeText, Current
  <2>8. agent = "claude" => /\ text' = WholeText(Current)'
                            /\ Ends(items', "assistant", text') /\ answer'[turn'] = text'
    BY <1>1, <2>2, <2>5, <2>7
  <2>9. agent = "codex" /\ text' # <<>> =>
           Ends(items', "assistant", text') /\ answer'[turn'] = text'
    BY <1>1, <2>3, <2>6
  <2> QED BY <1>1, <2>8, <2>9 DEF TextLast
<1> QED BY <1>3, <1>4, <1>5, <1>6, <1>7 DEF Streaming

\* What is asked of the tools, of what is returned and of the rest.
Settled == ToolsShown /\ AnswerIsLast /\ NothingElse

LEMMA SettledQuiet ==
    ASSUME TInv, Control, Settled, Quiet
    PROVE  Settled'
<1>1. /\ items' = items /\ messages' = messages /\ answer' = answer /\ agent' = agent
      /\ turn' = turn /\ stopped \subseteq stopped'
      /\ Current' = Current
      /\ \A m \in 1 .. Len(messages) :
            Spoken(m)' => Spoken(m) \/ (messages[m].turn = turn /\ turn \in stopped)
      /\ step' = step \/ step' \notin Unsaid \cup {"tool"}
      /\ step = "tool" => step' = "tool" \/ turn \in stopped
  BY QuietSpoken DEF Quiet, Control
<1>2. \A m : WholeText(m)' = WholeText(m)
  BY <1>1 DEF WholeText
<1>3. ToolsShown'
  <2>1. ASSUME NEW m \in 1 .. Len(messages), messages[m].tool
        PROVE  \/ HasTool(items, m, {"completed", "failed"})
               \/ messages[m].turn \in stopped'
               \/ m = Current' /\ step' = "tool"
    <3>1. m = Current /\ step = "tool" => messages[m].turn = turn
      BY DEF Control, MessageOpen, SpeakingSteps
    <3> QED BY <1>1, <2>1, <3>1 DEF Settled, ToolsShown
  <2> QED BY <1>1, <2>1 DEF Settled, ToolsShown
<1>4. AnswerIsLast'
  <2>1. ASSUME NEW t \in Turns, t \notin stopped', NEW m \in 1 .. Len(messages),
               messages[m].turn = t, Spoken(m)',
               \A l \in 1 .. Len(messages) : messages[l].turn = t => l <= m
        PROVE  answer[t] = WholeText(m)
    BY <1>1, <2>1 DEF Settled, AnswerIsLast
  <2> QED BY <1>1, <1>2, <2>1 DEF Settled, AnswerIsLast
<1>5. NothingElse'
  <2>1. \A m \in 1 .. Len(messages) : Spoken(m) => Spoken(m)'
    BY <1>1 DEF Spoken, Unsaid
  <2>2. ASSUME agent # "pi", NEW i \in 1 .. Len(items), items[i].kind = "assistant",
               items[i].turn \in Turns \ stopped'
        PROVE  \/ \E m \in 1 .. Len(messages) :
                     /\ messages[m].turn = items[i].turn /\ Spoken(m)
                     /\ items[i].text = WholeText(m)
               \/ step' = "text" /\ i = Len(items) /\ items[i].turn = turn
    <3>1. step = "text" => step' = "text" \/ turn \in stopped
      BY DEF Quiet
    <3> QED BY <1>1, <2>2, <3>1 DEF Settled, NothingElse
  <2> QED BY <1>1, <1>2, <2>1, <2>2 DEF NothingElse
<1> QED BY <1>3, <1>4, <1>5 DEF Settled

-----------------------------------------------------------------------------
(* A step that brings a message of the user or a card, or removes a card   *)

Shuffled ==
    /\ UNCHANGED <<messages, answer, agent, stopped, roles>>
    /\ Keeps(items, items')
    /\ ToolsOnce(items) => ToolsOnce(items')
    /\ \A m, statuses : HasTool(items, m, statuses) => HasTool(items', m, statuses)
    /\ \A i \in 1 .. Len(items') : items'[i].kind \in {"assistant", "tool"} =>
          \E j \in 1 .. Len(items) :
             items'[i] = items[j] /\ (step = "text" /\ j = Len(items) => i = Len(items'))
    /\ \/ /\ step = "idle" /\ step' = "begun"
          /\ Fixes(items, items')
          /\ thinking' = thinking \/ thinking' = <<>>
       \/ /\ step' = step /\ turn' = turn
          /\ step \in {"idle", "whole"} => Carries(items, items')
          /\ UNCHANGED <<text, thinking>>
          /\ step # "tool" => \A kind \in Words : \A content :
                Ends(items, kind, content) => Ends(items', kind, content)

LEMMA UserShuffles ==
    ASSUME TInv, NEW t \in Turns, StartTurn(t)
    PROVE  Shuffled
<1>1. PICK x \in Item : x.kind = "user" /\ Puts(items, x, Len(items) + 1, items')
  BY UserIsPut
<1>2. Keeps(items, items') /\ Fixes(items, items')
  BY <1>1, PutsKeeps, PutsFixes DEF Keeps, Fixes
<1>3. /\ ToolsOnce(items) => ToolsOnce(items')
      /\ \A m, statuses : HasTool(items, m, statuses) => HasTool(items', m, statuses)
  BY <1>1, PutsTools
<1>4. \A i \in 1 .. Len(items') : items'[i].kind \in {"assistant", "tool"} =>
         \E j \in 1 .. Len(items) : items'[i] = items[j]
  BY <1>1, PutsItems
<1> QED BY <1>2, <1>3, <1>4 DEF StartTurn, Shuffled

LEMMA CardShuffles ==
    ASSUME TInv, PermissionAsked
    PROVE  Shuffled
<1>1. PICK x \in Item : x.kind = "card" /\ Puts(items, x, Len(items) + 1, items')
  BY CardIsPut DEF NewItem
<1>2. Keeps(items, items')
  BY <1>1, PutsKeeps DEF Keeps
<1>3. /\ ToolsOnce(items) => ToolsOnce(items')
      /\ \A m, statuses : HasTool(items, m, statuses) => HasTool(items', m, statuses)
  BY <1>1, PutsTools
<1>4. \A i \in 1 .. Len(items') : items'[i].kind \in {"assistant", "tool"} =>
         \E j \in 1 .. Len(items) : items'[i] = items[j]
  BY <1>1, PutsItems
<1> QED BY <1>2, <1>3, <1>4 DEF PermissionAsked, Shuffled

LEMMA AnswerShuffles ==
    ASSUME TInv, CardsOnce, NEW n \in pending, RespondToPermission(n)
    PROVE  Shuffled
<1>1. PICK c : items[c].kind = "card" /\ Drops(items, c, items')
  BY RespondDrops
<1>2. /\ Keeps(items, items') /\ Carries(items, items')
      /\ \A kind \in Words : \A content :
            Ends(items, kind, content) => Ends(items', kind, content)
      /\ ToolsOnce(items) => ToolsOnce(items')
      /\ \A m, statuses : HasTool(items, m, statuses) => HasTool(items', m, statuses)
  BY <1>1, DropsKeeps DEF Keeps, Carries
<1>3. ASSUME NEW i \in 1 .. Len(items'), items'[i].kind \in {"assistant", "tool"}
      PROVE  \E j \in 1 .. Len(items) :
                items'[i] = items[j] /\ (step = "text" /\ j = Len(items) => i = Len(items'))
  <2>1. PICK j \in 1 .. Len(items) \ {c} : i = Moved(c, j) /\ items'[i] = items[j]
    BY <1>1, DropsMoves
  <2>2. j = Len(items) => i = Len(items')
    BY <1>1, <2>1 DEF Moved, Drops
  <2> QED BY <2>1, <2>2
<1> QED BY <1>2, <1>3 DEF RespondToPermission, Shuffled

LEMMA StreamingShuffled ==
    ASSUME TInv, Streaming, Shuffled
    PROVE  Streaming'
<1>1. /\ messages' = messages /\ answer' = answer /\ agent' = agent /\ stopped' = stopped
      /\ Keeps(items, items') /\ Current' = Current
  BY DEF Shuffled, Current
<1>2. \A m : WholeText(m)' = WholeText(m) /\ WholeThinking(m)' = WholeThinking(m)
  BY <1>1 DEF WholeText, WholeThinking
<1>3. \/ step \notin Unsaid /\ step' \notin Unsaid
      \/ /\ step \in Unsaid /\ step' = step /\ turn' = turn /\ UNCHANGED <<text, thinking>>
         /\ \A kind \in Words : \A content :
               Ends(items, kind, content) => Ends(items', kind, content)
  BY DEF Shuffled, Unsaid
<1>4. WholeShown'
  <2>1. step \in {"idle", "whole"} =>
           \/ Fixes(items, items')
           \/ Carries(items, items') /\ step' \in {"idle", "whole"}
    BY DEF Shuffled
  <2>2. ASSUME NEW m \in 1 .. Len(messages'), Spoken(m)' PROVE Same(m) /\ Spoken(m)
    BY <1>1, <1>3, <2>2 DEF Same, Spoken
  <2> QED BY <1>1, <2>1, <2>2, WholesStay DEF Streaming
<1>5. CASE step \notin Unsaid /\ step' \notin Unsaid
  <2>1. ThoughtFixed' /\ ThoughtLast' /\ TextLast'
    BY <1>5 DEF ThoughtFixed, ThoughtLast, TextLast, Unsaid
  <2>2. ThinkingOld'
    <3>1. thinking' = thinking \/ thinking' = <<>>
      BY DEF Shuffled
    <3> QED BY <1>1, <3>1 DEF Streaming, ThinkingOld
  <2> QED BY <1>4, <2>1, <2>2 DEF Streaming
<1>6. CASE /\ step \in Unsaid /\ step' = step /\ turn' = turn /\ UNCHANGED <<text, thinking>>
           /\ \A kind \in Words : \A content :
                 Ends(items, kind, content) => Ends(items', kind, content)
  <2>1. PICK w : w = WholeText(Current) /\ w = WholeText(Current)'
    BY <1>1 DEF WholeText, Current
  <2>2. PICK v : v = WholeThinking(Current) /\ v = WholeThinking(Current)'
    BY <1>1 DEF WholeThinking, Current
  <2>3. ThoughtFixed'
    <3>1. SUFFICES ASSUME turn \notin stopped, step = "text", agent \in {"claude", "opencode"},
                          messages[Current].thought > 0
                   PROVE  HasFixed(items', "reasoning", v)
      BY <1>1, <1>6, <2>2 DEF ThoughtFixed
    <3>2. HasFixed(items, "reasoning", v)
      BY <2>2, <3>1 DEF Streaming, ThoughtFixed
    <3> QED BY <1>1, <3>2 DEF Keeps, Words
  <2>4. ThoughtLast'
    <3>1. \A content : Ends(items, "reasoning", content) => Ends(items', "reasoning", content)
      BY <1>6 DEF Words
    <3>2. turn \notin stopped =>
             /\ agent = "claude" /\ step = "thinking" =>
                   thinking = v /\ Ends(items, "reasoning", thinking)
             /\ step = "thought" => Ends(items, "reasoning", v)
             /\ agent = "opencode" /\ step = "thinking" =>
                   \/ Ends(items, "reasoning", thinking)
                   \/ \A k \in 1 .. Len(thinking) : thinking[k][1] # Current
      BY <2>2 DEF Streaming, ThoughtLast
    <3> QED BY <1>1, <1>6, <2>2, <3>1, <3>2 DEF ThoughtLast
  <2>5. ThinkingOld'
    BY <1>1, <1>6 DEF Streaming, ThinkingOld
  <2>6. TextLast'
    <3>1. \A content : Ends(items, "assistant", content) => Ends(items', "assistant", content)
      BY <1>6 DEF Words
    <3>2. turn \notin stopped /\ step = "text" =>
             /\ agent = "codex" /\ text # <<>> =>
                   Ends(items, "assistant", text) /\ answer[turn] = text
             /\ agent = "claude" =>
                   text = w /\ Ends(items, "assistant", text) /\ answer[turn] = text
      BY <2>1 DEF Streaming, TextLast
    <3> QED BY <1>1, <1>6, <2>1, <3>1, <3>2 DEF TextLast
  <2> QED BY <1>4, <2>3, <2>4, <2>5, <2>6 DEF Streaming
<1> QED BY <1>3, <1>5, <1>6

LEMMA SettledShuffled ==
    ASSUME TInv, Settled, Shuffled
    PROVE  Settled'
<1>1. /\ messages' = messages /\ answer' = answer /\ agent' = agent /\ stopped' = stopped
      /\ Current' = Current
  BY DEF Shuffled, Current
<1>2. \A m : WholeText(m)' = WholeText(m)
  BY <1>1 DEF WholeText
<1>3. \A m : Spoken(m)' <=> Spoken(m)
  BY <1>1 DEF Spoken, Unsaid, Shuffled
<1>4. /\ step = "tool" => step' = "tool"
      /\ step = "text" => step' = "text" /\ turn' = turn
  BY DEF Shuffled
<1>5. ASSUME NEW i \in 1 .. Len(items'), items'[i].kind \in {"assistant", "tool"}
      PROVE  \E j \in 1 .. Len(items) :
                items'[i] = items[j] /\ (step = "text" /\ j = Len(items) => i = Len(items'))
  BY <1>5 DEF Shuffled
<1>6. ToolsShown'
  <2>1. ToolsOnce(items')
    BY DEF Settled, ToolsShown, Shuffled
  <2>2. ASSUME NEW i \in 1 .. Len(items'), items'[i].kind = "tool"
        PROVE  items'[i].of \in 1 .. Len(messages) /\ messages[items'[i].of].tool
    BY <1>5, <2>2 DEF Settled, ToolsShown
  <2>3. ASSUME NEW m \in 1 .. Len(messages), messages[m].tool
        PROVE  \/ HasTool(items', m, {"completed", "failed"})
               \/ messages[m].turn \in stopped
               \/ m = Current /\ step' = "tool"
    <3>1. HasTool(items, m, {"completed", "failed"}) =>
             HasTool(items', m, {"completed", "failed"})
      BY DEF Shuffled
    <3> QED BY <1>4, <2>3, <3>1 DEF Settled, ToolsShown
  <2> QED BY <1>1, <2>1, <2>2, <2>3 DEF ToolsShown
<1>7. AnswerIsLast'
  BY <1>1, <1>2, <1>3 DEF Settled, AnswerIsLast
<1>8. NothingElse'
  <2>1. SUFFICES ASSUME agent # "pi", NEW i \in 1 .. Len(items'),
                        items'[i].kind = "assistant", items'[i].turn \in Turns \ stopped
                 PROVE  \/ \E m \in 1 .. Len(messages) :
                              /\ messages[m].turn = items'[i].turn /\ Spoken(m)
                              /\ items'[i].text = WholeText(m)
                        \/ step' = "text" /\ i = Len(items') /\ items'[i].turn = turn'
    BY <1>1, <1>2, <1>3 DEF NothingElse
  <2>2. PICK j \in 1 .. Len(items) :
           items'[i] = items[j] /\ (step = "text" /\ j = Len(items) => i = Len(items'))
    BY <1>5, <2>1
  <2> QED BY <1>4, <2>1, <2>2 DEF Settled, NothingElse
<1> QED BY <1>6, <1>7, <1>8 DEF Settled

-----------------------------------------------------------------------------
(* A delta                                                                 *)

LEMMA PiecesGrow ==
    ASSUME NEW m \in Numbers, NEW k \in 1 .. MaxPieces
    PROVE  /\ <<<<m, 1>>>> = Pieces(m, 1)
           /\ Append(Pieces(m, k - 1), <<m, k>>) = Pieces(m, k)
<1>0. MaxPieces \in Nat
  BY Bounds
<1>1. k \in Nat /\ k - 1 \in 0 .. MaxPieces /\ k \in 0 .. MaxPieces /\ 1 \in 0 .. MaxPieces
  BY <1>0
<1>2. /\ Pieces(m, 1) \in Seq(Piece) /\ Len(Pieces(m, 1)) = 1 /\ Pieces(m, 1)[1] = <<m, 1>>
  <2>1. /\ Pieces(m, 1) \in Seq(Piece) /\ Len(Pieces(m, 1)) = 1
        /\ \A i \in 1 .. 1 : Pieces(m, 1)[i] = <<m, i>>
    BY <1>1, PiecesType
  <2>2. 1 \in 1 .. 1
    OBVIOUS
  <2> QED BY <2>1, <2>2
<1>3. /\ Pieces(m, k) \in Seq(Piece) /\ Len(Pieces(m, k)) = k
      /\ \A i \in 1 .. k : Pieces(m, k)[i] = <<m, i>>
  BY <1>1, PiecesType
<1>4. /\ Pieces(m, k - 1) \in Seq(Piece) /\ Len(Pieces(m, k - 1)) = k - 1
      /\ \A i \in 1 .. (k - 1) : Pieces(m, k - 1)[i] = <<m, i>>
  BY <1>1, PiecesType
<1>5. <<m, k>> \in Piece /\ <<m, 1>> \in Piece
  BY <1>1, Bounds DEF Piece
<1>6. <<<<m, 1>>>> = Pieces(m, 1)
  <2>1. <<<<m, 1>>>> \in Seq(Piece) /\ Len(<<<<m, 1>>>>) = 1 /\ <<<<m, 1>>>>[1] = <<m, 1>>
    BY <1>5, SeqDef
  <2> QED BY <1>2, <2>1, SeqEqual
<1>7. Append(Pieces(m, k - 1), <<m, k>>) = Pieces(m, k)
  <2>1. /\ Append(Pieces(m, k - 1), <<m, k>>) \in Seq(Piece)
        /\ Len(Append(Pieces(m, k - 1), <<m, k>>)) = k
        /\ \A i \in 1 .. (k - 1) : Append(Pieces(m, k - 1), <<m, k>>)[i] = <<m, i>>
        /\ Append(Pieces(m, k - 1), <<m, k>>)[k] = <<m, k>>
    <3>1. /\ Append(Pieces(m, k - 1), <<m, k>>) \in Seq(Piece)
          /\ Len(Append(Pieces(m, k - 1), <<m, k>>)) = (k - 1) + 1
          /\ \A i \in 1 .. (k - 1) :
                Append(Pieces(m, k - 1), <<m, k>>)[i] = Pieces(m, k - 1)[i]
          /\ Append(Pieces(m, k - 1), <<m, k>>)[(k - 1) + 1] = <<m, k>>
      BY <1>4, <1>5, AppendProperties
    <3>2. (k - 1) + 1 = k
      BY <1>1
    <3> QED BY <1>4, <3>1, <3>2
  <2>2. \A i \in 1 .. k : Append(Pieces(m, k - 1), <<m, k>>)[i] = Pieces(m, k)[i]
    <3>1. \A i \in 1 .. k : i = k \/ i \in 1 .. (k - 1)
      BY <1>1
    <3> QED BY <1>1, <1>3, <2>1, <3>1
  <2> QED BY <1>3, <2>1, <2>2, SeqEqual
<1> QED BY <1>6, <1>7

\* The messages that are said are those before the open one, and they stay.
LEMMA DeltaSays ==
    ASSUME TInv, Control, ReasoningDelta \/ TextDelta
    PROVE  /\ step \in {"open"} \cup Unsaid /\ step' \in Unsaid
           /\ agent' = agent /\ active' = active /\ turn' = turn /\ stopped' = stopped
           /\ roles' = roles
           /\ Len(messages') \in Nat \ {0} /\ Current' = Len(messages')
           /\ messages'[Len(messages')].turn = turn /\ ~messages'[Len(messages')].tool
           /\ \A m \in 1 .. Len(messages') :
                 m # Len(messages') => m \in 1 .. Len(messages) /\ messages'[m] = messages[m]
           /\ \A m \in 1 .. Len(messages) :
                 /\ m \in 1 .. Len(messages')
                 /\ m # Len(messages') <=> Spoken(m)
                 /\ m = Len(messages') => messages[m].turn = turn /\ ~messages[m].tool
           /\ \A m : Spoken(m)' <=> m # Len(messages')
<1>1. /\ step \in {"open"} \cup Unsaid /\ step' \in Unsaid
      /\ agent' = agent /\ active' = active /\ turn' = turn /\ stopped' = stopped
      /\ roles' = roles
  BY DEF ReasoningDelta, TextDelta, Streamed, Unsaid
<1>2. /\ Len(messages) \in Nat /\ Len(messages') \in 1 .. MaxMessages
      /\ Len(messages') = IF step = "open" THEN Len(messages) + 1 ELSE Len(messages)
      /\ \A m \in 1 .. Len(messages') :
            m # Len(messages') => m \in 1 .. Len(messages) /\ messages'[m] = messages[m]
      /\ messages'[Len(messages')].turn = turn /\ messages'[Len(messages')].tool = FALSE
  BY ThoughtGrows, TextGrows DEF Control
<1>3. step # "open" => messages[Len(messages)].turn = turn /\ ~messages[Len(messages)].tool
  BY <1>1 DEF Control, MessageOpen, SpeakingSteps, Unsaid, Current
<1>4. Len(messages') \in Nat \ {0}
  BY <1>2, Bounds
<1>5. ASSUME NEW m \in 1 .. Len(messages)
      PROVE  /\ m \in 1 .. Len(messages')
             /\ m # Len(messages') <=> Spoken(m)
             /\ m = Len(messages') => messages[m].turn = turn /\ ~messages[m].tool
  <2>1. CASE step = "open"
    BY <1>2, <2>1 DEF Spoken, Unsaid
  <2>2. CASE step # "open"
    BY <1>1, <1>2, <1>3, <2>2 DEF Spoken, Current
  <2> QED BY <2>1, <2>2
<1>6. \A m : Spoken(m)' <=> m # Len(messages')
  BY <1>1 DEF Spoken, Current
<1> QED BY <1>1, <1>2, <1>4, <1>5, <1>6 DEF Current

LEMMA DeltaWholes ==
    ASSUME TInv, Control, Streaming, ReasoningDelta \/ TextDelta, Keeps(items, items')
    PROVE  WholeShown'
<1>1. step \notin {"idle", "whole"}
  BY DeltaSays DEF Unsaid
<1>2. ASSUME NEW m \in 1 .. Len(messages'), Spoken(m)' PROVE Same(m) /\ Spoken(m)
  BY <1>2, DeltaSays DEF Same
<1>3. agent' = agent /\ stopped \subseteq stopped'
  BY DeltaSays
<1> QED BY <1>1, <1>2, <1>3, WholesStay DEF Streaming

\* No tool is called, and what is returned of other turns stays.
LEMMA DeltaSettled ==
    ASSUME TInv, Control, Settled, ReasoningDelta \/ TextDelta,
           ToolsOnce(items) => ToolsOnce(items'),
           \A m, statuses : HasTool(items, m, statuses) => HasTool(items', m, statuses),
           \A i \in 1 .. Len(items') : items'[i].kind = "tool" =>
              \E j \in 1 .. Len(items) : items'[i] = items[j],
           \A t \in Turns : t # turn => answer'[t] = answer[t]
    PROVE  ToolsShown' /\ AnswerIsLast'
<1> USE DeltaSays
<1>1. \A m : Spoken(m) /\ m \in 1 .. Len(messages) => WholeText(m)' = WholeText(m)
  BY DEF WholeText
<1>2. ToolsShown'
  <2>1. ASSUME NEW i \in 1 .. Len(items'), items'[i].kind = "tool"
        PROVE  items'[i].of \in 1 .. Len(messages') /\ messages'[items'[i].of].tool
    <3>1. PICK j \in 1 .. Len(items) : items'[i] = items[j]
      BY <2>1
    <3>2. items'[i].of \in 1 .. Len(messages) /\ messages[items'[i].of].tool
      BY <2>1, <3>1 DEF Settled, ToolsShown
    <3>3. items'[i].of # Len(messages')
      BY <3>2
    <3> QED BY <3>2, <3>3
  <2>2. ASSUME NEW m \in 1 .. Len(messages'), messages'[m].tool
        PROVE  HasTool(items', m, {"completed", "failed"}) \/ messages'[m].turn \in stopped
    <3>1. m \in 1 .. Len(messages) /\ messages'[m] = messages[m]
      BY <2>2
    <3>2. step # "tool"
      BY DEF Unsaid
    <3> QED BY <2>2, <3>1, <3>2 DEF Settled, ToolsShown
  <2> QED BY <2>1, <2>2 DEF Settled, ToolsShown
<1>3. AnswerIsLast'
  <2>1. SUFFICES ASSUME NEW t \in Turns, t \notin stopped
                 PROVE  /\ (\A m \in 1 .. Len(messages') : messages'[m].turn # t)
                              => answer'[t] = <<>>
                        /\ \A m \in 1 .. Len(messages') :
                              /\ messages'[m].turn = t /\ Spoken(m)'
                              /\ \A l \in 1 .. Len(messages') : messages'[l].turn = t => l <= m
                              => answer'[t] = WholeText(m)'
    BY DEF AnswerIsLast
  <2>2. CASE t = turn
    BY <2>2
  <2>3. CASE t # turn
    <3>1. answer'[t] = answer[t]
      BY <2>3
    <3>2. \A m \in 1 .. Len(messages) :
             messages[m].turn = t => m \in 1 .. Len(messages') /\ messages'[m].turn = t
      BY <2>3
    <3>3. ASSUME NEW m \in 1 .. Len(messages'), messages'[m].turn = t, Spoken(m)',
                 \A l \in 1 .. Len(messages') : messages'[l].turn = t => l <= m
          PROVE  answer'[t] = WholeText(m)'
      <4>1. m \in 1 .. Len(messages) /\ messages[m].turn = t /\ Spoken(m)
        BY <3>3
      <4>2. \A l \in 1 .. Len(messages) : messages[l].turn = t => l <= m
        BY <3>2, <3>3
      <4> QED BY <1>1, <2>1, <3>1, <4>1, <4>2 DEF Settled, AnswerIsLast
    <3> QED BY <2>1, <3>1, <3>2, <3>3 DEF Settled, AnswerIsLast
  <2> QED BY <2>2, <2>3
<1> QED BY <1>2, <1>3

LEMMA StreamingThinks ==
    ASSUME TInv, Control, Streaming, ReasoningDelta
    PROVE  Streaming'
<1> DEFINE n == Len(messages')
           k == messages'[n].thought
<1>0. /\ n \in Numbers /\ k \in 1 .. MaxPieces
      /\ \/ /\ Heard(n)
            /\ thinking' = IF agent = "codex" THEN thinking ELSE Accumulated(thinking, n, k)
            /\ \E content \in Seq(Piece) : \E p \in Nat :
                  /\ content = IF agent = "codex" THEN <<<<n, k>>>> ELSE thinking'
                  /\ Puts(items, Reasoning(content), p, items')
         \/ /\ ~Heard(n)
            /\ UNCHANGED <<thinking, items, answer>>
      /\ TInv'
  BY ReasoningDeltaEffect
<1>1. /\ step \in {"open", "thinking"} /\ step' = "thinking"
      /\ agent' = agent /\ turn' = turn /\ stopped' = stopped /\ roles' = roles
      /\ Current' = n
  BY DeltaSays DEF ReasoningDelta
<1>2. /\ Len(messages) \in Nat /\ n \in Nat
      /\ n = IF step = "open" THEN Len(messages) + 1 ELSE Len(messages)
      /\ k = (IF step = "open" THEN 0 ELSE messages[Len(messages)].thought) + 1
  BY ThoughtGrows, Bounds DEF Control
<1> HIDE DEF n, k
<1>3. CASE Heard(n)
  <2>0. PICK now \in Seq(Piece) : now = thinking'
    BY <1>0 DEF TInv, TypeOK
  <2>1. PICK content \in Seq(Piece), p \in Nat :
           /\ content = IF agent = "codex" THEN <<<<n, k>>>> ELSE now
           /\ Puts(items, Reasoning(content), p, items')
    BY <1>0, <1>3, <2>0
  <2>2. now = IF agent = "codex" THEN thinking ELSE Accumulated(thinking, n, k)
    BY <1>0, <1>3, <2>0
  <2>3. Reasoning(content).kind = "reasoning" /\ Reasoning(content).text = content
    BY NewItemType DEF TInv
  <2>4. Ends(items', "reasoning", content)
    BY <2>1, <2>3, PutsEnds DEF Words
  <2>5. Keeps(items, items')
    BY <2>1, PutsKeeps DEF Keeps
  <2>6. WholeShown'
    BY <2>5, DeltaWholes
  <2>7. ThoughtFixed' /\ TextLast'
    BY <1>1 DEF ThoughtFixed, TextLast
  <2>8. ThinkingOld'
    <3>1. \A i \in 1 .. Len(thinking) : thinking[i][1] \in 1 .. n
      BY <1>1, <1>2 DEF Streaming, ThinkingOld
    <3>2. n \in 1 .. n
      BY <1>0, <1>2, Bounds DEF Numbers
    <3>3. <<n, k>>[1] = n
      OBVIOUS
    <3>4. ASSUME NEW i \in 1 .. Len(Append(thinking, <<n, k>>))
          PROVE  Append(thinking, <<n, k>>)[i][1] \in 1 .. n
      <4>1. thinking \in Seq(Piece) /\ <<n, k>> \in Piece
        BY <1>0 DEF TInv, TypeOK, Piece
      <4>2. /\ Len(Append(thinking, <<n, k>>)) = Len(thinking) + 1 /\ Len(thinking) \in Nat
            /\ \A j \in 1 .. Len(thinking) : Append(thinking, <<n, k>>)[j] = thinking[j]
            /\ Append(thinking, <<n, k>>)[Len(thinking) + 1] = <<n, k>>
        BY <4>1, AppendProperties, LenProperties
      <4>3. i \in 1 .. Len(thinking) \/ i = Len(thinking) + 1
        BY <4>2
      <4> QED BY <3>1, <3>2, <3>3, <4>2, <4>3
    <3>5. ASSUME NEW i \in 1 .. Len(<<<<n, k>>>>) PROVE <<<<n, k>>>>[i][1] \in 1 .. n
      <4>1. i = 1
        OBVIOUS
      <4>2. <<<<n, k>>>>[1] = <<n, k>>
        OBVIOUS
      <4> QED BY <3>2, <3>3, <4>1, <4>2
    <3>6. \A i \in 1 .. Len(now) : now[i][1] \in 1 .. n
      <4>1. now \in {thinking, <<<<n, k>>>>, Append(thinking, <<n, k>>)}
        BY <2>2 DEF Accumulated
      <4> QED BY <3>1, <3>4, <3>5, <4>1
    <3> QED BY <2>0, <3>6 DEF ThinkingOld, n
  <2>9. ThoughtLast'
    <3>1. ASSUME agent = "claude", turn \notin stopped PROVE now = Pieces(n, k)
      <4>1. now = Accumulated(thinking, n, k)
        BY <2>2, <3>1
      <4>2. CASE step = "open"
        <5>1. k = 1 /\ now = <<<<n, k>>>>
          BY <1>2, <3>1, <4>1, <4>2 DEF Accumulated
        <5> QED BY <1>0, <4>1, <5>1, PiecesGrow
      <4>3. CASE step = "thinking"
        <5>1. k - 1 = messages[n].thought /\ n = Len(messages)
          <6>1. messages[Len(messages)].thought \in Nat
            BY <4>3, Lengths, Bounds DEF TInv, StepKnown, SpeakingSteps, Message
          <6> QED BY <1>2, <4>3, <6>1
        <5>2. k # 1
          <6>1. messages[n].thought > 0
            BY <4>3, <5>1 DEF Control, MessageOpen, Current
          <6> QED BY <1>0, <5>1, <6>1, Bounds
        <5>3. thinking = Pieces(n, k - 1)
          BY <3>1, <4>3, <5>1 DEF Streaming, ThoughtLast, WholeThinking, Current
        <5> QED BY <1>0, <4>1, <5>2, <5>3, PiecesGrow DEF Accumulated
      <4> QED BY <1>1, <4>2, <4>3
    <3>2. agent # "codex" => content = now
      BY <2>1
    <3>3. agent = "claude" /\ turn \notin stopped => now = WholeThinking(Current)'
      BY <1>1, <3>1 DEF WholeThinking, Current, k
    <3> QED BY <1>1, <2>0, <2>4, <3>2, <3>3 DEF ThoughtLast
  <2> QED BY <2>6, <2>7, <2>8, <2>9 DEF Streaming
<1>4. CASE ~Heard(n)
  <2>1. UNCHANGED <<thinking, items>> /\ agent = "opencode"
    BY <1>0, <1>4 DEF Heard
  <2>2. WholeShown'
    BY <2>1, DeltaWholes DEF Keeps
  <2>3. ThoughtFixed' /\ TextLast'
    BY <1>1 DEF ThoughtFixed, TextLast
  <2>4. ThinkingOld'
    <3>1. \A i \in 1 .. Len(thinking) : thinking[i][1] \in 1 .. n
      BY <1>1, <1>2 DEF Streaming, ThinkingOld
    <3> QED BY <2>1, <3>1 DEF ThinkingOld, n
  <2>5. ThoughtLast'
    <3>1. SUFFICES ASSUME turn \notin stopped
                   PROVE  \/ Ends(items, "reasoning", thinking)
                          \/ \A i \in 1 .. Len(thinking) : thinking[i][1] # n
      BY <1>1, <2>1 DEF ThoughtLast
    <3>2. CASE step = "open"
      BY <1>2, <3>2 DEF Streaming, ThinkingOld
    <3>3. CASE step = "thinking"
      BY <1>2, <2>1, <3>1, <3>3 DEF Streaming, ThoughtLast, Current
    <3> QED BY <1>1, <3>2, <3>3
  <2> QED BY <2>2, <2>3, <2>4, <2>5 DEF Streaming
<1> QED BY <1>3, <1>4

LEMMA SettledThinks ==
    ASSUME TInv, Control, Settled, ReasoningDelta
    PROVE  Settled'
<1>1. /\ answer' = answer
      /\ items' = items \/ \E x, p : Puts(items, x, p, items') /\ x.kind = "reasoning"
  <2>1. \A content : Reasoning(content).kind = "reasoning"
    BY DEF Reasoning, NewItem
  <2> QED BY <2>1, ReasoningDeltaEffect
<1>2. /\ ToolsOnce(items) => ToolsOnce(items')
      /\ \A m, statuses : HasTool(items, m, statuses) => HasTool(items', m, statuses)
      /\ \A i \in 1 .. Len(items') : items'[i].kind # "reasoning" =>
            i \in 1 .. Len(items) /\ items'[i] = items[i]
  <2>1. CASE items' = items
    BY <2>1
  <2>2. CASE items' # items
    <3>1. PICK x, p : Puts(items, x, p, items') /\ x.kind = "reasoning"
      BY <1>1, <2>2
    <3> QED BY <3>1, PutsItems, PutsTools
  <2> QED BY <2>1, <2>2
<1>3. ToolsShown' /\ AnswerIsLast'
  BY <1>1, <1>2, DeltaSettled
<1>4. NothingElse'
  <2>1. SUFFICES ASSUME agent # "pi", NEW i \in 1 .. Len(items'),
                        items'[i].kind = "assistant", items'[i].turn \in Turns \ stopped
                 PROVE  \E m \in 1 .. Len(messages') :
                           /\ messages'[m].turn = items'[i].turn /\ Spoken(m)'
                           /\ items'[i].text = WholeText(m)'
    BY DeltaSays DEF NothingElse
  <2>2. i \in 1 .. Len(items) /\ items'[i] = items[i] /\ step # "text"
    BY <1>2, <2>1 DEF ReasoningDelta
  <2>3. PICK m \in 1 .. Len(messages) :
           /\ messages[m].turn = items[i].turn /\ Spoken(m) /\ items[i].text = WholeText(m)
    BY <2>1, <2>2 DEF Settled, NothingElse
  <2>4. m \in 1 .. Len(messages') /\ messages'[m] = messages[m] /\ Spoken(m)'
    BY <2>3, DeltaSays
  <2>5. WholeText(m)' = WholeText(m)
    BY <2>4 DEF WholeText
  <2> QED BY <2>2, <2>3, <2>4, <2>5
<1> QED BY <1>3, <1>4 DEF Settled

LEMMA StreamingTells ==
    ASSUME TInv, Control, Streaming, TextDelta
    PROVE  Streaming'
<1> DEFINE n == Len(messages')
           k == messages'[n].sent
<1>0. /\ n \in Numbers /\ k \in 1 .. MaxPieces
      /\ \/ /\ Heard(n)
            /\ text' = Accumulated(text, n, k)
            /\ \E p \in Nat : Puts(items, Assistant(text'), p, items')
            /\ answer' = IF Listening THEN [answer EXCEPT ![run.turn] = text'] ELSE answer
         \/ /\ ~Heard(n)
            /\ UNCHANGED <<text, items, answer>>
      /\ TInv'
  BY TextDeltaEffect
<1>1. /\ step \in {"open", "thinking", "thought", "text"} /\ step' = "text"
      /\ agent = "opencode" => step # "thinking"
      /\ agent' = agent /\ turn' = turn /\ stopped' = stopped /\ thinking' = thinking
      /\ Current' = n
  BY DeltaSays DEF TextDelta
<1>2. /\ Len(messages) \in Nat /\ n \in Nat
      /\ n = IF step = "open" THEN Len(messages) + 1 ELSE Len(messages)
      /\ k = (IF step = "open" THEN 0 ELSE messages[Len(messages)].sent) + 1
      /\ messages'[n].thought = IF step = "open" THEN 0 ELSE messages[Len(messages)].thought
  BY TextGrows, Bounds DEF Control
<1> HIDE DEF n, k
<1>3. ThoughtLast'
  BY <1>1 DEF ThoughtLast
<1>4. ThinkingOld'
  BY <1>1, <1>2 DEF Streaming, ThinkingOld, n
<1>5. CASE Heard(n)
  <2>1. PICK now \in Seq(Piece) : now = text'
    BY <1>0 DEF TInv, TypeOK
  <2>2. /\ now = Accumulated(text, n, k)
        /\ answer' = IF Listening THEN [answer EXCEPT ![run.turn] = now] ELSE answer
    BY <1>0, <1>5, <2>1
  <2>3. PICK p \in Nat : Puts(items, Assistant(now), p, items')
    BY <1>0, <1>5, <2>1
  <2>4. Assistant(now).kind = "assistant" /\ Assistant(now).text = now
    BY NewItemType DEF TInv
  <2>5. Ends(items', "assistant", now)
    BY <2>3, <2>4, PutsEnds DEF Words
  <2>6. Keeps(items, items')
    BY <2>3, PutsKeeps DEF Keeps
  <2>7. WholeShown'
    BY <2>6, DeltaWholes
  <2>8. ThoughtFixed'
    <3>1. SUFFICES ASSUME turn \notin stopped, agent \in {"claude", "opencode"},
                          messages'[n].thought > 0
                   PROVE  HasFixed(items', "reasoning", Pieces(n, messages'[n].thought))
      BY <1>1 DEF ThoughtFixed, WholeThinking, Current, n
    <3>2. /\ step # "open" /\ n = Len(messages)
          /\ messages'[n].thought = messages[n].thought /\ messages[n].thought > 0
      BY <1>2, <3>1
    <3>3. PICK v : v = WholeThinking(Current) /\ v = Pieces(n, messages'[n].thought)
      BY <3>2 DEF WholeThinking, Current
    <3>4. CASE step = "text"
      <4>1. HasFixed(items, "reasoning", v)
        BY <3>1, <3>2, <3>3, <3>4 DEF Streaming, ThoughtFixed, Current
      <4> QED BY <2>6, <3>3, <4>1 DEF Keeps, Words
    <3>5. CASE step \in {"thinking", "thought"}
      <4>1. Ends(items, "reasoning", v)
        BY <1>1, <3>1, <3>3, <3>5 DEF Streaming, ThoughtLast
      <4>2. p = Len(items) + 1
        BY <2>3, <2>4, <4>1, PutsAfter DEF Words, Ends
      <4>3. Has(items, "reasoning", v)
        BY <4>1 DEF Ends, Has
      <4>4. HasFixed(items', "reasoning", v)
        BY <2>3, <2>4, <4>2, <4>3, PutsFixes
      <4> QED BY <3>3, <4>4
    <3> QED BY <1>1, <3>2, <3>4, <3>5
  <2>9. TextLast'
    <3>1. SUFFICES ASSUME turn \notin stopped
                   PROVE  /\ answer'[turn] = now
                          /\ agent = "claude" => now = Pieces(n, k)
      BY <1>1, <2>1, <2>5 DEF TextLast, WholeText, Current, n, k
    <3>2. Listening /\ run.turn = turn /\ turn \in Turns
      BY <1>1, <3>1 DEF Control, RunListens, RunOfTurn, Listening, TInv, StepKnown
    <3>3. answer'[turn] = now
      BY <2>2, <3>2 DEF TInv, TypeOK
    <3>4. ASSUME agent = "claude" PROVE now = Pieces(n, k)
      <4>1. CASE step \in {"open", "thinking", "thought"}
        <5>1. k = 1
          BY <1>2, <4>1 DEF Control, MessageOpen, Current
        <5>2. now = <<<<n, k>>>>
          BY <2>2, <3>4, <5>1 DEF Accumulated
        <5> QED BY <1>0, <5>1, <5>2, PiecesGrow
      <4>2. CASE step = "text"
        <5>1. k - 1 = messages[n].sent /\ n = Len(messages)
          <6>1. messages[Len(messages)].sent \in Nat
            BY <4>2, Lengths, Bounds DEF TInv, StepKnown, SpeakingSteps, Message
          <6> QED BY <1>2, <4>2, <6>1
        <5>2. k # 1
          <6>1. messages[n].sent > 0
            BY <4>2, <5>1 DEF Control, MessageOpen, Current
          <6> QED BY <1>0, <5>1, <6>1, Bounds
        <5>3. text = Pieces(n, k - 1)
          BY <3>1, <3>4, <4>2, <5>1 DEF Streaming, TextLast, WholeText, Current
        <5> QED BY <1>0, <2>2, <5>2, <5>3, PiecesGrow DEF Accumulated
      <4> QED BY <1>1, <4>1, <4>2
    <3> QED BY <3>3, <3>4
  <2> QED BY <1>3, <1>4, <2>7, <2>8, <2>9 DEF Streaming
<1>6. CASE ~Heard(n)
  <2>1. UNCHANGED <<text, items, answer>> /\ agent = "opencode"
    BY <1>0, <1>6 DEF Heard
  <2>2. WholeShown'
    BY <2>1, DeltaWholes DEF Keeps
  <2>3. TextLast'
    BY <1>1, <2>1 DEF TextLast
  <2>4. ThoughtFixed'
    <3>1. SUFFICES ASSUME turn \notin stopped, messages'[n].thought > 0
                   PROVE  HasFixed(items', "reasoning", Pieces(n, messages'[n].thought))
      BY <1>1, <2>1 DEF ThoughtFixed, WholeThinking, Current, n
    <3>2. /\ step # "open" /\ n = Len(messages)
          /\ messages'[n].thought = messages[n].thought /\ messages[n].thought > 0
      BY <1>2, <3>1
    <3>3. step = "text"
      BY <1>1, <1>6, <2>1, <3>2 DEF Control, MessageOpen, Current
    <3> QED BY <2>1, <3>1, <3>2, <3>3 DEF Streaming, ThoughtFixed, WholeThinking, Current
  <2> QED BY <1>3, <1>4, <2>2, <2>3, <2>4 DEF Streaming
<1> QED BY <1>5, <1>6

LEMMA SettledTells ==
    ASSUME TInv, Control, Settled, TextDelta
    PROVE  Settled'
<1>0. PICK now \in Seq(Piece) : now = text'
  BY TextDeltaEffect DEF TInv, TypeOK
<1>1. \/ /\ \E p \in Nat : Puts(items, Assistant(now), p, items')
         /\ answer' = IF Listening THEN [answer EXCEPT ![run.turn] = now] ELSE answer
      \/ items' = items /\ answer' = answer
  BY <1>0, TextDeltaEffect
<1>2. /\ Assistant(now).kind = "assistant" /\ Assistant(now).turn = active
      /\ Assistant(now) \in Item
  BY NewItemType DEF TInv
<1>3. \A t \in Turns : t # turn => answer'[t] = answer[t]
  BY <1>1 DEF Control, RunOfTurn, Listening, TInv, TypeOK
<1>4. /\ ToolsOnce(items) => ToolsOnce(items')
      /\ \A m, statuses : HasTool(items, m, statuses) => HasTool(items', m, statuses)
      /\ \A i \in 1 .. Len(items') : items'[i].kind # "assistant" =>
            i \in 1 .. Len(items) /\ items'[i] = items[i]
  <2>1. CASE items' = items
    BY <2>1
  <2>2. CASE items' # items
    <3>1. PICK p : Puts(items, Assistant(now), p, items')
      BY <1>1, <2>2
    <3> QED BY <1>2, <3>1, PutsItems, PutsTools
  <2> QED BY <2>1, <2>2
<1>5. ToolsShown' /\ AnswerIsLast'
  BY <1>3, <1>4, DeltaSettled
<1>6. /\ agent' = agent /\ turn' = turn /\ stopped' = stopped /\ step' = "text"
      /\ step \notin {"idle", "begun"} /\ turn \in Turns
  BY DeltaSays DEF TextDelta, TInv, StepKnown
<1>7. ASSUME NEW i \in 1 .. Len(items), agent # "pi", items[i].kind = "assistant",
             items[i].turn \in Turns \ stopped,
             ~(step = "text" /\ i = Len(items) /\ items[i].turn = turn)
      PROVE  \E m \in 1 .. Len(messages') :
                /\ messages'[m].turn = items[i].turn /\ Spoken(m)'
                /\ items[i].text = WholeText(m)'
  <2>1. PICK m \in 1 .. Len(messages) :
           /\ messages[m].turn = items[i].turn /\ Spoken(m) /\ items[i].text = WholeText(m)
    BY <1>7 DEF Settled, NothingElse
  <2>2. m \in 1 .. Len(messages') /\ messages'[m] = messages[m] /\ Spoken(m)'
    BY <2>1, DeltaSays
  <2>3. WholeText(m)' = WholeText(m)
    BY <2>2 DEF WholeText
  <2> QED BY <2>1, <2>2, <2>3
<1>8. NothingElse'
  <2>1. SUFFICES ASSUME agent # "pi", NEW i \in 1 .. Len(items'),
                        items'[i].kind = "assistant", items'[i].turn \in Turns \ stopped
                 PROVE  \/ \E m \in 1 .. Len(messages') :
                              /\ messages'[m].turn = items'[i].turn /\ Spoken(m)'
                              /\ items'[i].text = WholeText(m)'
                        \/ i = Len(items') /\ items'[i].turn = turn
    BY <1>6 DEF NothingElse
  <2>2. CASE items' = items
    <3>1. /\ i \in 1 .. Len(items) /\ items'[i] = items[i]
          /\ items[i].kind = "assistant" /\ items[i].turn \in Turns \ stopped
      BY <2>1, <2>2
    <3>2. CASE step = "text" /\ i = Len(items) /\ items[i].turn = turn
      BY <2>2, <3>2
    <3>3. CASE ~(step = "text" /\ i = Len(items) /\ items[i].turn = turn)
      <4>1. \E m \in 1 .. Len(messages') :
               /\ messages'[m].turn = items[i].turn /\ Spoken(m)'
               /\ items[i].text = WholeText(m)'
        BY <1>7, <2>1, <3>1, <3>3
      <4> QED BY <3>1, <4>1
    <3> QED BY <3>2, <3>3
  <2>3. CASE items' # items
    <3>1. PICK p \in Nat : Puts(items, Assistant(now), p, items')
      BY <1>1, <2>3
    <3>2. p = Len(items') /\ items'[p] = Assistant(now)
      <4>1. p = Len(items')
        BY <1>2, <3>1, PutsEnds DEF Words
      <4> QED BY <3>1, <4>1 DEF Puts
    <3>3. active \in Turns \ stopped => active = turn
      BY <1>6, <2>1, Bounds DEF Control, Attributed
    <3>4. CASE i = p
      BY <1>2, <2>1, <3>2, <3>3, <3>4
    <3>5. CASE i # p
      <4>1. i \in 1 .. Len(items) /\ items'[i] = items[i]
        BY <3>1, <3>5 DEF Puts, Replaces
      <4>2. ASSUME i = Len(items), items[i].turn = turn PROVE FALSE
        <5>1. turn \notin stopped /\ active = turn
          BY <1>6, <2>1, <4>1, <4>2 DEF Control, Attributed
        <5>2. Replaces(items, Assistant(now), i)
          BY <1>2, <2>1, <4>1, <4>2, <5>1 DEF Replaces, Words
        <5> QED BY <1>2, <3>1, <3>5, <4>2, <5>2 DEF Puts, Replaces, Words
      <4> QED BY <1>7, <2>1, <4>1, <4>2
    <3> QED BY <3>4, <3>5
  <2> QED BY <2>2, <2>3
<1> QED BY <1>5, <1>8 DEF Settled

-----------------------------------------------------------------------------
(* The end of a reasoning, of a message, of a tool call                    *)

\* A message of which something was sent is not nothing.
LEMMA WholesFilled ==
    ASSUME TInv, NEW m \in 1 .. Len(messages)
    PROVE  /\ messages[m].sent > 0 => WholeText(m) # <<>>
           /\ \A k \in 1 .. Len(WholeThinking(m)) : WholeThinking(m)[k][1] = m
           /\ messages[m].thought > 0 => 1 \in 1 .. Len(WholeThinking(m))
<1>1. m \in Numbers /\ messages[m] \in Message
  BY Lengths DEF TInv
<1>2. messages[m].sent \in 0 .. MaxPieces /\ messages[m].thought \in 0 .. MaxPieces
  BY <1>1 DEF Message
<1>3. /\ WholeText(m) \in Seq(Piece) /\ Len(WholeText(m)) = messages[m].sent
      /\ Len(WholeThinking(m)) = messages[m].thought
      /\ \A k \in 1 .. messages[m].thought : WholeThinking(m)[k] = <<m, k>>
  BY <1>1, <1>2, PiecesType DEF WholeText, WholeThinking
<1>4. messages[m].sent > 0 => WholeText(m) # <<>>
  BY <1>2, <1>3, Bounds, EmptySeq
<1>5. \A k \in 1 .. Len(WholeThinking(m)) : WholeThinking(m)[k][1] = m
  BY <1>3
<1>6. messages[m].thought > 0 => 1 \in 1 .. Len(WholeThinking(m))
  BY <1>2, <1>3, Bounds
<1> QED BY <1>4, <1>5, <1>6

LEMMA StreamingThought ==
    ASSUME TInv, Control, Streaming, ReasoningEnds
    PROVE  Streaming'
<1>1. /\ step = "thinking" /\ step' = "thought" /\ agent = "opencode" /\ agent' = agent
      /\ messages' = messages /\ turn' = turn /\ stopped' = stopped /\ Current' = Current
  BY DEF ReasoningEnds, Streamed, Current
<1>2. Current = Len(messages) /\ Current \in 1 .. Len(messages) /\ messages[Current].thought > 0
  BY <1>1, Lengths DEF TInv, StepKnown, SpeakingSteps, Current, Control, MessageOpen
<1>3. PICK v : v = WholeThinking(Current) /\ v = WholeThinking(Current)'
  BY <1>1 DEF WholeThinking, Current
<1>4. /\ thinking' = v
      /\ \/ thinking = v /\ items' = items
         \/ \E p \in Nat : Puts(items, Reasoning(v), p, items')
  BY <1>3, ReasoningEndsEffect
<1>5. Reasoning(v).kind = "reasoning" /\ Reasoning(v).text = v
  BY DEF Reasoning, NewItem
<1>6. Keeps(items, items')
  BY <1>4, PutsKeeps DEF Keeps
<1>7. WholeShown'
  <2>1. \A m \in 1 .. Len(messages') : Spoken(m)' => Same(m) /\ Spoken(m)
    BY <1>1 DEF Same, Spoken, Unsaid
  <2> QED BY <1>1, <1>6, <2>1, WholesStay DEF Streaming
<1>8. ThoughtLast'
  <2>1. SUFFICES ASSUME turn \notin stopped PROVE Ends(items', "reasoning", v)
    BY <1>1, <1>3 DEF ThoughtLast
  <2>2. CASE thinking = v /\ items' = items
    <3>1. 1 \in 1 .. Len(v) /\ v[1][1] = Current
      BY <1>2, <1>3, WholesFilled
    <3> QED BY <1>1, <2>1, <2>2, <3>1 DEF Streaming, ThoughtLast
  <2>3. CASE \E p \in Nat : Puts(items, Reasoning(v), p, items')
    BY <1>5, <2>3, PutsEnds DEF Words
  <2> QED BY <1>4, <2>2, <2>3
<1>9. ThinkingOld'
  <2>1. \A k \in 1 .. Len(v) : v[k][1] \in 1 .. Len(messages)
    <3>1. \A k \in 1 .. Len(v) : v[k][1] = Current
      BY <1>2, <1>3, WholesFilled
    <3> QED BY <1>2, <3>1
  <2> QED BY <1>1, <1>4, <2>1 DEF ThinkingOld
<1>10. ThoughtFixed' /\ TextLast'
  BY <1>1 DEF ThoughtFixed, TextLast
<1> QED BY <1>7, <1>8, <1>9, <1>10 DEF Streaming

LEMMA SettledThought ==
    ASSUME TInv, Control, Settled, ReasoningEnds
    PROVE  Settled'
<1>1. /\ step = "thinking" /\ step' = "thought" /\ agent' = agent
      /\ messages' = messages /\ turn' = turn /\ stopped' = stopped /\ Current' = Current
      /\ answer' = answer
  BY ReasoningEndsEffect DEF ReasoningEnds, Streamed, Current
<1>2. items' = items \/ \E x, p : Puts(items, x, p, items') /\ x.kind = "reasoning"
  <2>1. \A content : Reasoning(content).kind = "reasoning"
    BY DEF Reasoning, NewItem
  <2> QED BY <2>1, ReasoningEndsEffect
<1>3. /\ ToolsOnce(items) => ToolsOnce(items')
      /\ \A m, statuses : HasTool(items, m, statuses) => HasTool(items', m, statuses)
      /\ \A i \in 1 .. Len(items') : items'[i].kind # "reasoning" =>
            i \in 1 .. Len(items) /\ items'[i] = items[i]
  <2>1. CASE items' = items
    BY <2>1
  <2>2. CASE items' # items
    <3>1. PICK x, p : Puts(items, x, p, items') /\ x.kind = "reasoning"
      BY <1>2, <2>2
    <3> QED BY <3>1, PutsItems, PutsTools
  <2> QED BY <2>1, <2>2
<1>4. \A m : Spoken(m)' <=> Spoken(m)
  BY <1>1 DEF Spoken, Unsaid
<1>5. \A m : WholeText(m)' = WholeText(m)
  BY <1>1 DEF WholeText
<1>6. ToolsShown'
  BY <1>1, <1>3 DEF Settled, ToolsShown
<1>7. AnswerIsLast'
  BY <1>1, <1>4, <1>5 DEF Settled, AnswerIsLast
<1>8. NothingElse'
  BY <1>1, <1>3, <1>4, <1>5 DEF Settled, NothingElse
<1> QED BY <1>6, <1>7, <1>8 DEF Settled

\* A message is marked: all that was said is said whole now.
LEMMA MarkSays ==
    ASSUME TInv, Control, MessageEnds \/ ToolStarts \/ ToolEnds
    PROVE  /\ agent' = agent /\ active' = active /\ turn' = turn /\ stopped' = stopped
           /\ Len(messages') = Len(messages) /\ Len(messages) \in Nat
           /\ Current' = Current /\ Current = Len(messages) /\ Current \in 1 .. Len(messages)
           /\ \A m \in 1 .. Len(messages) :
                 /\ Same(m) /\ WholeText(m)' = WholeText(m) /\ WholeThinking(m)' = WholeThinking(m)
                 /\ messages'[m].tool = (messages[m].tool \/ (ToolStarts /\ m = Current))
           /\ step' \notin Unsaid /\ (\A m : Spoken(m)')
           /\ messages[Current].turn = turn /\ turn \in Turns
           /\ turn \notin stopped => Listening /\ run.turn = turn
           /\ step \notin {"idle", "begun"}
<1>1. /\ agent' = agent /\ active' = active /\ turn' = turn /\ stopped' = stopped
      /\ step' \notin Unsaid /\ step \notin {"idle", "begun"}
  BY DEF MessageEnds, ToolStarts, ToolEnds, Streamed, Unsaid
<1>2. /\ Len(messages') = Len(messages) /\ Len(messages) \in 1 .. MaxMessages
      /\ Current = Len(messages) /\ step \in SpeakingSteps
      /\ \A m \in 1 .. Len(messages) :
            /\ messages'[m].turn = messages[m].turn
            /\ messages'[m].thought = messages[m].thought
            /\ messages'[m].sent = messages[m].sent
            /\ messages'[m].tool = (messages[m].tool \/ (ToolStarts /\ m = Current))
  BY MarkedSame
<1>3. \A m \in 1 .. Len(messages) :
         Same(m) /\ WholeText(m)' = WholeText(m) /\ WholeThinking(m)' = WholeThinking(m)
  BY <1>2 DEF Same, WholeText, WholeThinking
<1>4. \A m : Spoken(m)'
  BY <1>1 DEF Spoken
<1>5. messages[Current].turn = turn /\ turn \in Turns
  BY <1>1, <1>2 DEF Control, MessageOpen, TInv, StepKnown
<1>6. turn \notin stopped => Listening /\ run.turn = turn
  BY <1>1 DEF Control, RunListens, RunOfTurn, Listening
<1>7. Len(messages) \in Nat /\ Current' = Current /\ Current \in 1 .. Len(messages)
  BY <1>2, Bounds DEF Current
<1> QED BY <1>1, <1>2, <1>3, <1>4, <1>5, <1>6, <1>7

LEMMA MarkAnswers ==
    ASSUME TInv, Control, AnswerIsLast, MessageEnds \/ ToolStarts \/ ToolEnds,
           \A t \in Turns : t # turn => answer'[t] = answer[t],
           turn \notin stopped => answer'[turn] = WholeText(Current)
    PROVE  AnswerIsLast'
<1> USE MarkSays
<1>1. \A m \in 1 .. Len(messages) : messages'[m].turn = messages[m].turn
  BY DEF Same
<1>2. SUFFICES ASSUME NEW t \in Turns, t \notin stopped
               PROVE  /\ (\A m \in 1 .. Len(messages) : messages[m].turn # t) => answer'[t] = <<>>
                      /\ \A m \in 1 .. Len(messages) :
                            /\ messages[m].turn = t
                            /\ \A l \in 1 .. Len(messages) : messages[l].turn = t => l <= m
                            => answer'[t] = WholeText(m)
  BY <1>1 DEF AnswerIsLast
<1>3. CASE t = turn
  <2>1. ASSUME NEW m \in 1 .. Len(messages), Current <= m PROVE m = Current
    BY <2>1
  <2> QED BY <1>2, <1>3, <2>1
<1>4. CASE t # turn
  <2>1. \A m \in 1 .. Len(messages) : messages[m].turn = t => Spoken(m)
    BY <1>4 DEF Spoken
  <2> QED BY <1>2, <1>4, <2>1 DEF AnswerIsLast
<1> QED BY <1>3, <1>4

LEMMA MarkRest ==
    ASSUME TInv, Control, NothingElse, MessageEnds \/ ToolStarts \/ ToolEnds,
           \A i \in 1 .. Len(items') :
              /\ agent # "pi" /\ items'[i].kind = "assistant"
              /\ items'[i].turn \in Turns \ stopped
              => \/ items'[i].turn = turn /\ items'[i].text = WholeText(Current)
                 \/ /\ i \in 1 .. Len(items) /\ items'[i] = items[i]
                    /\ ~(step = "text" /\ i = Len(items) /\ items[i].turn = turn)
    PROVE  NothingElse'
<1> USE MarkSays
<1>1. SUFFICES ASSUME agent # "pi", NEW i \in 1 .. Len(items'),
                      items'[i].kind = "assistant", items'[i].turn \in Turns \ stopped
               PROVE  \E m \in 1 .. Len(messages) :
                         messages[m].turn = items'[i].turn /\ items'[i].text = WholeText(m)
  <2>1. \A m \in 1 .. Len(messages) : messages'[m].turn = messages[m].turn
    BY DEF Same
  <2> QED BY <2>1 DEF NothingElse
<1>2. CASE items'[i].turn = turn /\ items'[i].text = WholeText(Current)
  BY <1>2
<1>3. CASE /\ i \in 1 .. Len(items) /\ items'[i] = items[i]
           /\ ~(step = "text" /\ i = Len(items) /\ items[i].turn = turn)
  BY <1>1, <1>3 DEF NothingElse
<1> QED BY <1>1, <1>2, <1>3

\* What the list gets when a message ends: nothing, or its text, after its reasoning
\* if that is sent again.
LEMMA MessageEndsList ==
    ASSUME TInv, Control, MessageEnds, NEW w, w = WholeText(Current)
    PROVE  \/ /\ agent = "codex" /\ text = w
              /\ items' = items /\ answer' = answer
           \/ /\ answer' = IF Listening THEN [answer EXCEPT ![run.turn] = w] ELSE answer
              /\ Has(items', "assistant", w)
              /\ agent = "pi" /\ messages[Current].thought > 0 =>
                    HasFixed(items', "reasoning", WholeThinking(Current))
              /\ Keeps(items, items')
              /\ ToolsOnce(items) => ToolsOnce(items')
              /\ \A m, statuses : HasTool(items, m, statuses) => HasTool(items', m, statuses)
              /\ \A i \in 1 .. Len(items') : items'[i].kind = "tool" =>
                    i \in 1 .. Len(items) /\ items'[i] = items[i]
              /\ agent # "pi" => \E p \in Nat : Puts(items, Assistant(w), p, items')
<1> DEFINE v == WholeThinking(Current)
<1>1. CASE Repeats
  BY <1>1, MessageEndsEffect DEF Repeats
<1>2. Assistant(w).kind = "assistant" /\ Assistant(w).text = w
  BY DEF Assistant, NewItem
<1>3. CASE ~Repeats /\ ~Rethought
  <2>1. PICK p \in Nat : Puts(items, Assistant(w), p, items')
    BY <1>3, MessageEndsEffect
  <2>2. answer' = IF Listening THEN [answer EXCEPT ![run.turn] = w] ELSE answer
    BY <1>3, MessageEndsEffect
  <2>3. Has(items', "assistant", w)
    BY <1>2, <2>1, PutsShows
  <2>4. Keeps(items, items')
    BY <2>1, PutsKeeps DEF Keeps
  <2>5. /\ ToolsOnce(items) => ToolsOnce(items')
        /\ \A m, statuses : HasTool(items, m, statuses) => HasTool(items', m, statuses)
    BY <1>2, <2>1, PutsTools
  <2>6. \A i \in 1 .. Len(items') : items'[i].kind = "tool" =>
           i \in 1 .. Len(items) /\ items'[i] = items[i]
    BY <1>2, <2>1, PutsItems
  <2> QED BY <1>3, <2>1, <2>2, <2>3, <2>4, <2>5, <2>6 DEF Rethought
<1>4. CASE ~Repeats /\ Rethought
  <2>1. PICK list \in Seq(Item), p \in Nat, q \in Nat :
           Puts(items, Reasoning(v), p, list) /\ Puts(list, Assistant(w), q, items')
    BY <1>4, MessageEndsEffect
  <2>2. answer' = IF Listening THEN [answer EXCEPT ![run.turn] = w] ELSE answer
    BY <1>4, MessageEndsEffect
  <2>3. Reasoning(v).kind = "reasoning" /\ Reasoning(v).text = v
    BY DEF Reasoning, NewItem
  <2>4. Has(items', "assistant", w)
    BY <1>2, <2>1, PutsShows
  <2>5. HasFixed(items', "reasoning", v)
    <3>1. Ends(list, "reasoning", v) /\ Has(list, "reasoning", v)
      BY <2>1, <2>3, PutsEnds, PutsShows DEF Words
    <3>2. q = Len(list) + 1
      BY <1>2, <2>1, <3>1, PutsAfter DEF Words, Ends
    <3> QED BY <1>2, <2>1, <3>1, <3>2, PutsFixes
  <2>6. Keeps(items, items')
    <3>1. Keeps(items, list) /\ Keeps(list, items')
      BY <2>1, PutsKeeps DEF Keeps
    <3> QED BY <3>1 DEF Keeps
  <2>7. /\ ToolsOnce(items) => ToolsOnce(items')
        /\ \A m, statuses : HasTool(items, m, statuses) => HasTool(items', m, statuses)
    <3>1. /\ ToolsOnce(items) => ToolsOnce(list)
          /\ \A m, statuses : HasTool(items, m, statuses) => HasTool(list, m, statuses)
      BY <2>1, <2>3, PutsTools
    <3>2. /\ ToolsOnce(list) => ToolsOnce(items')
          /\ \A m, statuses : HasTool(list, m, statuses) => HasTool(items', m, statuses)
      BY <1>2, <2>1, PutsTools
    <3> QED BY <3>1, <3>2
  <2>8. \A i \in 1 .. Len(items') : items'[i].kind = "tool" =>
           i \in 1 .. Len(items) /\ items'[i] = items[i]
    <3>1. \A i \in 1 .. Len(items') : items'[i].kind = "tool" =>
             i \in 1 .. Len(list) /\ items'[i] = list[i]
      BY <1>2, <2>1, PutsItems
    <3>2. \A i \in 1 .. Len(list) : list[i].kind = "tool" =>
             i \in 1 .. Len(items) /\ list[i] = items[i]
      BY <2>1, <2>3, PutsItems
    <3> QED BY <3>1, <3>2
  <2>9. agent = "pi"
    BY <1>4 DEF Rethought
  <2> QED BY <2>2, <2>4, <2>5, <2>6, <2>7, <2>8, <2>9
<1> QED BY <1>1, <1>3, <1>4

LEMMA StreamingWhole ==
    ASSUME TInv, Control, Streaming, MessageEnds
    PROVE  Streaming'
<1>1. PICK w : w = WholeText(Current) /\ w = WholeText(Current)'
  BY MarkSays DEF WholeText
<1>2. PICK v : v = WholeThinking(Current) /\ v = WholeThinking(Current)'
  BY MarkSays DEF WholeThinking
<1>3. step = "text" /\ step' = "whole" /\ Heard(Current)
  BY DEF MessageEnds
<1>4. messages[Current].sent > 0
  BY <1>3 DEF Control, MessageOpen
<1>5. Keeps(items, items')
  BY <1>1, MessageEndsList DEF Keeps
<1>6. ASSUME turn \notin stopped
      PROVE  /\ Has(items', "assistant", w)
             /\ messages[Current].thought > 0 /\ agent # "codex" =>
                   Has(items', "reasoning", v) \/ HasFixed(items', "reasoning", v)
  <2>1. Has(items', "assistant", w)
    <3>1. ASSUME agent = "codex", text = w, items' = items PROVE Has(items', "assistant", w)
      <4>1. w # <<>>
        BY <1>1, <1>4, MarkSays, WholesFilled
      <4>2. Ends(items, "assistant", w)
        BY <1>3, <1>6, <3>1, <4>1 DEF Streaming, TextLast
      <4> QED BY <3>1, <4>2 DEF Ends, Has
    <3> QED BY <1>1, <3>1, MessageEndsList
  <2>2. ASSUME messages[Current].thought > 0, agent \in {"claude", "opencode"}
        PROVE  HasFixed(items', "reasoning", v)
    <3>1. HasFixed(items, "reasoning", v)
      BY <1>2, <1>3, <1>6, <2>2 DEF Streaming, ThoughtFixed
    <3> QED BY <1>5, <3>1 DEF Keeps, Words
  <2>3. ASSUME messages[Current].thought > 0, agent = "pi"
        PROVE  HasFixed(items', "reasoning", v)
    BY <1>1, <1>2, <2>3, MessageEndsList
  <2>4. agent \in {"claude", "codex", "opencode", "pi"}
    BY TimelineAssumption DEF TInv, TypeOK
  <2> QED BY <2>1, <2>2, <2>3, <2>4
<1>7. WholeShown'
  <2>1. ASSUME NEW m \in 1 .. Len(messages'), messages'[m].turn \notin stopped', m = Current
        PROVE  /\ Secure(items', step', "assistant", WholeText(m)')
               /\ messages'[m].thought > 0 /\ agent # "codex" =>
                     Secure(items', step', "reasoning", WholeThinking(m)')
    <3>1. turn \notin stopped /\ messages'[m].thought = messages[Current].thought
      BY <2>1, MarkSays DEF Same
    <3>2. WholeText(m)' = w /\ WholeThinking(m)' = v
      BY <1>1, <1>2, <2>1, MarkSays
    <3> QED BY <1>3, <1>6, <3>1, <3>2 DEF Secure
  <2>2. \A m \in 1 .. Len(messages') : m # Current => Same(m) /\ Spoken(m)
    BY MarkSays DEF Spoken
  <2>3. agent' = agent /\ stopped \subseteq stopped' /\ step \notin {"idle", "whole"}
    BY <1>3, MarkSays
  <2> QED BY <1>5, <2>1, <2>2, <2>3, WholesStay DEF Streaming
<1>8. ThoughtFixed' /\ ThoughtLast' /\ TextLast'
  BY <1>3 DEF ThoughtFixed, ThoughtLast, TextLast
<1>9. ThinkingOld'
  <2>1. thinking' = thinking \/ thinking' = v
    BY <1>2, MessageEndsEffect
  <2>2. \A k \in 1 .. Len(v) : v[k][1] \in 1 .. Len(messages')
    <3>1. \A k \in 1 .. Len(v) : v[k][1] = Current
      BY <1>2, MarkSays, WholesFilled
    <3> QED BY <3>1, MarkSays
  <2>3. \A k \in 1 .. Len(thinking) : thinking[k][1] \in 1 .. Len(messages')
    BY MarkSays DEF Streaming, ThinkingOld
  <2> QED BY <2>1, <2>2, <2>3 DEF ThinkingOld
<1> QED BY <1>7, <1>8, <1>9 DEF Streaming

LEMMA SettledWhole ==
    ASSUME TInv, Control, Streaming, Settled, MessageEnds
    PROVE  Settled'
<1>1. PICK w : w = WholeText(Current)
  BY DEF WholeText
<1>2. step = "text" /\ step' = "whole" /\ ~ToolStarts
  BY DEF MessageEnds, ToolStarts
<1>3. w # <<>>
  <2>1. messages[Current].sent > 0
    BY <1>2 DEF Control, MessageOpen
  <2> QED BY <1>1, <2>1, MarkSays, WholesFilled
<1>4. /\ \A t \in Turns : t # turn => answer'[t] = answer[t]
      /\ turn \notin stopped => answer'[turn] = w
  <2>1. CASE agent = "codex" /\ text = w /\ answer' = answer
    BY <1>2, <1>3, <2>1 DEF Streaming, TextLast
  <2>2. CASE answer' = IF Listening THEN [answer EXCEPT ![run.turn] = w] ELSE answer
    <3>1. answer \in [Turns -> Seq(Piece)] /\ turn \in Turns
      BY MarkSays DEF TInv, TypeOK
    <3>2. Listening => run.turn = turn
      BY DEF Listening, Control, RunOfTurn
    <3>3. turn \notin stopped => Listening
      BY MarkSays
    <3> HIDE DEF Listening
    <3> QED BY <2>2, <3>1, <3>2, <3>3
  <2> QED BY <1>1, <2>1, <2>2, MessageEndsList
<1>5. AnswerIsLast'
  BY <1>1, <1>4, MarkAnswers DEF Settled
<1>6. ToolsShown'
  <2>1. /\ ToolsOnce(items) => ToolsOnce(items')
        /\ \A m, statuses : HasTool(items, m, statuses) => HasTool(items', m, statuses)
        /\ \A i \in 1 .. Len(items') : items'[i].kind = "tool" =>
              i \in 1 .. Len(items) /\ items'[i] = items[i]
    BY <1>1, MessageEndsList
  <2>2. \A m \in 1 .. Len(messages) :
           /\ messages'[m].turn = messages[m].turn
           /\ messages'[m].tool <=> messages[m].tool
    <3>1. \A m \in 1 .. Len(messages) : messages'[m].turn = messages[m].turn
      BY MarkSays DEF Same
    <3>2. \A m \in 1 .. Len(messages) :
             messages'[m].tool = (messages[m].tool \/ (ToolStarts /\ m = Current))
      BY MarkSays
    <3>3. \A m \in 1 .. Len(messages) : messages'[m].tool <=> messages[m].tool
      BY <1>2, <3>2
    <3> QED BY <3>1, <3>3
  <2>3. Len(messages') = Len(messages) /\ stopped' = stopped
    BY MarkSays
  <2> QED BY <1>2, <2>1, <2>2, <2>3 DEF Settled, ToolsShown
<1>7. NothingElse'
  <2>1. ASSUME NEW i \in 1 .. Len(items'), agent # "pi", items'[i].kind = "assistant",
               items'[i].turn \in Turns \ stopped
        PROVE  \/ items'[i].turn = turn /\ items'[i].text = w
               \/ /\ i \in 1 .. Len(items) /\ items'[i] = items[i]
                  /\ ~(step = "text" /\ i = Len(items) /\ items[i].turn = turn)
    <3>1. CASE agent = "codex" /\ text = w /\ items' = items
      BY <1>2, <1>3, <2>1, <3>1 DEF Streaming, TextLast, Ends
    <3>2. CASE \E p \in Nat : Puts(items, Assistant(w), p, items')
      <4>1. PICK p \in Nat : Puts(items, Assistant(w), p, items')
        BY <3>2
      <4>2. /\ Assistant(w).kind = "assistant" /\ Assistant(w).text = w
            /\ Assistant(w).turn = active
        BY DEF Assistant, NewItem
      <4>3. active \in Turns \ stopped => active = turn
        BY <2>1, Bounds, MarkSays DEF Control, Attributed
      <4>4. CASE i = p
        BY <2>1, <4>1, <4>2, <4>3, <4>4 DEF Puts
      <4>5. CASE i # p
        <5>1. i \in 1 .. Len(items) /\ items'[i] = items[i]
          BY <4>1, <4>5 DEF Puts, Replaces
        <5>2. ASSUME i = Len(items), items[i].turn = turn PROVE FALSE
          <6>1. turn \notin stopped /\ active = turn
            BY <2>1, <5>1, <5>2, MarkSays DEF Control, Attributed
          <6>2. Replaces(items, Assistant(w), i)
            BY <2>1, <4>2, <5>1, <5>2, <6>1 DEF Replaces, Words
          <6> QED BY <4>1, <4>2, <4>5, <5>2, <6>2 DEF Puts, Replaces, Words
        <5> QED BY <5>1, <5>2
      <4> QED BY <4>4, <4>5
    <3> QED BY <1>1, <2>1, <3>1, <3>2, MessageEndsList
  <2> QED BY <1>1, <2>1, MarkRest DEF Settled
<1> QED BY <1>5, <1>6, <1>7 DEF Settled

\* A tool call that begins is new, so what was shown stays.
LEMMA ToolIsNew ==
    ASSUME TInv, Control, Settled, ToolStarts
    PROVE  /\ Keeps(items, items') /\ Fixes(items, items')
           /\ ToolsOnce(items')
           /\ \A m, statuses : HasTool(items, m, statuses) => HasTool(items', m, statuses)
           /\ \A i \in 1 .. Len(items') :
                 \/ items'[i].kind = "tool" /\ items'[i].of = Current
                 \/ i \in 1 .. Len(items) /\ i # Len(items') /\ items'[i] = items[i]
           /\ Len(items') = Len(items) + 1 /\ Len(items) \in Nat
           /\ step = "text" => agent = "claude"
           /\ step \in {"whole", "text"} /\ step' = "tool" /\ answer' = answer
<1>1. PICK p \in Nat : Puts(items, ToolCall(Current, "running"), p, items')
  BY ToolStartsEffect
<1>2. PICK x : /\ x = ToolCall(Current, "running")
               /\ x.kind = "tool" /\ x.of = Current /\ x.status = "running"
  <2>1. /\ ToolCall(Current, "running").kind = "tool"
        /\ ToolCall(Current, "running").of = Current
        /\ ToolCall(Current, "running").status = "running"
    BY DEF ToolCall, NewItem
  <2> QED BY <2>1
<1>3. Puts(items, x, p, items')
  BY <1>1, <1>2
<1>4. step \in {"whole", "text"} /\ step' = "tool" /\ (step = "text" => agent = "claude")
  BY DEF ToolStarts
<1>5. ~messages[Current].tool
  BY <1>4 DEF Control, MessageOpen, Unsaid
<1>6. \A q : ~Replaces(items, x, q)
  <2>1. ASSUME NEW q, Replaces(items, x, q) PROVE FALSE
    <3>1. q \in 1 .. Len(items) /\ items[q].kind = "tool" /\ items[q].of = Current
      BY <1>2, <2>1 DEF Replaces
    <3> QED BY <1>5, <3>1 DEF Settled, ToolsShown
  <2> QED BY <2>1
<1>7. p = Len(items) + 1 /\ Len(items') = p /\ items'[p] = x /\ Len(items) \in Nat
  BY <1>3, <1>6 DEF Puts
<1>8. Keeps(items, items')
  BY <1>3, PutsKeeps DEF Keeps
<1>9. Fixes(items, items')
  BY <1>2, <1>3, <1>7, PutsFixes DEF Fixes
<1>10. ToolsOnce(items')
  BY <1>3, PutsTools DEF Settled, ToolsShown
<1>11. \A m, statuses : HasTool(items, m, statuses) => HasTool(items', m, statuses)
  <2>1. ASSUME NEW m, NEW statuses, HasTool(items, m, statuses) PROVE m # Current
    BY <1>5, <2>1 DEF HasTool, Settled, ToolsShown
  <2> QED BY <1>2, <1>3, <2>1, PutsTools
<1>12. \A i \in 1 .. Len(items') :
          \/ items'[i].kind = "tool" /\ items'[i].of = Current
          \/ i \in 1 .. Len(items) /\ i # Len(items') /\ items'[i] = items[i]
  BY <1>2, <1>3, <1>7 DEF Puts
<1>13. answer' = answer
  BY ToolStartsEffect
<1> QED BY <1>4, <1>7, <1>8, <1>9, <1>10, <1>11, <1>12, <1>13

LEMMA StreamingTool ==
    ASSUME TInv, Control, Streaming, Settled, ToolStarts
    PROVE  Streaming'
<1>1. Keeps(items, items') /\ Fixes(items, items')
  BY ToolIsNew
<1>2. step \in {"whole", "text"} /\ step' = "tool" /\ (step = "text" => agent = "claude")
  BY ToolIsNew
<1>3. thinking' = thinking
  BY DEF ToolStarts
<1>4. PICK w : w = WholeText(Current) /\ w = WholeText(Current)'
  BY MarkSays DEF WholeText
<1>5. PICK v : v = WholeThinking(Current) /\ v = WholeThinking(Current)'
  BY MarkSays DEF WholeThinking
<1>6. ASSUME turn \notin stopped, step = "text"
      PROVE  /\ HasFixed(items', "assistant", w)
             /\ messages[Current].thought > 0 => HasFixed(items', "reasoning", v)
  <2>1. HasFixed(items', "assistant", w)
    <3>1. Ends(items, "assistant", w)
      BY <1>2, <1>4, <1>6 DEF Streaming, TextLast
    <3>2. Has(items, "assistant", w)
      BY <3>1 DEF Ends, Has
    <3> QED BY <1>1, <3>2 DEF Fixes, Words
  <2>2. messages[Current].thought > 0 => HasFixed(items', "reasoning", v)
    <3>1. messages[Current].thought > 0 => HasFixed(items, "reasoning", v)
      BY <1>2, <1>5, <1>6 DEF Streaming, ThoughtFixed
    <3> QED BY <1>1, <3>1 DEF Keeps, Words
  <2> QED BY <2>1, <2>2
<1>7. WholeShown'
  <2>1. ASSUME NEW m \in 1 .. Len(messages'), messages'[m].turn \notin stopped', ~Spoken(m)
        PROVE  /\ Secure(items', step', "assistant", WholeText(m)')
               /\ messages'[m].thought > 0 /\ agent # "codex" =>
                     Secure(items', step', "reasoning", WholeThinking(m)')
    <3>1. m = Current /\ step = "text"
      BY <1>2, <2>1 DEF Spoken, Unsaid
    <3>2. turn \notin stopped /\ messages'[m].thought = messages[Current].thought
      BY <2>1, <3>1, MarkSays DEF Same
    <3>3. WholeText(m)' = w /\ WholeThinking(m)' = v
      BY <1>4, <1>5, <3>1, MarkSays
    <3> QED BY <1>6, <3>1, <3>2, <3>3 DEF Secure
  <2>2. \A m \in 1 .. Len(messages') : Same(m)
    BY MarkSays
  <2>3. agent' = agent /\ stopped \subseteq stopped'
    BY MarkSays
  <2> QED BY <1>1, <2>1, <2>2, <2>3, WholesStay DEF Streaming
<1>8. ThoughtFixed' /\ ThoughtLast' /\ TextLast'
  BY <1>2 DEF ThoughtFixed, ThoughtLast, TextLast
<1>9. ThinkingOld'
  BY <1>3, MarkSays DEF Streaming, ThinkingOld
<1> QED BY <1>7, <1>8, <1>9 DEF Streaming

\* The open message is the last of its turn.
LEMMA LastAnswers ==
    ASSUME TInv, Control, AnswerIsLast, step \in SpeakingSteps \ Unsaid, turn \notin stopped
    PROVE  answer[turn] = WholeText(Current)
<1>1. Len(messages) \in Nat /\ Current = Len(messages) /\ Current \in 1 .. Len(messages)
  BY Lengths, Bounds DEF TInv, StepKnown, Current
<1>2. messages[Current].turn = turn /\ Spoken(Current) /\ turn \in Turns
  BY DEF Control, MessageOpen, Spoken, TInv, StepKnown, SpeakingSteps
<1>3. \A l \in 1 .. Len(messages) : l <= Current
  BY <1>1
<1> QED BY <1>1, <1>2, <1>3 DEF AnswerIsLast

LEMMA SettledTool ==
    ASSUME TInv, Control, Streaming, Settled, ToolStarts
    PROVE  Settled'
<1>1. step \in {"whole", "text"} /\ step' = "tool" /\ (step = "text" => agent = "claude")
  BY ToolIsNew
<1>2. answer' = answer
  BY ToolIsNew
<1>3. turn \notin stopped => answer[turn] = WholeText(Current)
  <2>1. CASE step = "text"
    BY <1>1, <2>1 DEF Streaming, TextLast
  <2>2. CASE step = "whole"
    BY <2>2, LastAnswers DEF Settled, SpeakingSteps, Unsaid
  <2> QED BY <1>1, <2>1, <2>2
<1>4. AnswerIsLast'
  BY <1>2, <1>3, MarkAnswers DEF Settled
<1>5. ToolsShown'
  <2>1. Len(messages') = Len(messages) /\ stopped' = stopped /\ Current' = Current
    BY MarkSays
  <2>2. \A m \in 1 .. Len(messages) :
           messages'[m].turn = messages[m].turn
           /\ (messages'[m].tool <=> messages[m].tool \/ m = Current)
    <3>1. \A m \in 1 .. Len(messages) : messages'[m].turn = messages[m].turn
      BY MarkSays DEF Same
    <3>2. \A m \in 1 .. Len(messages) :
             messages'[m].tool = (messages[m].tool \/ (ToolStarts /\ m = Current))
      BY MarkSays
    <3>3. \A m \in 1 .. Len(messages) : messages'[m].tool <=> messages[m].tool \/ m = Current
      BY <3>2
    <3> QED BY <3>1, <3>3
  <2>3. \A i \in 1 .. Len(items') : items'[i].kind = "tool" =>
           items'[i].of \in 1 .. Len(messages') /\ messages'[items'[i].of].tool
    <3>1. Current \in 1 .. Len(messages)
      BY MarkSays
    <3>2. \A i \in 1 .. Len(items') : items'[i].kind = "tool" =>
             \/ items'[i].of = Current
             \/ items'[i].of \in 1 .. Len(messages) /\ messages[items'[i].of].tool
      BY ToolIsNew DEF Settled, ToolsShown
    <3> QED BY <2>1, <2>2, <3>1, <3>2
  <2>4. \A m \in 1 .. Len(messages') : messages'[m].tool =>
           \/ HasTool(items', m, {"completed", "failed"})
           \/ messages'[m].turn \in stopped'
           \/ m = Current' /\ step' = "tool"
    <3>1. \A m \in 1 .. Len(messages) : messages[m].tool =>
             HasTool(items, m, {"completed", "failed"}) \/ messages[m].turn \in stopped
      BY <1>1 DEF Settled, ToolsShown
    <3>2. \A m, statuses : HasTool(items, m, statuses) => HasTool(items', m, statuses)
      BY ToolIsNew
    <3> QED BY <1>1, <2>1, <2>2, <3>1, <3>2
  <2> QED BY <2>3, <2>4, ToolIsNew DEF ToolsShown
<1>6. NothingElse'
  <2>1. ASSUME NEW i \in 1 .. Len(items'), agent # "pi", items'[i].kind = "assistant",
               items'[i].turn \in Turns \ stopped
        PROVE  \/ items'[i].turn = turn /\ items'[i].text = WholeText(Current)
               \/ /\ i \in 1 .. Len(items) /\ items'[i] = items[i]
                  /\ ~(step = "text" /\ i = Len(items) /\ items[i].turn = turn)
    <3>1. i \in 1 .. Len(items) /\ items'[i] = items[i]
      BY <2>1, ToolIsNew
    <3>2. ASSUME step = "text", i = Len(items), items[i].turn = turn
          PROVE  items[i].text = WholeText(Current)
      BY <1>1, <2>1, <3>1, <3>2 DEF Streaming, TextLast, Ends
    <3> QED BY <3>1, <3>2
  <2> QED BY <2>1, MarkRest DEF Settled
<1> QED BY <1>4, <1>5, <1>6 DEF Settled

\* What the list gets when a tool call ends: the rest of claude's message, and the
\* call in the place of the one that began.
LEMMA ToolEndsList ==
    ASSUME TInv, Control, ToolEnds, NEW w, w = WholeText(Current)
    PROVE  /\ Keeps(items, items')
           /\ ToolsOnce(items) => ToolsOnce(items')
           /\ HasTool(items', Current, {"completed", "failed"})
           /\ \A m : HasTool(items, m, {"completed", "failed"})
                        => HasTool(items', m, {"completed", "failed"})
           /\ \A i \in 1 .. Len(items') :
                 \/ i \in 1 .. Len(items) /\ items'[i] = items[i]
                 \/ items'[i].kind = "tool" /\ items'[i].of = Current
                 \/ /\ items'[i].kind = "assistant" /\ items'[i].text = w
                    /\ items'[i].turn = active
           /\ \/ answer' = answer
              \/ answer' = IF Listening THEN [answer EXCEPT ![run.turn] = w] ELSE answer
<1>1. PICK status \in {"completed", "failed"} :
         \/ /\ answer' = answer
            /\ \E p \in Nat : Puts(items, ToolCall(Current, status), p, items')
         \/ /\ answer' = IF Listening THEN [answer EXCEPT ![run.turn] = w] ELSE answer
            /\ \E list \in Seq(Item) : \E p, q \in Nat :
                  /\ Puts(items, Assistant(w), p, list)
                  /\ Puts(list, ToolCall(Current, status), q, items')
  BY ToolEndsEffect
<1>2. /\ ToolCall(Current, status).kind = "tool" /\ ToolCall(Current, status).of = Current
      /\ ToolCall(Current, status).status = status
      /\ Assistant(w).kind = "assistant" /\ Assistant(w).text = w
      /\ Assistant(w).turn = active
  BY DEF ToolCall, Assistant, NewItem
<1>3. PICK list, q :
         /\ Puts(list, ToolCall(Current, status), q, items')
         /\ list = items \/ \E p \in Nat : Puts(items, Assistant(w), p, list)
  BY <1>1
<1>4. /\ Keeps(items, list)
      /\ ToolsOnce(items) => ToolsOnce(list)
      /\ \A m, statuses : HasTool(items, m, statuses) => HasTool(list, m, statuses)
      /\ \A i \in 1 .. Len(list) :
            list[i] = Assistant(w) \/ (i \in 1 .. Len(items) /\ list[i] = items[i])
  <2>1. CASE list = items
    BY <2>1 DEF Keeps
  <2>2. CASE \E p \in Nat : Puts(items, Assistant(w), p, list)
    <3>1. PICK p \in Nat : Puts(items, Assistant(w), p, list)
      BY <2>2
    <3>2. Keeps(items, list)
      BY <3>1, PutsKeeps DEF Keeps
    <3>3. /\ ToolsOnce(items) => ToolsOnce(list)
          /\ \A m, statuses : HasTool(items, m, statuses) => HasTool(list, m, statuses)
      BY <1>2, <3>1, PutsTools
    <3>4. \A i \in 1 .. Len(list) :
             list[i] = Assistant(w) \/ (i \in 1 .. Len(items) /\ list[i] = items[i])
      BY <3>1, PutsItems
    <3> QED BY <3>2, <3>3, <3>4
  <2> QED BY <1>3, <2>1, <2>2
<1>5. Puts(list, ToolCall(Current, status), q, items')
  BY <1>3
<1>6. Keeps(list, items')
  BY <1>5, PutsKeeps DEF Keeps
<1>7. /\ ToolsOnce(list) => ToolsOnce(items')
      /\ \A m : HasTool(list, m, {"completed", "failed"})
                   => HasTool(items', m, {"completed", "failed"})
  BY <1>2, <1>5, PutsTools
<1>8. HasTool(items', Current, {"completed", "failed"})
  <2>1. HasTool(items', Current, {status})
    BY <1>2, <1>5, PutsShows
  <2> QED BY <2>1 DEF HasTool
<1>9. \A i \in 1 .. Len(items') :
         items'[i] = ToolCall(Current, status) \/ (i \in 1 .. Len(list) /\ items'[i] = list[i])
  BY <1>5, PutsItems
<1>10. \A i \in 1 .. Len(items') :
          \/ i \in 1 .. Len(items) /\ items'[i] = items[i]
          \/ items'[i].kind = "tool" /\ items'[i].of = Current
          \/ /\ items'[i].kind = "assistant" /\ items'[i].text = w
             /\ items'[i].turn = active
  BY <1>2, <1>4, <1>9
<1>11. Keeps(items, items')
  BY <1>4, <1>6 DEF Keeps
<1>12. answer' = answer
       \/ answer' = IF Listening THEN [answer EXCEPT ![run.turn] = w] ELSE answer
  BY <1>1
<1> QED BY <1>4, <1>7, <1>8, <1>10, <1>11, <1>12

LEMMA StreamingToolEnds ==
    ASSUME TInv, Control, Streaming, ToolEnds
    PROVE  Streaming'
<1>1. step = "tool" /\ step' = "open" /\ thinking' = thinking
  BY DEF ToolEnds
<1>2. PICK w : w = WholeText(Current)
  OBVIOUS
<1>3. Keeps(items, items')
  BY <1>2, ToolEndsList
<1>4. WholeShown'
  <2>1. \A m \in 1 .. Len(messages') : Same(m) /\ Spoken(m)
    BY <1>1, MarkSays DEF Spoken, Unsaid
  <2>2. agent' = agent /\ stopped \subseteq stopped'
    BY MarkSays
  <2> QED BY <1>1, <1>3, <2>1, <2>2, WholesStay DEF Streaming
<1>5. ThoughtFixed' /\ ThoughtLast' /\ TextLast'
  BY <1>1 DEF ThoughtFixed, ThoughtLast, TextLast
<1>6. ThinkingOld'
  BY <1>1, MarkSays DEF Streaming, ThinkingOld
<1> QED BY <1>4, <1>5, <1>6 DEF Streaming

LEMMA SettledToolEnds ==
    ASSUME TInv, Control, Settled, ToolEnds
    PROVE  Settled'
<1>1. step = "tool" /\ step' = "open" /\ ~ToolStarts
  BY DEF ToolEnds, ToolStarts
<1>2. PICK w : w = WholeText(Current)
  OBVIOUS
<1>3. /\ \A t \in Turns : t # turn => answer'[t] = answer[t]
      /\ turn \notin stopped => answer'[turn] = w
  <2>1. turn \notin stopped => answer[turn] = w
    BY <1>1, <1>2, LastAnswers DEF Settled, SpeakingSteps, Unsaid
  <2>2. answer \in [Turns -> Seq(Piece)] /\ turn \in Turns
    BY MarkSays DEF TInv, TypeOK
  <2>3. Listening => run.turn = turn
    BY DEF Listening, Control, RunOfTurn
  <2>4. answer' = answer
        \/ answer' = IF Listening THEN [answer EXCEPT ![run.turn] = w] ELSE answer
    BY <1>2, ToolEndsList
  <2> HIDE DEF Listening
  <2> QED BY <2>1, <2>2, <2>3, <2>4
<1>4. AnswerIsLast'
  BY <1>2, <1>3, MarkAnswers DEF Settled
<1>5. ToolsShown'
  <2>1. Len(messages') = Len(messages) /\ stopped' = stopped
    BY MarkSays
  <2>2. \A m \in 1 .. Len(messages) :
           /\ messages'[m].turn = messages[m].turn
           /\ messages'[m].tool <=> messages[m].tool
    <3>1. \A m \in 1 .. Len(messages) : messages'[m].turn = messages[m].turn
      BY MarkSays DEF Same
    <3>2. \A m \in 1 .. Len(messages) :
             messages'[m].tool = (messages[m].tool \/ (ToolStarts /\ m = Current))
      BY MarkSays
    <3>3. \A m \in 1 .. Len(messages) : messages'[m].tool <=> messages[m].tool
      BY <1>1, <3>2
    <3> QED BY <3>1, <3>3
  <2>3. messages[Current].tool
    BY <1>1 DEF Control, MessageOpen
  <2>4. \A i \in 1 .. Len(items') : items'[i].kind = "tool" =>
           items'[i].of \in 1 .. Len(messages') /\ messages'[items'[i].of].tool
    <3>1. Current \in 1 .. Len(messages)
      BY MarkSays
    <3>2. \A i \in 1 .. Len(items') : items'[i].kind = "tool" =>
             items'[i].of = Current \/ (i \in 1 .. Len(items) /\ items'[i] = items[i])
      BY <1>2, ToolEndsList
    <3>3. \A i \in 1 .. Len(items') : items'[i].kind = "tool" =>
             items'[i].of \in 1 .. Len(messages) /\ messages[items'[i].of].tool
      BY <2>3, <3>1, <3>2 DEF Settled, ToolsShown
    <3> QED BY <2>1, <2>2, <3>3
  <2>5. \A m \in 1 .. Len(messages') : messages'[m].tool =>
           HasTool(items', m, {"completed", "failed"}) \/ messages'[m].turn \in stopped'
    <3>1. \A m \in 1 .. Len(messages) : messages[m].tool =>
             \/ HasTool(items, m, {"completed", "failed"})
             \/ messages[m].turn \in stopped
             \/ m = Current
      BY DEF Settled, ToolsShown
    <3>2. /\ HasTool(items', Current, {"completed", "failed"})
          /\ \A m : HasTool(items, m, {"completed", "failed"})
                       => HasTool(items', m, {"completed", "failed"})
      BY <1>2, ToolEndsList
    <3> QED BY <2>1, <2>2, <3>1, <3>2
  <2>6. ToolsOnce(items')
    BY <1>2, ToolEndsList DEF Settled, ToolsShown
  <2> QED BY <2>4, <2>5, <2>6 DEF ToolsShown
<1>6. NothingElse'
  <2>1. ASSUME NEW i \in 1 .. Len(items'), agent # "pi", items'[i].kind = "assistant",
               items'[i].turn \in Turns \ stopped
        PROVE  \/ items'[i].turn = turn /\ items'[i].text = w
               \/ /\ i \in 1 .. Len(items) /\ items'[i] = items[i]
                  /\ ~(step = "text" /\ i = Len(items) /\ items[i].turn = turn)
    <3>1. \/ i \in 1 .. Len(items) /\ items'[i] = items[i]
          \/ items'[i].text = w /\ items'[i].turn = active
      BY <1>2, <2>1, ToolEndsList
    <3>2. active \in Turns \ stopped => active = turn
      BY <1>1, <2>1, Bounds DEF Control, Attributed
    <3> QED BY <1>1, <2>1, <3>1, <3>2
  <2> QED BY <1>2, <2>1, MarkRest DEF Settled
<1> QED BY <1>4, <1>5, <1>6 DEF Settled

-----------------------------------------------------------------------------
(* A turn that completed is on the screen                                  *)

\* All of it together is inductive.
ShownInv == TypesAndCards /\ Control /\ Streaming /\ Settled

LEMMA InitShown == Init => ShownInv
<1> SUFFICES ASSUME Init PROVE ShownInv
  OBVIOUS
<1>1. /\ items = <<>> /\ messages = <<>> /\ thinking = <<>> /\ step = "idle"
      /\ answer = [t \in Turns |-> <<>>]
  BY DEF Init
<1>2. /\ \A m \in 1 .. Len(messages) : FALSE
      /\ \A i \in 1 .. Len(items) : FALSE
      /\ \A k \in 1 .. Len(thinking) : FALSE
  BY <1>1
<1>3. Streaming
  BY <1>1, <1>2 DEF Streaming, WholeShown, ThoughtFixed, ThoughtLast, ThinkingOld, TextLast
<1>4. Settled
  <2>1. ToolsShown
    BY <1>2 DEF ToolsShown, ToolsOnce
  <2>2. AnswerIsLast
    BY <1>1, <1>2 DEF AnswerIsLast
  <2>3. NothingElse
    BY <1>2 DEF NothingElse
  <2> QED BY <2>1, <2>2, <2>3 DEF Settled
<1>5. TypesAndCards /\ Control
  BY InitCards, ControlInit
<1> QED BY <1>3, <1>4, <1>5 DEF ShownInv

LEMMA StepShown == ShownInv /\ [Next]_vars => ShownInv'
<1> SUFFICES ASSUME ShownInv, [Next]_vars PROVE ShownInv'
  OBVIOUS
<1>1. TInv /\ CardsOnce /\ Control /\ Streaming /\ Settled
  BY DEF ShownInv, TypesAndCards
<1>2. TypesAndCards'
  BY StepCards DEF ShownInv
<1>3. SUFFICES Control' /\ Streaming' /\ Settled'
  BY <1>2 DEF ShownInv
<1>4. ASSUME NEW t \in Turns, StartTurn(t) PROVE Control' /\ Streaming' /\ Settled'
  BY <1>1, <1>4, ControlStarts, UserShuffles, StreamingShuffled, SettledShuffled
<1>5. CASE \/ AgentBegins \/ StartReturns \/ MessageUpdated \/ TurnEnds \/ Interrupt
           \/ InterruptReturns \/ AgentAborted
  BY <1>1, <1>5, ControlQuiet, QuietSteps, StreamingQuiet, SettledQuiet
<1>6. CASE PermissionAsked
  BY <1>1, <1>6, ControlSpeaks, CardShuffles, StreamingShuffled, SettledShuffled
<1>7. ASSUME NEW n \in pending, RespondToPermission(n) PROVE Control' /\ Streaming' /\ Settled'
  <2>1. Control'
    BY <1>1, <1>7, ControlSpeaks
  <2> QED BY <1>1, <1>7, <2>1, AnswerShuffles, StreamingShuffled, SettledShuffled
<1>8. CASE ReasoningDelta
  BY <1>1, <1>8, ControlSpeaks, StreamingThinks, SettledThinks
<1>9. CASE ReasoningEnds
  BY <1>1, <1>9, ControlSpeaks, StreamingThought, SettledThought
<1>10. CASE TextDelta
  BY <1>1, <1>10, ControlSpeaks, StreamingTells, SettledTells
<1>11. CASE MessageEnds
  BY <1>1, <1>11, ControlSpeaks, StreamingWhole, SettledWhole
<1>12. CASE ToolStarts
  BY <1>1, <1>12, ControlSpeaks, StreamingTool, SettledTool
<1>13. CASE ToolEnds
  BY <1>1, <1>13, ControlSpeaks, StreamingToolEnds, SettledToolEnds
<1>14. CASE UNCHANGED vars
  <2>1. /\ UNCHANGED <<run, outcome, agent, active, text, thinking, roles, items, answer>>
        /\ UNCHANGED <<turn, step, messages, stopped>>
    BY <1>14 DEF vars, said
  <2>2. Quiet
    BY <2>1 DEF Quiet
  <2>3. Control'
    BY <1>1, <2>1 DEF Control, RunOfTurn, RunListens, Listening, Attributed, MessageOpen, Heard,
                      Current
  <2> QED BY <1>1, <2>2, <2>3, StreamingQuiet, SettledQuiet
<1> QED BY <1>4, <1>5, <1>6, <1>7, <1>8, <1>9, <1>10, <1>11, <1>12, <1>13, <1>14 DEF Next, Speaks

\* A set of messages that is not empty has a last one.
LEMMA LastExists ==
    ASSUME NEW n \in Nat, NEW S, S \subseteq 1 .. n, S # {}
    PROVE  \E m \in S : \A l \in S : l <= m
<1> DEFINE R == {p \in Nat \X Nat : p[1] < p[2]}
           T == {n - m : m \in S}
<1>1. IsWellFoundedOn(R, Nat)
  BY NatLessThanWellFounded DEF OpToRel
<1>2. T \subseteq Nat /\ T # {}
  <2>1. \A m \in S : n - m \in Nat
    <3>1. \A m \in 1 .. n : n - m \in Nat
      OBVIOUS
    <3> QED BY <3>1
  <2> QED BY <2>1
<1>3. PICK z \in T : \A y \in T : <<y, z>> \notin R
  BY <1>1, <1>2, WFMin
<1>4. PICK m \in S : z = n - m
  OBVIOUS
<1>5. ASSUME NEW l \in S PROVE l <= m
  <2>1. m \in 1 .. n /\ l \in 1 .. n
    OBVIOUS
  <2>2. n - l \in T /\ n - l \in Nat /\ n - m \in Nat
    BY <1>2, <2>1
  <2>3. <<n - l, n - m>> \notin R
    BY <1>3, <1>4, <2>2
  <2>4. <<n - l, n - m>> \in Nat \X Nat
    BY <2>2
  <2>5. ~(n - l < n - m)
    BY <2>3, <2>4
  <2> QED BY <2>1, <2>5
<1> QED BY <1>5

LEMMA ShownHolds == ShownInv => TurnShown
<1> SUFFICES ASSUME ShownInv, NEW t \in Turns, Completed(t)
             PROVE  /\ \A m \in Of(t) :
                          /\ Shown("assistant", WholeText(m))
                          /\ messages[m].thought > 0 /\ agent # "codex" =>
                                Shown("reasoning", WholeThinking(m))
                          /\ messages[m].tool =>
                                \E i \in DOMAIN items :
                                   /\ items[i].status \in {"completed", "failed"}
                                   /\ \A j \in DOMAIN items :
                                         items[j].kind = "tool" /\ items[j].of = m <=> j = i
                    /\ answer[t] = IF Of(t) = {} THEN <<>>
                                   ELSE WholeText(CHOOSE m \in Of(t) : \A l \in Of(t) : l <= m)
                    /\ agent # "pi" =>
                          \A i \in DOMAIN items :
                             items[i].kind = "assistant" /\ items[i].turn = t =>
                                \E m \in Of(t) : items[i].text = WholeText(m)
  BY DEF TurnShown
<1>1. TInv /\ Control /\ WholeShown /\ ToolsShown /\ AnswerIsLast /\ NothingElse
  BY DEF ShownInv, TypesAndCards, Streaming, Settled
<1>2. t \notin stopped /\ outcome[t] # None
  BY DEF Completed
<1>3. turn = t => step = "idle"
  BY <1>1, <1>2 DEF Control, RunOfTurn, RunListens, Listening
<1>4. /\ DOMAIN items = 1 .. Len(items) /\ DOMAIN messages = 1 .. Len(messages)
      /\ Len(messages) \in Nat
  BY <1>1, Lengths, Bounds DEF TInv
<1>5. \A m : m \in Of(t) <=> m \in 1 .. Len(messages) /\ messages[m].turn = t
  BY <1>4 DEF Of
<1>6. ASSUME NEW m \in Of(t) PROVE Spoken(m) /\ ~(m = Current /\ step = "tool")
  <2>1. m = Current => step \notin SpeakingSteps
    BY <1>1, <1>3, <1>5 DEF Control, MessageOpen, SpeakingSteps
  <2> QED BY <2>1 DEF Spoken, SpeakingSteps, Unsaid
<1>7. \A kind, content, at : Secure(items, at, kind, content) => Shown(kind, content)
  BY <1>4 DEF Secure, Has, HasFixed, Shown
<1>8. ASSUME NEW m \in Of(t)
      PROVE  /\ Shown("assistant", WholeText(m))
             /\ messages[m].thought > 0 /\ agent # "codex" => Shown("reasoning", WholeThinking(m))
  BY <1>1, <1>2, <1>5, <1>6, <1>7 DEF WholeShown
<1>9. ASSUME NEW m \in Of(t), messages[m].tool
      PROVE  \E i \in DOMAIN items :
                /\ items[i].status \in {"completed", "failed"}
                /\ \A j \in DOMAIN items :
                      items[j].kind = "tool" /\ items[j].of = m <=> j = i
  <2>1. HasTool(items, m, {"completed", "failed"})
    BY <1>1, <1>2, <1>5, <1>6, <1>9 DEF ToolsShown
  <2>2. PICK i \in 1 .. Len(items) : /\ items[i].kind = "tool" /\ items[i].of = m
                                     /\ items[i].status \in {"completed", "failed"}
    BY <2>1 DEF HasTool
  <2>3. \A j \in 1 .. Len(items) : items[j].kind = "tool" /\ items[j].of = m => j = i
    BY <1>1, <2>2 DEF ToolsShown, ToolsOnce
  <2> QED BY <1>4, <2>2, <2>3
<1>10. answer[t] = IF Of(t) = {} THEN <<>>
                   ELSE WholeText(CHOOSE m \in Of(t) : \A l \in Of(t) : l <= m)
  <2>1. CASE Of(t) = {}
    BY <1>1, <1>2, <1>5, <2>1 DEF AnswerIsLast
  <2>2. CASE Of(t) # {}
    <3>1. \E m \in Of(t) : \A l \in Of(t) : l <= m
      <4>1. Of(t) \subseteq 1 .. Len(messages)
        BY <1>5
      <4> QED BY <1>4, <2>2, <4>1, LastExists
    <3>2. PICK m : /\ m = (CHOOSE x \in Of(t) : \A l \in Of(t) : l <= x)
                   /\ m \in Of(t) /\ \A l \in Of(t) : l <= m
      BY <3>1
    <3>3. Spoken(m)
      BY <1>6, <3>2
    <3>4. answer[t] = WholeText(m)
      BY <1>1, <1>2, <1>5, <3>2, <3>3 DEF AnswerIsLast
    <3> QED BY <2>2, <3>2, <3>4
  <2> QED BY <2>1, <2>2
<1>11. ASSUME agent # "pi", NEW i \in DOMAIN items,
              items[i].kind = "assistant", items[i].turn = t
       PROVE  \E m \in Of(t) : items[i].text = WholeText(m)
  <2>1. ~(step = "text" /\ items[i].turn = turn)
    BY <1>3, <1>11
  <2> QED BY <1>1, <1>2, <1>4, <1>5, <1>11, <2>1 DEF NothingElse
<1> QED BY <1>8, <1>9, <1>10, <1>11

\* A turn that completed is on the screen as the agent said it: of what the deltas and the
\* events of the agent emit, emitTimeline and appendTimelineItem leave every message whole
\* with its reasoning, every tool call once and ended, and the last message in finalText,
\* for any number of turns, messages and pieces and however they race the answer to the
\* prompt or follow an interrupt (Timeline.TurnShown).
THEOREM TurnShownAlways == Spec => []TurnShown
<1>1. Init => ShownInv
  BY InitShown
<1>2. ShownInv /\ [Next]_vars => ShownInv'
  BY StepShown
<1>3. ShownInv => TurnShown
  BY ShownHolds
<1> QED BY <1>1, <1>2, <1>3, PTL DEF Spec

=============================================================================
