--------------------------- MODULE TransformProofs ---------------------------
(***************************************************************************)
(* A valid module comes out of Transform valid, with as many memories: for  *)
(* every source, every set of invoke_* imports and arguments of any length. *)
(*                                                                          *)
(* The inductive invariant IInv says that from the imports on every stage   *)
(* leaves a valid module and counts its imported functions (StagesSound);   *)
(* that the memory taken from the imports is the one that is missing until  *)
(* it is defined (MemoryOwed); and that no name that is still to be         *)
(* exported is taken (NamesFree).  One lemma for each kind of edit shows    *)
(* that it keeps a module valid: a function more, an item more, another     *)
(* list of imports, a memory section in its place.                          *)
(*                                                                          *)
(* Its imports are answered by functions of their types: once a trampoline  *)
(* is added it is behind its export (AddedIsOffered), and it stays there    *)
(* because later stages only append to what indexes refer to (Grows).       *)
(*                                                                          *)
(* The launcher finds what the source exports: no stage adds a name it      *)
(* looks for or moves an index (NamesStand), so a _start that is added is   *)
(* the one written for the functions of the source (StartAdded).  The       *)
(* arguments it lays out are those main finds, and what it calls, with      *)
(* which operands, is followed instruction by instruction (Runs).           *)
(***************************************************************************)
EXTENDS Transform, CodecProofs, SequenceTheorems, FiniteSetTheorems, TLAPS

\* A set of natural numbers has a least element, and some of a list a last one.
LEMMA FirstIsLeast ==
    ASSUME NEW P \in SUBSET Nat, P # {}
    PROVE  First(P) \in P /\ \A j \in P : First(P) <= j
<1>1. \E i \in P : \A j \in P : i <= j
  BY LeastElement
<1> QED
  BY <1>1 DEF First

LEMMA LastIsGreatest ==
    ASSUME NEW n \in Nat, NEW P \in SUBSET (1..n), P # {}
    PROVE  Last(P) \in P /\ \A j \in P : j <= Last(P)
<1> DEFINE Q == {n - i : i \in P}
<1>1. Q \in SUBSET Nat /\ Q # {}
  <2>1. \A i \in P : n - i \in Nat
    OBVIOUS
  <2>2. Q \subseteq Nat
    BY <2>1
  <2>3. PICK i \in P : TRUE
    OBVIOUS
  <2>4. n - i \in Q
    OBVIOUS
  <2> QED
    BY <2>2, <2>4
<1>2. PICK q \in Q : \A r \in Q : q <= r
  <2> HIDE DEF Q
  <2> QED
    BY <1>1, LeastElement
<1>3. PICK i \in P : q = n - i
  OBVIOUS
<1>4. \A j \in P : j <= i
  <2> SUFFICES ASSUME NEW j \in P PROVE j <= i
    OBVIOUS
  <2>1. n - j \in Q
    OBVIOUS
  <2>2. n - i <= n - j
    BY <2>1, <1>2, <1>3
  <2> QED
    BY <2>2
<1> QED
  BY <1>4 DEF Last

-----------------------------------------------------------------------------
(* Lists *)

LEMMA ListIsSeq ==
    ASSUME NEW s, IsList(s), NEW S, \A i \in 1..Len(s) : s[i] \in S
    PROVE  s \in Seq(S)
<1>1. s \in [1..Len(s) -> S] /\ Len(s) \in Nat
  BY DEF IsList
<1> QED
  BY <1>1, SeqDef

LEMMA SeqIsList ==
    ASSUME NEW S, NEW s \in Seq(S)
    PROVE  IsList(s)
  BY LenProperties DEF IsList

LEMMA ListOf ==
    ASSUME NEW f, NEW n \in Nat, f = [i \in 1..n |-> f[i]]
    PROVE  IsList(f) /\ Len(f) = n
<1> DEFINE S == {f[i] : i \in 1..n}
<1>1. f \in [1..n -> S]
  OBVIOUS
<1>2. f \in Seq(S) /\ DOMAIN f = 1..n
  BY <1>1, SeqDef
<1>3. Len(f) \in Nat /\ 1..Len(f) = 1..n
  BY <1>2, LenProperties
<1>4. Len(f) = n
  <2> HIDE DEF S
  <2> QED
    BY <1>3
<1> QED
  BY <1>4 DEF IsList

LEMMA ListAppend ==
    ASSUME NEW s, IsList(s), NEW x
    PROVE  /\ IsList(Append(s, x)) /\ Len(Append(s, x)) = Len(s) + 1
           /\ \A i \in 1..Len(s) : Append(s, x)[i] = s[i]
           /\ Append(s, x)[Len(s) + 1] = x
<1> DEFINE S == {s[i] : i \in 1..Len(s)} \cup {x}
<1>1. s \in Seq(S) /\ x \in S
  BY ListIsSeq
<1> HIDE DEF S
<1>2. Append(s, x) \in Seq(S) /\ Len(Append(s, x)) = Len(s) + 1
  BY <1>1
<1>3. \A i \in 1..(Len(s) + 1) : Append(s, x)[i] = IF i <= Len(s) THEN s[i] ELSE x
  BY <1>1
<1>4. IsList(Append(s, x)) /\ Len(s) \in Nat
  <2> DEFINE t == Append(s, x)
  <2>1. t \in Seq(S)
    BY <1>2
  <2> HIDE DEF t
  <2>2. IsList(t)
    BY <2>1, SeqIsList
  <2> QED
    BY <2>2 DEF t, IsList
<1> QED
  BY <1>2, <1>3, <1>4

LEMMA ListInsert ==
    ASSUME NEW s, IsList(s), NEW x, NEW at \in 1..(Len(s) + 1)
    PROVE  /\ IsList(Lists!InsertAt(s, at, x)) /\ Len(Lists!InsertAt(s, at, x)) = Len(s) + 1
           /\ \A i \in 1..(Len(s) + 1) :
                Lists!InsertAt(s, at, x)[i] = IF i < at THEN s[i] ELSE IF i = at THEN x ELSE s[i - 1]
<1> DEFINE S == {s[i] : i \in 1..Len(s)} \cup {x}
           a == SubSeq(s, 1, at - 1)
           b == SubSeq(s, at, Len(s))
<1>1. s \in Seq(S) /\ Len(s) \in Nat /\ <<x>> \in Seq(S) /\ Len(<<x>>) = 1
  BY ListIsSeq DEF IsList
<1>a. \A i \in 1..Len(s) : s[i] \in S
  OBVIOUS
<1> HIDE DEF S
<1>2. a \in Seq(S) /\ Len(a) = at - 1 /\ \A i \in 1..(at - 1) : a[i] = s[i]
  <2>1. /\ a \in Seq(S) /\ Len(a) = IF 1 <= at - 1 THEN at - 1 - 1 + 1 ELSE 0
        /\ \A i \in 1..(at - 1 - 1 + 1) : a[i] = s[1 + i - 1]
    BY <1>1, <1>a, SubSeqProperties
  <2> HIDE DEF a
  <2> QED
    BY <2>1, <1>1
<1>3. /\ b \in Seq(S) /\ Len(b) = Len(s) - at + 1
      /\ \A i \in 1..(Len(s) - at + 1) : b[i] = s[at + i - 1]
  <2>1. /\ b \in Seq(S) /\ Len(b) = IF at <= Len(s) THEN Len(s) - at + 1 ELSE 0
        /\ \A i \in 1..(Len(s) - at + 1) : b[i] = s[at + i - 1]
    BY <1>1, <1>a, SubSeqProperties
  <2> HIDE DEF b
  <2> QED
    BY <2>1, <1>1
<1>4. Lists!InsertAt(s, at, x) = (a \o <<x>>) \o b
  BY DEF Lists!InsertAt
<1> HIDE DEF a, b
<1>5. /\ a \o <<x>> \in Seq(S) /\ Len(a \o <<x>>) = at
      /\ \A i \in 1..at : (a \o <<x>>)[i] = IF i < at THEN s[i] ELSE x
  <2>1. /\ a \o <<x>> \in Seq(S) /\ Len(a \o <<x>>) = Len(a) + 1
        /\ \A i \in 1..(Len(a) + 1) :
             (a \o <<x>>)[i] = IF i <= Len(a) THEN a[i] ELSE <<x>>[i - Len(a)]
    BY <1>1, <1>2, ConcatProperties
  <2>2. Len(a) = at - 1 /\ at \in Int /\ <<x>>[1] = x
    BY <1>1, <1>2
  <2> QED
    BY <2>1, <2>2, <1>2
<1> DEFINE c == a \o <<x>>
<1> HIDE DEF c
<1>6. /\ c \o b \in Seq(S) /\ Len(c \o b) = Len(c) + Len(b)
      /\ \A i \in 1..(Len(c) + Len(b)) : (c \o b)[i] = IF i <= Len(c) THEN c[i] ELSE b[i - Len(c)]
  <2>1. c \in Seq(S) /\ b \in Seq(S)
    BY <1>3, <1>5 DEF c
  <2> QED
    BY <2>1, ConcatProperties
<1>7. /\ Len(c \o b) = Len(s) + 1
      /\ \A i \in 1..(Len(s) + 1) :
            (c \o b)[i] = IF i < at THEN s[i] ELSE IF i = at THEN x ELSE s[i - 1]
  <2>1. Len(c) = at /\ at \in Nat /\ \A i \in 1..at : c[i] = IF i < at THEN s[i] ELSE x
    BY <1>1, <1>5 DEF c
  <2>2. Len(c \o b) = Len(s) + 1
    BY <1>1, <1>3, <1>6, <2>1
  <2>3. ASSUME NEW i \in 1..(Len(s) + 1)
        PROVE  (c \o b)[i] = IF i < at THEN s[i] ELSE IF i = at THEN x ELSE s[i - 1]
    <3>1. CASE i <= at
      BY <1>1, <1>3, <1>6, <2>1, <3>1
    <3>2. CASE i > at
      <4>1. (c \o b)[i] = b[i - at]
        BY <1>1, <1>3, <1>6, <2>1, <3>2
      <4>2. b[i - at] = s[i - 1]
        BY <1>1, <1>3, <3>2
      <4> QED
        BY <4>1, <4>2, <3>2
    <3>3. i <= at \/ i > at
      BY <1>1
    <3> QED
      BY <3>1, <3>2, <3>3
  <2> QED
    BY <2>2, <2>3
<1> QED
  BY <1>4, <1>6, <1>7, SeqIsList DEF c
LEMMA ListRemove ==
    ASSUME NEW s, IsList(s), NEW m \in 1..Len(s)
    PROVE  /\ IsList(Lists!RemoveAt(s, m)) /\ Len(Lists!RemoveAt(s, m)) = Len(s) - 1
           /\ \A i \in 1..(Len(s) - 1) :
                Lists!RemoveAt(s, m)[i] = IF i < m THEN s[i] ELSE s[i + 1]
<1> DEFINE S == {s[i] : i \in 1..Len(s)}
           a == SubSeq(s, 1, m - 1)
           b == SubSeq(s, m + 1, Len(s))
<1>1. s \in Seq(S) /\ Len(s) \in Nat
  BY ListIsSeq DEF IsList
<1>a. \A i \in 1..Len(s) : s[i] \in S
  OBVIOUS
<1> HIDE DEF S
<1>2. a \in Seq(S) /\ Len(a) = m - 1 /\ \A i \in 1..(m - 1) : a[i] = s[i]
  <2>1. /\ a \in Seq(S) /\ Len(a) = IF 1 <= m - 1 THEN m - 1 - 1 + 1 ELSE 0
        /\ \A i \in 1..(m - 1 - 1 + 1) : a[i] = s[1 + i - 1]
    BY <1>1, <1>a, SubSeqProperties
  <2> HIDE DEF a
  <2> QED
    BY <2>1, <1>1
<1>3. b \in Seq(S) /\ Len(b) = Len(s) - m /\ \A i \in 1..(Len(s) - m) : b[i] = s[m + i]
  <2>1. /\ b \in Seq(S) /\ Len(b) = IF m + 1 <= Len(s) THEN Len(s) - (m + 1) + 1 ELSE 0
        /\ \A i \in 1..(Len(s) - (m + 1) + 1) : b[i] = s[(m + 1) + i - 1]
    BY <1>1, <1>a, SubSeqProperties
  <2> HIDE DEF b
  <2> QED
    BY <2>1, <1>1
<1>4. Lists!RemoveAt(s, m) = a \o b
  BY DEF Lists!RemoveAt
<1> HIDE DEF a, b
<1>5. /\ a \o b \in Seq(S) /\ Len(a \o b) = Len(a) + Len(b)
      /\ \A i \in 1..(Len(a) + Len(b)) : (a \o b)[i] = IF i <= Len(a) THEN a[i] ELSE b[i - Len(a)]
  BY <1>2, <1>3, ConcatProperties
<1>6. Len(a \o b) = Len(s) - 1
  BY <1>1, <1>2, <1>3, <1>5
<1>7. ASSUME NEW i \in 1..(Len(s) - 1)
      PROVE  (a \o b)[i] = IF i < m THEN s[i] ELSE s[i + 1]
  <2>1. CASE i < m
    BY <1>1, <1>2, <1>3, <1>5, <2>1
  <2>2. CASE i >= m
    <3>1. (a \o b)[i] = b[i - (m - 1)]
      BY <1>1, <1>2, <1>3, <1>5, <2>2
    <3>2. b[i - (m - 1)] = s[i + 1]
      BY <1>1, <1>3, <2>2
    <3> QED
      BY <3>1, <3>2, <2>2
  <2>3. i < m \/ i >= m
    BY <1>1
  <2> QED
    BY <2>1, <2>2, <2>3
<1>8. IsList(a \o b)
  <2> DEFINE t == a \o b
  <2>1. t \in Seq(S)
    BY <1>5
  <2> HIDE DEF t
  <2>2. IsList(t)
    BY <2>1, SeqIsList
  <2> QED
    BY <2>2 DEF t
<1> QED
  BY <1>4, <1>6, <1>7, <1>8

-----------------------------------------------------------------------------
(* Sections *)

\* The same sections in the same order, with other items.
SameIds(ss, tt) == Len(tt) = Len(ss) /\ \A i \in 1..Len(ss) : tt[i].id = ss[i].id

\* tt is ss with other items in its first section id.
Edited(ss, tt, id, items) ==
    /\ Sectioned(tt) /\ SameIds(ss, tt)
    /\ Items(tt, id) = items
    /\ \A k \in 0..13 : k # id => Items(tt, k) = Items(ss, k)

LEMMA SameIdsSame ==
    ASSUME NEW ss, NEW tt, SameIds(ss, tt)
    PROVE  /\ \A k : /\ Indexes(tt, k) = Indexes(ss, k) /\ (Has(tt, k) <=> Has(ss, k))
                    /\ SectionIndex(tt, k) = SectionIndex(ss, k)
           /\ InOrder(ss) => InOrder(tt)
<1>1. \A k : Indexes(tt, k) = Indexes(ss, k)
  BY DEF SameIds, Indexes
<1>2. InOrder(ss) => InOrder(tt)
  BY DEF SameIds, InOrder
<1> QED
  BY <1>1, <1>2 DEF Has, SectionIndex

LEMMA SectionIndexes ==
    ASSUME NEW ss, Sectioned(ss), NEW k, Has(ss, k)
    PROVE  SectionIndex(ss, k) \in 1..Len(ss) /\ ss[SectionIndex(ss, k)].id = k
<1>1. Indexes(ss, k) \in SUBSET Nat /\ Indexes(ss, k) # {}
  BY DEF Indexes, Has
<1>2. First(Indexes(ss, k)) \in Indexes(ss, k)
  BY <1>1, FirstIsLeast
<1> QED
  BY <1>2 DEF SectionIndex, Indexes

LEMMA ItemsAreList ==
    ASSUME NEW ss, Sectioned(ss), NEW k
    PROVE  IsList(Items(ss, k)) /\ Len(Items(ss, k)) \in Nat
<1>1. IsList(<< >>)
  BY DEF IsList
<1>2. IsList(Items(ss, k))
  BY <1>1, SectionIndexes DEF Items, Sectioned
<1> QED
  BY <1>2 DEF IsList

LEMMA ReplacedItems ==
    ASSUME NEW ss, Sectioned(ss), NEW k, Has(ss, k), NEW items, IsList(items)
    PROVE  Edited(ss, [ss EXCEPT ![SectionIndex(ss, k)].items = items], k, items)
<1> DEFINE at == SectionIndex(ss, k)
           section == [id |-> k, items |-> items]
           tt == [ss EXCEPT ![at] = section]
<1>1. at \in 1..Len(ss) /\ ss[at].id = k
  BY SectionIndexes
<1>2. /\ Len(ss) \in Nat /\ ss = [i \in 1..Len(ss) |-> ss[i]]
      /\ \A i \in 1..Len(ss) : /\ ss[i] = [id |-> ss[i].id, items |-> ss[i].items]
                               /\ ss[i].id \in 0..13 /\ IsList(ss[i].items)
  BY DEF Sectioned, IsList
<1>3. [ss EXCEPT ![at].items = items] = tt
  <2>1. [ss[at] EXCEPT !.items = items] = section
    <3>1. ss[at] = [id |-> k, items |-> ss[at].items]
      BY <1>1, <1>2
    <3> QED
      BY <3>1
  <2> QED
    BY <2>1
<1> HIDE DEF at
<1>4. /\ tt = [i \in 1..Len(ss) |-> tt[i]] /\ tt[at] = section
      /\ \A i \in 1..Len(ss) : i # at => tt[i] = ss[i]
  BY <1>1, <1>2
<1> HIDE DEF tt
<1>5. IsList(tt) /\ Len(tt) = Len(ss)
  BY <1>2, <1>4, ListOf
<1>6. Sectioned(tt) /\ SameIds(ss, tt)
  BY <1>1, <1>2, <1>4, <1>5 DEF Sectioned, SameIds
<1>7. \A j : (Has(tt, j) <=> Has(ss, j)) /\ SectionIndex(tt, j) = SectionIndex(ss, j)
  BY <1>6, SameIdsSame
<1>8. Items(tt, k) = items
  BY <1>4, <1>7 DEF Items, at
<1>9. \A j \in 0..13 : j # k => Items(tt, j) = Items(ss, j)
  <2> SUFFICES ASSUME NEW j \in 0..13, j # k, Has(ss, j) PROVE tt[SectionIndex(ss, j)] = ss[SectionIndex(ss, j)]
    BY <1>7 DEF Items
  <2>1. SectionIndex(ss, j) \in 1..Len(ss) /\ ss[SectionIndex(ss, j)].id = j
    BY SectionIndexes
  <2> QED
    BY <2>1, <1>1, <1>4
<1>10. [ss EXCEPT ![SectionIndex(ss, k)].items = items] = tt
  BY <1>3 DEF at
<1> QED
  BY <1>6, <1>8, <1>9, <1>10 DEF Edited

LEMMA AppendedItem ==
    ASSUME NEW ss, Sectioned(ss), NEW k, Has(ss, k), NEW item
    PROVE  Edited(ss, Appended(ss, k, item), k, Append(Items(ss, k), item))
<1>1. Items(ss, k) = ss[SectionIndex(ss, k)].items
  BY DEF Items
<1>2. IsList(Items(ss, k))
  BY ItemsAreList
<1>3. IsList(Append(Items(ss, k), item))
  BY <1>2, ListAppend
<1>4. Appended(ss, k, item) =
        [ss EXCEPT ![SectionIndex(ss, k)].items = Append(Items(ss, k), item)]
  BY <1>1 DEF Appended
<1> DEFINE items == Append(Items(ss, k), item)
<1>5. IsList(items)
  BY <1>3
<1> HIDE DEF items
<1>6. Edited(ss, [ss EXCEPT ![SectionIndex(ss, k)].items = items], k, items)
  BY <1>5, ReplacedItems
<1> QED
  BY <1>4, <1>6 DEF items

\* What adding a function does to the sections.
LEMMA AddedFunction ==
    ASSUME NEW ss, Sectioned(ss), CanAdd(ss), NEW type, NEW name, NEW body,
           NEW tt, tt = AddFunction(ss, type, name, body),
           NEW export, export = [name |-> name, kind |-> "func", index |-> NewIndex(ss)]
    PROVE  /\ Sectioned(tt) /\ SameIds(ss, tt)
           /\ Items(tt, FunctionId) = Append(Items(ss, FunctionId), type)
           /\ Items(tt, ExportId) = Append(Items(ss, ExportId), export)
           /\ Items(tt, CodeId) = Append(Items(ss, CodeId), body)
           /\ \A k \in (0..13) \ {FunctionId, ExportId, CodeId} : Items(tt, k) = Items(ss, k)
<1> DEFINE typed == Appended(ss, FunctionId, type)
           named == Appended(typed, ExportId, [name |-> name, kind |-> "func", index |-> NewIndex(ss)])
<1>0. tt = Appended(named, CodeId, body) /\ named = Appended(typed, ExportId, export)
  BY DEF AddFunction
<1>1. Edited(ss, typed, FunctionId, Append(Items(ss, FunctionId), type))
  BY AppendedItem DEF CanAdd
<1> HIDE DEF typed, named
<1>2. Sectioned(typed) /\ Has(typed, ExportId) /\ Has(typed, CodeId)
  BY <1>1, SameIdsSame DEF Edited, CanAdd
<1>3. Edited(typed, named, ExportId, Append(Items(typed, ExportId), export))
  BY <1>0, <1>2, AppendedItem
<1>4. Sectioned(named) /\ Has(named, CodeId)
  BY <1>2, <1>3, SameIdsSame DEF Edited
<1>5. Edited(named, tt, CodeId, Append(Items(named, CodeId), body))
  BY <1>0, <1>4, AppendedItem
<1>6. SameIds(ss, tt)
  BY <1>1, <1>3, <1>5 DEF Edited, SameIds
<1>7. {FunctionId, ExportId, CodeId} \subseteq 0..13 /\ FunctionId # ExportId
      /\ FunctionId # CodeId /\ ExportId # CodeId
  BY DEF FunctionId, ExportId, CodeId
<1> QED
  BY <1>1, <1>3, <1>5, <1>6, <1>7 DEF Edited

-----------------------------------------------------------------------------
(* Growth *)

Begins(s, t) == Len(s) <= Len(t) /\ \A i \in 1..Len(s) : t[i] = s[i]

\* The imports stay, and nothing moves in the sections that indexes refer to.
Grows(ss, tt) ==
    /\ Items(tt, ImportId) = Items(ss, ImportId)
    /\ \A k \in {TypeId, FunctionId, ExportId, CodeId} : Begins(Items(ss, k), Items(tt, k))

LEMMA BeginsAppended ==
    ASSUME NEW s, IsList(s), NEW x
    PROVE  Begins(s, s) /\ Begins(s, Append(s, x))
<1>1. Len(s) \in Nat
  BY DEF IsList
<1> QED
  BY <1>1, ListAppend DEF Begins

LEMMA GrowsSelf ==
    ASSUME NEW ss, Sectioned(ss)
    PROVE  Grows(ss, ss)
<1>1. \A k : Begins(Items(ss, k), Items(ss, k))
  BY ItemsAreList, BeginsAppended
<1> QED
  BY <1>1 DEF Grows

LEMMA GrowsOn ==
    ASSUME NEW ss, Sectioned(ss), NEW tt, Sectioned(tt), NEW uu, Sectioned(uu),
           Grows(ss, tt), Grows(tt, uu)
    PROVE  Grows(ss, uu)
<1> SUFFICES ASSUME NEW k \in {TypeId, FunctionId, ExportId, CodeId}
             PROVE  Begins(Items(ss, k), Items(uu, k))
  BY DEF Grows
<1> DEFINE a == Items(ss, k)
           b == Items(tt, k)
           c == Items(uu, k)
<1>1. Begins(a, b) /\ Begins(b, c)
  BY DEF Grows
<1>2. Len(a) \in Nat /\ Len(b) \in Nat /\ Len(c) \in Nat
  BY ItemsAreList
<1> HIDE DEF a, b, c
<1>3. Begins(a, c)
  BY <1>1, <1>2 DEF Begins
<1> QED
  BY <1>3 DEF a, c

-----------------------------------------------------------------------------
(* Validity *)

\* A valid module whose imported functions are counted.
Sound(ss, count) ==
    WellFormed(ss) /\ Valid(ss) /\ count = Cardinality(Imported(ss, "func"))

LEMMA ImportsAreFinite ==
    ASSUME NEW ss, Sectioned(ss), NEW what
    PROVE  IsFiniteSet(Imported(ss, what)) /\ Cardinality(Imported(ss, what)) \in Nat
<1>1. Len(Items(ss, ImportId)) \in Nat
  BY ItemsAreList
<1>2. IsFiniteSet(1..Len(Items(ss, ImportId)))
  BY <1>1, FS_Interval
<1>3. IsFiniteSet(Imported(ss, what))
  BY <1>2, FS_Subset DEF Imported
<1> QED
  BY <1>3, FS_CardinalityType

\* A function that is added under a new name, with a type that is there.
LEMMA SoundWithFunction ==
    ASSUME NEW ss, Sound(ss, functionCount), CanAdd(ss),
           NEW type \in Nat, HasType(ss, type), NEW name, Named(ss, name) = {}, NEW body,
           NEW tt, tt = AddFunction(ss, type, name, body)
    PROVE  /\ Sound(tt, functionCount) /\ Memories(tt) = Memories(ss)
           /\ \A other : other # name => Named(tt, other) = Named(ss, other)
           /\ Grows(ss, tt)
<1> DEFINE export == [name |-> name, kind |-> "func", index |-> NewIndex(ss)]
           F == Items(ss, FunctionId)
           E == Items(ss, ExportId)
           C == Items(ss, CodeId)
<1>0. Sectioned(ss)
  BY DEF Sound, WellFormed
<1>1. /\ Sectioned(tt) /\ SameIds(ss, tt)
      /\ Items(tt, FunctionId) = Append(F, type)
      /\ Items(tt, ExportId) = Append(E, export)
      /\ Items(tt, CodeId) = Append(C, body)
      /\ \A k \in (0..13) \ {FunctionId, ExportId, CodeId} : Items(tt, k) = Items(ss, k)
  BY <1>0, AddedFunction
<1>2. /\ Items(tt, ImportId) = Items(ss, ImportId) /\ Items(tt, TypeId) = Items(ss, TypeId)
      /\ Items(tt, MemoryId) = Items(ss, MemoryId)
  BY <1>1 DEF ImportId, TypeId, MemoryId, FunctionId, ExportId, CodeId
<1>3. /\ IsList(F) /\ Len(F) \in Nat /\ IsList(E) /\ Len(E) \in Nat
      /\ IsList(C) /\ Len(C) \in Nat
  BY ItemsAreList DEF Sound, WellFormed
<1>4. /\ Imported(tt, "func") = Imported(ss, "func") /\ Memories(tt) = Memories(ss)
      /\ functionCount = Cardinality(Imported(ss, "func")) /\ functionCount \in Nat
  BY <1>2, ImportsAreFinite DEF Imported, Memories, Sound, WellFormed
<1>5. NewIndex(ss) = functionCount + Len(F) /\ NewIndex(ss) \in Nat
  BY <1>3, <1>4 DEF NewIndex
<1> HIDE DEF F, E, C
<1> DEFINE F2 == Append(F, type)
           E2 == Append(E, export)
           C2 == Append(C, body)
<1>6. /\ Len(F2) = Len(F) + 1 /\ Len(E2) = Len(E) + 1 /\ Len(C2) = Len(C) + 1
      /\ \A i \in 1..Len(F) : F2[i] = F[i]
      /\ F2[Len(F) + 1] = type
      /\ \A i \in 1..Len(E) : E2[i] = E[i]
      /\ E2[Len(E) + 1] = export
  BY <1>3, ListAppend
<1>7. /\ Items(tt, FunctionId) = F2 /\ Items(tt, ExportId) = E2 /\ Items(tt, CodeId) = C2
      /\ Items(ss, FunctionId) = F /\ Items(ss, ExportId) = E /\ Items(ss, CodeId) = C
  BY <1>1 DEF F, E, C
<1>8. /\ export.name = name /\ export.kind = "func" /\ export.index = functionCount + Len(F)
      /\ export.index \in Nat
  BY <1>5
<1> HIDE DEF F2, E2, C2, export
<1>9. WellFormed(tt)
  <2>1. \A i \in 1..Len(F2) : F2[i] \in Nat
    BY <1>3, <1>6, <1>7 DEF Sound, WellFormed
  <2>2. \A i \in 1..Len(E2) : E2[i].index \in Nat
    BY <1>3, <1>6, <1>7, <1>8 DEF Sound, WellFormed
  <2> QED
    BY <1>1, <1>2, <1>7, <2>1, <2>2 DEF Sound, WellFormed, Types
<1>10. ASSUME NEW other
       PROVE  Named(tt, other) = IF other = name THEN {Len(E) + 1} ELSE Named(ss, other)
  <2>1. Named(tt, other) = {i \in 1..Len(E2) : E2[i].name = other}
    BY <1>7 DEF Named
  <2>2. Named(ss, other) = {i \in 1..Len(E) : E[i].name = other}
    BY <1>7 DEF Named
  <2>3. \A i \in 1..Len(E) : E[i].name # name
    BY <1>7 DEF Named
  <2> QED
    BY <2>1, <2>2, <2>3, <1>3, <1>6, <1>8
<1>12. Grows(ss, tt)
  <2>1. Begins(F, F2) /\ Begins(E, E2) /\ Begins(C, C2)
    BY <1>3, BeginsAppended DEF F2, E2, C2
  <2>2. Begins(Items(ss, TypeId), Items(tt, TypeId))
    <3>1. IsList(Items(ss, TypeId))
      BY <1>0, ItemsAreList
    <3> QED
      BY <3>1, <1>2, BeginsAppended
  <2> QED
    BY <2>1, <2>2, <1>2, <1>7 DEF Grows
<1>11. Valid(tt)
  <2>1. InOrder(tt)
    BY <1>1, SameIdsSame DEF Sound, Valid
  <2>2. Len(F2) = Len(C2)
    BY <1>6, <1>7 DEF Sound, Valid
  <2>3. \A i \in 1..Len(F2) : HasType(tt, F2[i])
    <3>1. \A x : HasType(tt, x) <=> HasType(ss, x)
      BY <1>2 DEF HasType, Types
    <3> QED
      BY <3>1, <1>3, <1>6, <1>7 DEF Sound, Valid
  <2>4. Total(tt) = Total(ss) + 1 /\ Total(ss) = functionCount + Len(F)
    <3>1. Total(ss) = functionCount + Len(F) /\ Total(tt) = functionCount + Len(F2)
      BY <1>4, <1>7 DEF Total
    <3> QED
      BY <3>1, <1>3, <1>4, <1>6
  <2>5. ASSUME NEW i \in 1..Len(E2)
        PROVE  /\ Cardinality(Named(tt, E2[i].name)) = 1
               /\ E2[i].kind = "func" => E2[i].index < Total(tt)
    <3>1. CASE i = Len(E) + 1
      <4>1. E2[i].name = name /\ E2[i].index = functionCount + Len(F)
        BY <3>1, <1>6, <1>8
      <4>2. Cardinality({Len(E) + 1}) = 1
        BY FS_Singleton
      <4>3. Named(tt, E2[i].name) = {Len(E) + 1}
        BY <4>1, <1>10
      <4>4. functionCount + Len(F) < Total(tt)
        BY <2>4, <1>3, <1>4
      <4> QED
        BY <4>1, <4>2, <4>3, <4>4
    <3>2. CASE i \in 1..Len(E)
      <4>1. E2[i] = E[i] /\ E[i].name # name
        BY <3>2, <1>6, <1>7 DEF Named
      <4>2. /\ Cardinality(Named(ss, E[i].name)) = 1
            /\ E[i].kind = "func" => E[i].index < Total(ss)
        BY <3>2, <1>7 DEF Sound, Valid
      <4>3. E[i].index \in Nat
        BY <3>2, <1>7 DEF Sound, WellFormed
      <4> QED
        BY <4>1, <4>2, <4>3, <2>4, <1>3, <1>4, <1>10
    <3> QED
      BY <3>1, <3>2, <1>3, <1>6
  <2> QED
    BY <2>1, <2>2, <2>3, <2>5, <1>7 DEF Valid
<1> QED
  BY <1>4, <1>9, <1>10, <1>11, <1>12 DEF Sound

LEMMA FirstIsUnique ==
    ASSUME NEW P \in SUBSET Nat, NEW q \in P, \A j \in P : q <= j
    PROVE  First(P) = q
<1>1. First(P) \in P /\ \A j \in P : First(P) <= j
  BY FirstIsLeast
<1>2. First(P) \in Nat /\ q \in Nat /\ First(P) <= q /\ q <= First(P)
  BY <1>1
<1> QED
  BY <1>2

\* One more type, or one more segment of data.
LEMMA SoundWithItem ==
    ASSUME NEW ss, Sound(ss, functionCount), NEW k \in {TypeId, DataId}, Has(ss, k), NEW item,
           k = TypeId => IsList(item.params), NEW tt, tt = Appended(ss, k, item)
    PROVE  /\ Sound(tt, functionCount) /\ Memories(tt) = Memories(ss)
           /\ \A name : Named(tt, name) = Named(ss, name)
           /\ \A j : Has(tt, j) <=> Has(ss, j)
           /\ Items(tt, k) = Append(Items(ss, k), item)
           /\ Grows(ss, tt)
<1>1. Sectioned(ss)
  BY DEF Sound, WellFormed
<1>2. Edited(ss, tt, k, Append(Items(ss, k), item))
  BY <1>1, AppendedItem
<1>3. /\ \A j : Has(tt, j) <=> Has(ss, j)
      /\ InOrder(ss) => InOrder(tt)
  BY <1>2, SameIdsSame DEF Edited
<1>4. /\ Items(tt, ImportId) = Items(ss, ImportId) /\ Items(tt, FunctionId) = Items(ss, FunctionId)
      /\ Items(tt, ExportId) = Items(ss, ExportId) /\ Items(tt, CodeId) = Items(ss, CodeId)
      /\ Items(tt, MemoryId) = Items(ss, MemoryId)
  BY <1>2 DEF Edited, ImportId, FunctionId, ExportId, CodeId, MemoryId, TypeId, DataId
<1>5. Len(Items(ss, k)) \in Nat /\ Len(Append(Items(ss, k), item)) = Len(Items(ss, k)) + 1
  BY <1>1, ItemsAreList, ListAppend
<1>6. Len(Types(ss)) \in Nat /\ Len(Types(tt)) \in Nat /\ Len(Types(ss)) <= Len(Types(tt))
  <2>1. CASE k = TypeId
    BY <2>1, <1>2, <1>5 DEF Types, Edited
  <2>2. CASE k = DataId
    <3>1. Types(tt) = Types(ss)
      BY <2>2, <1>2 DEF Types, Edited, TypeId, DataId
    <3> QED
      BY <3>1, <1>1, ItemsAreList DEF Types
  <2> QED
    BY <2>1, <2>2
<1>t. \A i \in 1..Len(Types(tt)) : IsList(Types(tt)[i].params)
  <2>0. \A i \in 1..Len(Types(ss)) : IsList(Types(ss)[i].params)
    BY DEF Sound, WellFormed
  <2>1. CASE k = TypeId
    <3> DEFINE old == Types(ss)
               new == Append(old, item)
    <3>1. IsList(old) /\ Types(tt) = new
      BY <2>1, <1>1, <1>2, ItemsAreList DEF Types, Edited
    <3>2. /\ Len(new) = Len(old) + 1 /\ new[Len(old) + 1] = item
          /\ \A i \in 1..Len(old) : new[i] = old[i]
      BY <3>1, ListAppend
    <3>3. IsList(item.params) /\ Len(old) \in Nat
      BY <2>1, <1>6
    <3>4. \A i \in 1..Len(old) : IsList(old[i].params)
      BY <2>0
    <3> HIDE DEF old, new
    <3>5. \A i \in 1..Len(new) : i = Len(old) + 1 \/ i \in 1..Len(old)
      BY <3>2, <3>3
    <3> QED
      BY <3>1, <3>2, <3>3, <3>4, <3>5
  <2>2. CASE k = DataId
    BY <2>0, <2>2, <1>2 DEF Types, Edited, TypeId, DataId
  <2> QED
    BY <2>1, <2>2
<1>7. WellFormed(tt)
  BY <1>2, <1>4, <1>t DEF Edited, Sound, WellFormed
<1>g. Grows(ss, tt)
  <2>1. \A j : IsList(Items(ss, j))
    BY <1>1, ItemsAreList
  <2>2. \A j \in {FunctionId, ExportId, CodeId} : Begins(Items(ss, j), Items(tt, j))
    BY <2>1, <1>4, BeginsAppended
  <2>3. Begins(Items(ss, TypeId), Items(tt, TypeId))
    <3>1. CASE k = TypeId
      BY <3>1, <2>1, <1>2, BeginsAppended DEF Edited
    <3>2. CASE k = DataId
      <4>1. Items(tt, TypeId) = Items(ss, TypeId)
        BY <3>2, <1>2 DEF Edited, TypeId, DataId
      <4> QED
        BY <4>1, <2>1, BeginsAppended
    <3> QED
      BY <3>1, <3>2
  <2> QED
    BY <2>2, <2>3, <1>4 DEF Grows
<1>8. /\ Imported(tt, "func") = Imported(ss, "func") /\ Memories(tt) = Memories(ss)
      /\ \A name : Named(tt, name) = Named(ss, name) /\ Total(tt) = Total(ss)
  BY <1>4 DEF Imported, Memories, Named, Total
<1>9. \A i \in 1..Len(Items(tt, FunctionId)) : HasType(tt, Items(tt, FunctionId)[i])
  BY <1>4, <1>6 DEF HasType, Sound, Valid, WellFormed
<1>10. Valid(tt)
  BY <1>3, <1>4, <1>8, <1>9 DEF Sound, Valid
<1> QED
  BY <1>2, <1>3, <1>7, <1>8, <1>10, <1>g DEF Sound, Edited

\* Where the standard puts the memory section.
LEMMA MemoryRank ==
    /\ \A k \in 1..13 : Rank(k) \in 1..13
    /\ \A k \in 1..4 : Rank(k) < Rank(MemoryId)
    /\ \A k \in 6..13 : Rank(MemoryId) < Rank(k)
<1>1. Len(Standard) = 13
  BY DEF Standard
<1>2. /\ Standard[1] = 1 /\ Standard[2] = 2 /\ Standard[3] = 3 /\ Standard[4] = 4
      /\ Standard[5] = 5 /\ Standard[6] = 13 /\ Standard[7] = 6 /\ Standard[8] = 7
      /\ Standard[9] = 8 /\ Standard[10] = 9 /\ Standard[11] = 12 /\ Standard[12] = 10
      /\ Standard[13] = 11
  BY DEF Standard
<1>3. /\ Rank(1) = 1 /\ Rank(2) = 2 /\ Rank(3) = 3 /\ Rank(4) = 4 /\ Rank(5) = 5
      /\ Rank(13) = 6 /\ Rank(6) = 7 /\ Rank(7) = 8 /\ Rank(8) = 9 /\ Rank(9) = 10
      /\ Rank(12) = 11 /\ Rank(10) = 12 /\ Rank(11) = 13
  <2>1. \A r, k \in 1..13 : Standard[r] = k => Rank(k) = r
    <3> SUFFICES ASSUME NEW r \in 1..13, NEW q \in 1..13, Standard[q] = Standard[r]
                 PROVE  q = r
      BY <1>1 DEF Rank
    <3> QED
      BY <1>2
  <2> QED
    BY <2>1, <1>2
<1>4. \A k \in 1..13 : k \in {1, 2, 3, 4, 5, 6, 7, 8, 9, 10, 11, 12, 13}
  OBVIOUS
<1> QED
  BY <1>3, <1>4 DEF MemoryId

\* A memory section where there was none.
LEMMA InsertedMemory ==
    ASSUME NEW ss, Sectioned(ss), ~Has(ss, MemoryId), NEW items, IsList(items),
           NEW tt, tt = Inserted(ss, [id |-> MemoryId, items |-> items])
    PROVE  /\ Sectioned(tt)
           /\ InOrder(ss) => InOrder(tt)
           /\ Items(tt, MemoryId) = items /\ Items(ss, MemoryId) = << >>
           /\ \A k : k # MemoryId => Items(tt, k) = Items(ss, k)
<1> DEFINE section == [id |-> MemoryId, items |-> items]
           later == Later(ss, MemoryId)
           at == IF later = {} THEN Len(ss) + 1 ELSE First(later)
<1>1. /\ Sectioned(ss) /\ IsList(ss) /\ Len(ss) \in Nat
      /\ \A i \in 1..Len(ss) : /\ ss[i] = [id |-> ss[i].id, items |-> ss[i].items]
                               /\ ss[i].id \in 0..13 /\ IsList(ss[i].items)
  BY DEF Sectioned, IsList
<1>i. Len(ss) \in Nat /\ \A i \in 1..Len(ss) : ss[i].id \in 0..13
  BY <1>1
<1>2. /\ section.id = MemoryId /\ section.items = items /\ MemoryId = 5
      /\ section = [id |-> section.id, items |-> section.items]
  BY DEF MemoryId
<1>3. tt = Lists!InsertAt(ss, at, section)
  BY <1>2 DEF Inserted
<1>4. /\ at \in 1..(Len(ss) + 1)
      /\ \A i \in 1..Len(ss) : i < at => ss[i].id \in 0..4
      /\ at <= Len(ss) => ss[at].id \in 6..13
  <2>0. later \in SUBSET Nat /\ later = {i \in 1..Len(ss) : ss[i].id > 5}
    BY <1>2 DEF Later
  <2>1. \A i \in 1..Len(ss) : ss[i].id # 5
    BY <1>2 DEF Has, Indexes
  <2>2. CASE later = {}
    <3>1. at = Len(ss) + 1 /\ \A i \in 1..Len(ss) : ~(ss[i].id > 5)
      BY <2>0, <2>2
    <3> HIDE DEF later, at
    <3> QED
      BY <3>1, <2>1, <1>i
  <2>3. CASE later # {}
    <3>1. First(later) \in later /\ \A j \in later : First(later) <= j
      BY <2>0, <2>3, FirstIsLeast
    <3>2. at = First(later)
      BY <2>3
    <3> HIDE DEF later, at
    <3>3. at \in 1..Len(ss) /\ ss[at].id > 5 /\ \A i \in 1..Len(ss) : ss[i].id > 5 => at <= i
      BY <2>0, <3>1, <3>2
    <3>4. \A i \in 1..Len(ss) : i < at => ss[i].id \in 0..4
      <4> SUFFICES ASSUME NEW i \in 1..Len(ss), i < at PROVE ss[i].id \in 0..4
        OBVIOUS
      <4>1. ss[i].id \in 0..13 /\ ~(ss[i].id > 5) /\ ss[i].id # 5
        BY <3>3, <2>1, <1>i
      <4> QED
        BY <4>1
    <3>5. ss[at].id \in 6..13
      BY <3>3, <1>i
    <3> QED
      BY <3>3, <3>4, <3>5, <1>i
  <2> QED
    BY <2>2, <2>3
<1> HIDE DEF section, later, at
<1>a. at \in Nat /\ 1 <= at /\ at <= Len(ss) + 1
  BY <1>4, <1>i
<1>5. /\ IsList(tt) /\ Len(tt) = Len(ss) + 1
      /\ \A i \in 1..(Len(ss) + 1) :
           tt[i] = IF i < at THEN ss[i] ELSE IF i = at THEN section ELSE ss[i - 1]
  <2> DEFINE inserted == Lists!InsertAt(ss, at, section)
  <2>1. IsList(ss) /\ at \in 1..(Len(ss) + 1)
    BY <1>1, <1>4
  <2>2. /\ IsList(inserted) /\ Len(inserted) = Len(ss) + 1
        /\ \A i \in 1..(Len(ss) + 1) :
             inserted[i] = IF i < at THEN ss[i] ELSE IF i = at THEN section ELSE ss[i - 1]
    BY <2>1, ListInsert
  <2>3. tt = inserted
    BY <1>3
  <2> HIDE DEF inserted
  <2> QED
    BY <2>2, <2>3
<1>6. Sectioned(tt)
  <2> SUFFICES ASSUME NEW i \in 1..Len(tt)
               PROVE  /\ tt[i] = [id |-> tt[i].id, items |-> tt[i].items]
                      /\ tt[i].id \in 0..13 /\ IsList(tt[i].items)
    BY <1>5 DEF Sectioned
  <2>1. tt[i] = section \/ \E j \in 1..Len(ss) : tt[i] = ss[j]
    BY <1>1, <1>4, <1>5
  <2> QED
    BY <2>1, <1>1, <1>2
<1>7. ASSUME NEW k, k # MemoryId
      PROVE  Items(tt, k) = Items(ss, k)
  <2> DEFINE Shift(i) == IF i < at THEN i ELSE i + 1
  <2>1. ASSUME NEW i \in 1..Len(ss)
        PROVE  Shift(i) \in 1..Len(tt) /\ tt[Shift(i)] = ss[i]
    <3>1. CASE i < at
      BY <3>1, <1>i, <1>a, <1>5
    <3>2. CASE i >= at
      <4>1. Shift(i) = i + 1 /\ i + 1 \in 1..(Len(ss) + 1) /\ i + 1 > at /\ i + 1 - 1 = i
        BY <3>2, <1>i, <1>a
      <4> QED
        BY <4>1, <1>5, <1>a
    <3> QED
      BY <3>1, <3>2, <1>a
  <2>2. \A i \in 1..Len(tt) : i # at => \E j \in 1..Len(ss) : i = Shift(j)
    <3> SUFFICES ASSUME NEW i \in 1..Len(tt), i # at PROVE \E j \in 1..Len(ss) : i = Shift(j)
      OBVIOUS
    <3>1. CASE i < at
      BY <3>1, <1>1, <1>4, <1>5
    <3>2. CASE i > at
      <4>1. i - 1 \in 1..Len(ss) /\ Shift(i - 1) = i
        BY <3>2, <1>1, <1>4, <1>5
      <4> QED
        BY <4>1
    <3> QED
      BY <3>1, <3>2, <1>1, <1>4, <1>5
  <2>3. Indexes(tt, k) = {Shift(i) : i \in Indexes(ss, k)}
    <3>1. tt[at] = section /\ section.id # k /\ at \in 1..Len(tt)
      <4>1. at \in 1..(Len(ss) + 1) /\ ~(at < at)
        BY <1>i, <1>a
      <4> QED
        BY <4>1, <1>2, <1>5, <1>7
    <3> HIDE DEF Shift
    <3>2. ASSUME NEW i \in Indexes(ss, k) PROVE Shift(i) \in Indexes(tt, k)
      BY <2>1 DEF Indexes
    <3>3. ASSUME NEW i \in Indexes(tt, k) PROVE \E j \in Indexes(ss, k) : i = Shift(j)
      <4>1. i \in 1..Len(tt) /\ tt[i].id = k /\ i # at
        BY <3>1 DEF Indexes
      <4>2. PICK j \in 1..Len(ss) : i = Shift(j)
        BY <4>1, <2>2
      <4>3. ss[j].id = k
        BY <4>1, <4>2, <2>1
      <4> QED
        BY <4>2, <4>3 DEF Indexes
    <3> QED
      BY <3>2, <3>3
  <2>4. \A i, j \in 1..Len(ss) : i <= j => Shift(i) <= Shift(j)
    BY <1>1, <1>4
  <2> HIDE DEF Shift
  <2>5. CASE Indexes(ss, k) = {}
    BY <2>3, <2>5 DEF Items, Has
  <2>6. CASE Indexes(ss, k) # {}
    <3> DEFINE p == SectionIndex(ss, k)
    <3>1. Indexes(ss, k) \in SUBSET Nat /\ Indexes(ss, k) \subseteq 1..Len(ss)
      BY DEF Indexes
    <3>2. p \in Indexes(ss, k) /\ \A j \in Indexes(ss, k) : p <= j
      BY <2>6, <3>1, FirstIsLeast DEF SectionIndex
    <3> HIDE DEF p
    <3>3. Shift(p) \in Indexes(tt, k) /\ \A j \in Indexes(tt, k) : Shift(p) <= j
      BY <2>3, <2>4, <3>1, <3>2
    <3>4. Indexes(tt, k) \in SUBSET Nat
      BY DEF Indexes
    <3>5. SectionIndex(tt, k) = Shift(p)
      BY <3>3, <3>4, FirstIsUnique DEF SectionIndex
    <3>6. tt[Shift(p)] = ss[p]
      BY <2>1, <3>1, <3>2
    <3> QED
      BY <2>6, <3>3, <3>5, <3>6 DEF Items, Has, p
  <2> QED
    BY <2>5, <2>6
<1>8. Items(tt, MemoryId) = items /\ Items(ss, MemoryId) = << >>
  <2>1. at \in Indexes(tt, MemoryId)
    BY <1>1, <1>2, <1>4, <1>5 DEF Indexes
  <2>2. \A i \in Indexes(tt, MemoryId) : i = at
    <3> SUFFICES ASSUME NEW i \in 1..Len(tt), i # at PROVE tt[i].id # MemoryId
      BY DEF Indexes
    <3>1. \E j \in 1..Len(ss) : tt[i] = ss[j]
      BY <1>1, <1>4, <1>5
    <3> QED
      BY <3>1 DEF Has, Indexes
  <2>3. Indexes(tt, MemoryId) \in SUBSET Nat
    BY DEF Indexes
  <2>4. \A i \in Indexes(tt, MemoryId) : at <= i
    BY <2>2, <1>1, <1>4
  <2>5. SectionIndex(tt, MemoryId) = at /\ Has(tt, MemoryId)
    BY <2>1, <2>3, <2>4, FirstIsUnique DEF SectionIndex, Has
  <2>6. tt[at].items = items
    BY <1>1, <1>2, <1>4, <1>5
  <2> QED
    BY <2>5, <2>6 DEF Items
<1>10. ASSUME InOrder(ss) PROVE InOrder(tt)
  <2> SUFFICES ASSUME NEW i \in 1..Len(tt), NEW j \in 1..Len(tt), i < j,
                      tt[i].id # CustomId, tt[j].id # CustomId
               PROVE  Rank(tt[i].id) < Rank(tt[j].id)
    BY DEF InOrder
  <2>0. \A a, b \in 1..Len(ss) : a < b /\ ss[a].id # CustomId /\ ss[b].id # CustomId
                                 => Rank(ss[a].id) < Rank(ss[b].id)
    BY <1>10 DEF InOrder
  <2>1. ASSUME NEW a \in 1..Len(ss), a < at, ss[a].id # CustomId
        PROVE  Rank(ss[a].id) < Rank(MemoryId)
    <3>1. ss[a].id \in 0..4 /\ ss[a].id # 0
      BY <2>1, <1>4 DEF CustomId
    <3>2. ss[a].id \in 1..4
      BY <3>1
    <3> QED
      BY <3>2, MemoryRank
  <2>2. \A b \in 1..Len(ss) : b >= at /\ ss[b].id # CustomId => Rank(MemoryId) < Rank(ss[b].id)
    <3> SUFFICES ASSUME NEW b \in 1..Len(ss), b >= at, ss[b].id # CustomId
                 PROVE  Rank(MemoryId) < Rank(ss[b].id)
      OBVIOUS
    <3>1. at \in 1..Len(ss) /\ ss[at].id \in 6..13 /\ ss[b].id \in 1..13
      <4>1. at \in 1..Len(ss) /\ at <= Len(ss)
        BY <1>a, <1>i
      <4>2. ss[b].id \in 0..13 /\ ss[b].id # 0
        BY <1>i DEF CustomId
      <4> QED
        BY <4>1, <4>2, <1>4
    <3>2. Rank(MemoryId) < Rank(ss[at].id)
      BY <3>1, MemoryRank
    <3>3. b = at \/ Rank(ss[at].id) < Rank(ss[b].id)
      BY <3>1, <2>0, <1>4 DEF CustomId
    <3>4. Rank(MemoryId) \in Int /\ Rank(ss[at].id) \in Int /\ Rank(ss[b].id) \in Int
      <4>1. MemoryId \in 1..13 /\ ss[at].id \in 1..13 /\ ss[b].id \in 1..13
        BY <3>1, <1>2
      <4>2. \A q \in 1..13 : Rank(q) \in Int
        BY MemoryRank
      <4> QED
        BY <4>1, <4>2
    <3> QED
      BY <3>2, <3>3, <3>4
  <2>3. CASE i < at /\ j < at
    BY <2>3, <2>0, <1>1, <1>4, <1>5
  <2>4. CASE i < at /\ j = at
    BY <2>4, <2>1, <1>1, <1>2, <1>4, <1>5
  <2>5. CASE i < at /\ j > at
    <3>1. tt[i] = ss[i] /\ tt[j] = ss[j - 1] /\ i < j - 1 /\ i \in 1..Len(ss) /\ j - 1 \in 1..Len(ss)
      BY <2>5, <1>1, <1>4, <1>5
    <3> QED
      BY <3>1, <2>0
  <2>6. CASE i = at /\ j > at
    <3>1. tt[i] = section /\ tt[j] = ss[j - 1] /\ j - 1 >= at /\ j - 1 \in 1..Len(ss)
      BY <2>6, <1>1, <1>4, <1>5
    <3> QED
      BY <3>1, <2>2, <1>2
  <2>7. CASE i > at /\ j > at
    <3>1. /\ tt[i] = ss[i - 1] /\ tt[j] = ss[j - 1] /\ i - 1 < j - 1
          /\ i - 1 \in 1..Len(ss) /\ j - 1 \in 1..Len(ss)
      BY <2>7, <1>1, <1>4, <1>5
    <3> QED
      BY <3>1, <2>0
  <2> QED
    BY <2>3, <2>4, <2>5, <2>6, <2>7, <1>1, <1>4, <1>5
<1> QED
  BY <1>6, <1>7, <1>8, <1>10

LEMMA SoundWithMemory ==
    ASSUME NEW ss, Sound(ss, functionCount), ~Has(ss, MemoryId), NEW items, IsList(items),
           NEW tt, tt = Inserted(ss, [id |-> MemoryId, items |-> items])
    PROVE  /\ Sound(tt, functionCount) /\ Memories(tt) = Memories(ss) + Len(items)
           /\ \A name : Named(tt, name) = Named(ss, name)
           /\ Grows(ss, tt)
<1>1. Sectioned(ss)
  BY DEF Sound, WellFormed
<1>2. /\ Sectioned(tt)
      /\ InOrder(ss) => InOrder(tt)
      /\ Items(tt, MemoryId) = items /\ Items(ss, MemoryId) = << >>
      /\ \A k : k # MemoryId => Items(tt, k) = Items(ss, k)
  BY <1>1, InsertedMemory
<1>3. /\ Items(tt, ImportId) = Items(ss, ImportId) /\ Items(tt, FunctionId) = Items(ss, FunctionId)
      /\ Items(tt, ExportId) = Items(ss, ExportId) /\ Items(tt, CodeId) = Items(ss, CodeId)
      /\ Items(tt, TypeId) = Items(ss, TypeId)
  BY <1>2 DEF ImportId, FunctionId, ExportId, CodeId, TypeId, MemoryId
<1>4. /\ Imported(tt, "func") = Imported(ss, "func")
       /\ Imported(tt, "memory") = Imported(ss, "memory")
       /\ \A name : Named(tt, name) = Named(ss, name)
       /\ Total(tt) = Total(ss) /\ Types(tt) = Types(ss)
  BY <1>3 DEF Imported, Named, Total, Types
<1>5. WellFormed(tt)
  BY <1>2, <1>3 DEF Sound, WellFormed, Types
<1>6. Grows(ss, tt)
  <2>1. \A k : IsList(Items(ss, k))
    BY <1>1, ItemsAreList
  <2> QED
    BY <2>1, <1>3, BeginsAppended DEF Grows
<1>7. Valid(tt)
  BY <1>2, <1>3, <1>4 DEF Sound, Valid, HasType
<1>8. Memories(tt) = Memories(ss) + Len(items)
  <2>1. Cardinality(Imported(ss, "memory")) \in Nat /\ Len(items) \in Nat
    BY <1>1, ImportsAreFinite DEF IsList
  <2>2. Len(Items(ss, MemoryId)) = 0
    BY <1>2
  <2>3. /\ Memories(ss) = Cardinality(Imported(ss, "memory")) + Len(Items(ss, MemoryId))
        /\ Memories(tt) = Cardinality(Imported(ss, "memory")) + Len(items)
    BY <1>2, <1>4 DEF Memories
  <2> QED
    BY <2>1, <2>2, <2>3
<1> QED
  BY <1>4, <1>5, <1>7, <1>8, <1>6 DEF Sound

-----------------------------------------------------------------------------
(* The imports *)

\* Imports that an added function answers.
Answered == Lists!ToSet(InvokeNames) \cup {"emscripten_resize_heap"}

LEMMA WideNames ==
    ASSUME NEW name \in TimeAndMap, NEW params
    PROVE  WideName(name, params) \notin Answered
<1>1. WideName(name, params) \in NewNames \cup TimeAndMap
  <2>1. CASE name \in {"_localtime_js", "_gmtime_js", "_munmap_js", "_mmap_js"}
    <3>1. "__wago" \o name \o "_i64" \in NewNames
      BY DEF NewNames
    <3>2. WideName(name, params) \in {name, "__wago" \o name \o "_i64"}
      <4> DEFINE wide == "__wago" \o name \o "_i64"
      <4>1. WideName(name, params) =
              CASE name \in {"_localtime_js", "_gmtime_js"} /\ Len(params) = 2 /\ params[1] = "i64" -> wide
                [] name = "_tzset_js" /\ Len(params) = 4 -> "__wago_tzset_js_4"
                [] name \in {"_munmap_js", "_mmap_js"} /\ "i64" \in Lists!ToSet(params) -> wide
                [] OTHER -> name
        BY DEF WideName
      <4> HIDE DEF wide
      <4>2. name # "_tzset_js"
        BY <2>1
      <4>3. WideName(name, params) \in {name, wide}
        BY <4>1, <4>2
      <4> QED
        BY <4>3 DEF wide
    <3> QED
      BY <3>1, <3>2
  <2>2. CASE name = "_tzset_js"
    <3>1. WideName(name, params) \in {name, "__wago_tzset_js_4"}
      BY <2>2 DEF WideName
    <3> QED
      BY <3>1 DEF NewNames
  <2> QED
    BY <2>1, <2>2 DEF TimeAndMap
<1>2. Answered \cap (NewNames \cup TimeAndMap) = {}
  BY SourceAssumption DEF SourceAssumption, Answered, TimeAndMap
<1> QED
  BY <1>1, <1>2

\* An entry that is renamed stays an import of its kind, and one that is
\* answered by an added function has its name before and after.
LEMMA RenamedEntry ==
    ASSUME NEW entry, IsImportEntry(entry)
    PROVE  /\ IsImportEntry(Renamed(entry)) /\ Renamed(entry).kind = entry.kind
           /\ Renamed(entry).type = entry.type
           /\ \A n \in Answered : IsEnv(Renamed(entry)) /\ Renamed(entry).name = n
                                <=> IsEnv(entry) /\ entry.name = n
<1> DEFINE name == IF kind \in CKinds /\ IsEnv(entry) /\ entry.name \in TimeAndMap
                   THEN WideName(entry.name, TypeAt(source.sections, entry.type).params)
                   ELSE entry.name
           module == IF entry.module = "wasi_unstable" THEN "wasi_snapshot_preview1"
                     ELSE entry.module
           wasi == "__wago_wasi_" \o name
           isWasi == /\ kind \in CKinds \ {""}
                     /\ module = "wasi_snapshot_preview1" /\ name \in WasiCalls
<1>1. entry = [module |-> entry.module, name |-> entry.name, kind |-> entry.kind,
               type |-> entry.type]
  BY DEF IsImportEntry
<1>2. Renamed(entry) = IF isWasi THEN [entry EXCEPT !.module = "env", !.name = wasi]
                       ELSE [entry EXCEPT !.module = module, !.name = name]
  BY DEF Renamed
<1> HIDE DEF name, module, wasi, isWasi
<1>3. \A m, n : [entry EXCEPT !.module = m, !.name = n]
               = [module |-> m, name |-> n, kind |-> entry.kind, type |-> entry.type]
  <2> SUFFICES ASSUME NEW m, NEW n
               PROVE  [entry EXCEPT !.module = m, !.name = n]
                      = [module |-> m, name |-> n, kind |-> entry.kind, type |-> entry.type]
    OBVIOUS
  <2> DEFINE a == entry.module  b == entry.name  c == entry.kind  d == entry.type
  <2>1. entry = [module |-> a, name |-> b, kind |-> c, type |-> d]
    BY <1>1
  <2> HIDE DEF a, b, c, d
  <2> DEFINE moved == [entry EXCEPT !.module = m]
  <2>2. moved = [module |-> m, name |-> b, kind |-> c, type |-> d]
    BY <2>1
  <2>4. [entry EXCEPT !.module = m, !.name = n] = [moved EXCEPT !.name = n]
    OBVIOUS
  <2> HIDE DEF moved
  <2>3. [moved EXCEPT !.name = n] = [module |-> m, name |-> n, kind |-> c, type |-> d]
    BY <2>2
  <2>5. [entry EXCEPT !.module = m, !.name = n] = [module |-> m, name |-> n, kind |-> c, type |-> d]
    BY <2>3, <2>4
  <2> QED
    BY <2>5 DEF c, d
<1>4. \E m, n : Renamed(entry)
               = [module |-> m, name |-> n, kind |-> entry.kind, type |-> entry.type]
  BY <1>2, <1>3
<1>5. entry.type \in Nat
  BY DEF IsImportEntry
<1>6. ASSUME NEW n \in Answered
      PROVE  IsEnv(Renamed(entry)) /\ Renamed(entry).name = n <=> IsEnv(entry) /\ entry.name = n
  <2>1. n \notin NewNames \cup TimeAndMap
    BY SourceAssumption DEF SourceAssumption, Answered, TimeAndMap
  <2>2. name = n <=> entry.name = n
    <3>1. CASE entry.name \in TimeAndMap
      <4>1. name = entry.name \/ name = WideName(entry.name, TypeAt(source.sections, entry.type).params)
        BY DEF name
      <4>2. name # n
        BY <4>1, <3>1, <2>1, WideNames
      <4> QED
        BY <4>2, <3>1, <2>1
    <3>2. CASE entry.name \notin TimeAndMap
      BY <3>2 DEF name
    <3> QED
      BY <3>1, <3>2
  <2>3. module = "env" <=> entry.module = "env"
    BY DEF module
  <2>4. CASE isWasi
    <3>1. wasi \in NewNames
      BY <2>4 DEF isWasi, wasi, NewNames
    <3>2. Renamed(entry).name = wasi
      BY <2>4, <1>2, <1>3
    <3>3. module # "env"
      BY <2>4 DEF isWasi
    <3> QED
      BY <3>1, <3>2, <3>3, <2>1, <2>3 DEF IsEnv
  <2>5. CASE ~isWasi
    <3>1. Renamed(entry).name = name /\ Renamed(entry).module = module
      BY <2>5, <1>2, <1>3
    <3> QED
      BY <3>1, <2>2, <2>3 DEF IsEnv
  <2> QED
    BY <2>4, <2>5
<1>7. IsImportEntry(Renamed(entry)) /\ Renamed(entry).kind = entry.kind
      /\ Renamed(entry).type = entry.type
  BY <1>4, <1>5 DEF IsImportEntry
<1> QED
  BY <1>6, <1>7

\* What is kept of the imports: all but the memory that is taken.
LEMMA KeptImports ==
    ASSUME WellFormed(source.sections)
    PROVE  /\ IsList(Imports) /\ IsList(Kept)
           /\ \A what : /\ IsFiniteSet({i \in 1..Len(Imports) : Imports[i].kind = what})
                        /\ Cardinality({i \in 1..Len(Kept) : Kept[i].kind = what}) =
                             Cardinality({i \in 1..Len(Imports) : Imports[i].kind = what})
                             - (IF Taken # {} /\ what = "memory" THEN 1 ELSE 0)
           /\ \A i \in 1..Len(Kept) : \E j \in 1..Len(Imports) : Kept[i] = Imports[j]
<1> DEFINE I(what) == {i \in 1..Len(Imports) : Imports[i].kind = what}
           K(what) == {i \in 1..Len(Kept) : Kept[i].kind = what}
<1>1. IsList(Imports) /\ Len(Imports) \in Nat
  BY ItemsAreList DEF Imports, WellFormed
<1>2. ASSUME NEW what PROVE IsFiniteSet(I(what)) /\ Cardinality(I(what)) \in Nat
  <2>1. IsFiniteSet(1..Len(Imports))
    BY <1>1, FS_Interval
  <2>2. IsFiniteSet(I(what))
    BY <2>1, FS_Subset
  <2> QED
    BY <2>2, FS_CardinalityType
<1>3. CASE Taken = {}
  <2>1. Kept = Imports
    BY <1>3 DEF Kept
  <2> HIDE DEF Kept
  <2>2. ASSUME NEW what PROVE Cardinality(K(what)) = Cardinality(I(what)) - 0
    <3> DEFINE A == I(what)
    <3>1. Cardinality(A) \in Nat
      BY <1>2
    <3>2. K(what) = A
      BY <2>1
    <3> HIDE DEF A
    <3>3. Cardinality(A) - 0 = Cardinality(A)
      BY <3>1
    <3> QED
      BY <3>2, <3>3 DEF A
  <2> QED
    BY <1>1, <1>2, <1>3, <2>1, <2>2
<1>4. CASE Taken # {}
  <2> DEFINE m == First(Taken)
  <2>1. m \in 1..Len(Imports) /\ Imports[m].kind = "memory"
    <3>1. Taken \in SUBSET Nat
      BY DEF Taken
    <3>2. m \in Taken
      BY <3>1, <1>4, FirstIsLeast
    <3> QED
      BY <3>2 DEF Taken, TakesMemory, IsMemory
  <2>2. Kept = Lists!RemoveAt(Imports, m)
    BY <1>4 DEF Kept
  <2> HIDE DEF m, Kept, Imports
  <2>3. /\ IsList(Kept) /\ Len(Kept) = Len(Imports) - 1
        /\ \A i \in 1..(Len(Imports) - 1) : Kept[i] = IF i < m THEN Imports[i] ELSE Imports[i + 1]
    <3> DEFINE removed == Lists!RemoveAt(Imports, m)
    <3>1. /\ IsList(removed) /\ Len(removed) = Len(Imports) - 1
          /\ \A i \in 1..(Len(Imports) - 1) :
               removed[i] = IF i < m THEN Imports[i] ELSE Imports[i + 1]
      BY <1>1, <2>1, ListRemove
    <3> HIDE DEF removed
    <3>2. Kept = removed
      BY <2>2 DEF removed
    <3> QED
      BY <3>1, <3>2
  <2> DEFINE Back(i) == IF i < m THEN i ELSE i + 1
  <2>4. \A i \in 1..Len(Kept) : /\ Back(i) \in 1..Len(Imports) /\ Back(i) # m
                                /\ Kept[i] = Imports[Back(i)]
    BY <1>1, <2>1, <2>3
  <2>5. \A j \in 1..Len(Imports) : j # m => \E i \in 1..Len(Kept) : Back(i) = j
    <3> SUFFICES ASSUME NEW j \in 1..Len(Imports), j # m
                 PROVE  \E i \in 1..Len(Kept) : Back(i) = j
      OBVIOUS
    <3>1. CASE j < m
      BY <3>1, <1>1, <2>1, <2>3
    <3>2. CASE j > m
      <4>1. j - 1 \in 1..Len(Kept) /\ Back(j - 1) = j
        BY <3>2, <1>1, <2>1, <2>3
      <4> QED
        BY <4>1
    <3> QED
      BY <3>1, <3>2, <1>1, <2>1
  <2>6. \A i, j \in 1..Len(Kept) : Back(i) = Back(j) => i = j
    BY <1>1, <2>1, <2>3
  <2> HIDE DEF Back
  <2>7. ASSUME NEW what
        PROVE  Cardinality(K(what)) =
                 Cardinality(I(what)) - (IF Taken # {} /\ what = "memory" THEN 1 ELSE 0)
    <3> DEFINE f == [i \in K(what) |-> Back(i)]
    <3>1. f \in [K(what) -> I(what) \ {m}] /\ \A i \in K(what) : f[i] = Back(i)
      BY <2>4
    <3>2. \A i, j \in K(what) : f[i] = f[j] => i = j
      BY <2>6, <3>1
    <3>3. \A j \in I(what) \ {m} : \E i \in K(what) : f[i] = j
      <4> SUFFICES ASSUME NEW j \in I(what) \ {m} PROVE \E i \in K(what) : f[i] = j
        OBVIOUS
      <4>1. PICK i \in 1..Len(Kept) : Back(i) = j
        BY <2>5
      <4>2. i \in K(what)
        BY <4>1, <2>4
      <4> QED
        BY <4>1, <4>2, <3>1
    <3>4. IsFiniteSet(I(what) \ {m})
          /\ Cardinality(I(what) \ {m}) = IF m \in I(what) THEN Cardinality(I(what)) - 1
                                          ELSE Cardinality(I(what))
      <4> DEFINE all == I(what)
      <4>1. IsFiniteSet(all)
        BY <1>2
      <4> HIDE DEF all
      <4>2. /\ IsFiniteSet(all \ {m})
            /\ Cardinality(all \ {m}) = IF m \in all THEN Cardinality(all) - 1
                                        ELSE Cardinality(all)
        BY <4>1, FS_RemoveElement
      <4> QED
        BY <4>2 DEF all
    <3>5. IsFiniteSet(K(what))
      <4>1. Len(Kept) \in Nat
        BY <2>3 DEF IsList
      <4>2. IsFiniteSet(1..Len(Kept))
        BY <4>1, FS_Interval
      <4> QED
        BY <4>2, FS_Subset
    <3> DEFINE A == K(what)
               B == I(what) \ {m}
    <3>6. f \in Bijection(A, B)
      BY <3>1, <3>2, <3>3 DEF Bijection, Injection, Surjection, IsInjective
    <3>7. IsFiniteSet(A) /\ ExistsBijection(A, B)
      BY <3>5, <3>6 DEF ExistsBijection
    <3> HIDE DEF A, B
    <3>8. Cardinality(A) = Cardinality(B)
      BY <3>7, FS_Bijection
    <3>9. m \in I(what) <=> what = "memory"
      BY <2>1
    <3> DEFINE all == I(what)
    <3>10. /\ Cardinality(A) = IF m \in all THEN Cardinality(all) - 1 ELSE Cardinality(all)
           /\ m \in all <=> what = "memory"
           /\ Cardinality(all) \in Nat
      BY <3>4, <3>8, <3>9, <1>2 DEF A, B
    <3> HIDE DEF all
    <3>11. Cardinality(A) = Cardinality(all) - (IF Taken # {} /\ what = "memory" THEN 1 ELSE 0)
      BY <3>10, <1>4
    <3> QED
      BY <3>11 DEF A, all
  <2> QED
    BY <1>1, <1>2, <2>3, <2>4, <2>7
<1> QED
  BY <1>3, <1>4

\* rewriteImports keeps a valid module valid, but for the memory it takes out.
LEMMA SoundRewritten ==
    ASSUME NEW ss, ss = source.sections, WellFormed(ss), Valid(ss), NEW tt,
           tt = IF Has(ss, ImportId)
                THEN [ss EXCEPT ![SectionIndex(ss, ImportId)].items = Rewritten] ELSE ss,
           NEW taken, taken = IF Taken = {} THEN << >> ELSE <<Imports[First(Taken)].type>>,
           NEW count, count = Cardinality({i \in 1..Len(Imports) : Counts(Imports[i])})
    PROVE  /\ Sound(tt, count) /\ Memories(tt) + Len(taken) = Memories(ss) /\ IsList(taken)
           /\ \A name : Named(tt, name) = Named(ss, name)
           /\ Items(tt, ImportId) = Rewritten /\ Types(tt) = Types(ss)
<1>1. /\ IsList(Imports) /\ IsList(Kept)
      /\ \A what : /\ IsFiniteSet({i \in 1..Len(Imports) : Imports[i].kind = what})
                   /\ Cardinality({i \in 1..Len(Kept) : Kept[i].kind = what}) =
                        Cardinality({i \in 1..Len(Imports) : Imports[i].kind = what})
                        - (IF Taken # {} /\ what = "memory" THEN 1 ELSE 0)
      /\ \A i \in 1..Len(Kept) : \E j \in 1..Len(Imports) : Kept[i] = Imports[j]
  BY KeptImports
<1>2. Imports = Items(ss, ImportId) /\ Sectioned(ss)
  BY DEF Imports, WellFormed
<1>3. IsList(taken) /\ Len(taken) = IF Taken = {} THEN 0 ELSE 1
  <2>1. IsList(<< >>) /\ Len(<< >>) = 0
    BY DEF IsList
  <2>2. \A x : IsList(<<x>>) /\ Len(<<x>>) = 1
    BY DEF IsList
  <2> QED
    BY <2>1, <2>2
<1>4. count = Cardinality(Imported(ss, "func"))
  BY <1>2 DEF Counts, IsFunction, Imported
<1>5. CASE ~Has(ss, ImportId)
  <2>1. Taken = {}
    <3>1. Imports = << >>
      BY <1>5, <1>2 DEF Items
    <3>2. Len(Imports) = 0
      BY <3>1
    <3> QED
      BY <3>2 DEF Taken
  <2>3. Items(tt, ImportId) = Rewritten
    <3>1. Kept = << >> /\ Len(<< >>) = 0 /\ 1..0 = {}
      BY <2>1, <1>5, <1>2 DEF Items, Kept
    <3>2. Rewritten = [i \in 1..0 |-> Renamed(Kept[i])]
      BY <3>1 DEF Rewritten
    <3>3. Rewritten = << >>
      BY <3>1, <3>2
    <3> QED
      BY <3>3, <1>5 DEF Items
  <2>2. Memories(ss) + 0 = Memories(ss)
    <3>1. Cardinality(Imported(ss, "memory")) \in Nat /\ Len(Items(ss, MemoryId)) \in Nat
      BY <1>2, ImportsAreFinite, ItemsAreList
    <3> QED
      BY <3>1 DEF Memories
  <2> QED
    BY <1>3, <1>4, <1>5, <2>1, <2>2, <2>3 DEF Sound
<1>6. CASE Has(ss, ImportId)
  <2>1. IsList(Rewritten) /\ Len(Rewritten) = Len(Kept)
        /\ \A i \in 1..Len(Kept) : Rewritten[i] = Renamed(Kept[i])
    <3>1. Len(Kept) \in Nat
      BY <1>1 DEF IsList
    <3>2. /\ Rewritten = [i \in 1..Len(Kept) |-> Rewritten[i]]
          /\ \A i \in 1..Len(Kept) : Rewritten[i] = Renamed(Kept[i])
      BY DEF Rewritten
    <3> QED
      BY <3>1, <3>2, ListOf
  <2>2. \A i \in 1..Len(Kept) : IsImportEntry(Kept[i])
    BY <1>1, <1>2 DEF WellFormed
  <2>3. \A i \in 1..Len(Kept) : IsImportEntry(Rewritten[i]) /\ Rewritten[i].kind = Kept[i].kind
    BY <2>1, <2>2, RenamedEntry
  <2>4. Edited(ss, tt, ImportId, Rewritten)
    <3>1. tt = [ss EXCEPT ![SectionIndex(ss, ImportId)].items = Rewritten]
      BY <1>6
    <3> QED
      BY <3>1, <2>1, <1>2, <1>6, ReplacedItems
  <2>5. /\ Sectioned(tt) /\ Items(tt, ImportId) = Rewritten
        /\ InOrder(ss) => InOrder(tt)
    BY <2>4, SameIdsSame DEF Edited
  <2>6. /\ Items(tt, TypeId) = Items(ss, TypeId) /\ Items(tt, FunctionId) = Items(ss, FunctionId)
        /\ Items(tt, ExportId) = Items(ss, ExportId) /\ Items(tt, CodeId) = Items(ss, CodeId)
        /\ Items(tt, MemoryId) = Items(ss, MemoryId)
    BY <2>4 DEF Edited, ImportId, FunctionId, ExportId, CodeId, MemoryId, TypeId
  <2>7. ASSUME NEW what
        PROVE  /\ Imported(tt, what) = {i \in 1..Len(Kept) : Kept[i].kind = what}
               /\ Imported(ss, what) = {i \in 1..Len(Imports) : Imports[i].kind = what}
    BY <2>1, <2>3, <2>5, <1>2 DEF Imported
  <2>8. /\ Cardinality(Imported(tt, "func")) = Cardinality(Imported(ss, "func"))
        /\ Cardinality(Imported(tt, "memory"))
            = Cardinality(Imported(ss, "memory")) - (IF Taken # {} THEN 1 ELSE 0)
    <3>1. \A what : Cardinality(Imported(tt, what)) = Cardinality(Imported(ss, what))
                       - (IF Taken # {} /\ what = "memory" THEN 1 ELSE 0)
      BY <2>7, <1>1
    <3>2. Cardinality(Imported(ss, "func")) \in Nat
      BY <1>2, ImportsAreFinite
    <3>3. Cardinality(Imported(tt, "func")) = Cardinality(Imported(ss, "func")) - 0
      BY <3>1
    <3> QED
      BY <3>1, <3>2, <3>3
  <2>9. Memories(tt) + Len(taken) = Memories(ss)
    <3>1. Cardinality(Imported(ss, "memory")) \in Nat /\ Len(Items(ss, MemoryId)) \in Nat
      BY <1>2, ImportsAreFinite, ItemsAreList
    <3> QED
      BY <3>1, <2>6, <2>8, <1>3 DEF Memories
  <2>10. /\ \A name : Named(tt, name) = Named(ss, name)
         /\ Total(tt) = Total(ss) /\ Types(tt) = Types(ss)
    BY <2>6, <2>8 DEF Named, Total, Types
  <2>11. WellFormed(tt)
    BY <2>1, <2>3, <2>5, <2>6, <2>10 DEF WellFormed
  <2>12. Valid(tt)
    BY <2>5, <2>6, <2>10 DEF Valid, HasType
  <2> QED
    BY <1>3, <1>4, <2>5, <2>8, <2>9, <2>10, <2>11, <2>12 DEF Sound
<1> QED
  BY <1>5, <1>6

-----------------------------------------------------------------------------
(* The stages *)

LEMMA FoundType ==
    ASSUME NEW ss, Sectioned(ss), NEW type, Knows(ss, type)
    PROVE  /\ FindType(ss, type) \in Nat /\ HasType(ss, FindType(ss, type))
           /\ TypeAt(ss, FindType(ss, type)) = type
<1>1. Len(Types(ss)) \in Nat
  BY ItemsAreList DEF Types
<1>2. Matches(ss, type) \in SUBSET Nat /\ Matches(ss, type) # {}
  BY DEF Matches, Knows
<1>3. FindType(ss, type) \in Matches(ss, type)
  BY <1>2, FirstIsLeast DEF FindType
<1> QED
  BY <1>1, <1>3 DEF Matches, HasType

\* The trampoline that is next is for a name that has none.
LEMMA NextName ==
    ASSUME todo # {}, todo \subseteq Lists!ToSet(InvokeNames)
    PROVE  InvokeNames[First({i \in 1..Len(InvokeNames) : InvokeNames[i] \in todo})] \in todo
<1> DEFINE P == {i \in 1..Len(InvokeNames) : InvokeNames[i] \in todo}
<1>1. DOMAIN InvokeNames = 1..Len(InvokeNames)
  BY SourceAssumption DEF SourceAssumption, IsList
<1>2. P \in SUBSET Nat /\ P # {}
  BY <1>1 DEF Lists!ToSet
<1>3. First(P) \in P
  BY <1>2, FirstIsLeast
<1> QED
  BY <1>3

-----------------------------------------------------------------------------
(* What is behind an export *)

\* The export is a function of this type and body.
Behind(ss, name, type, body) ==
    /\ Exports(ss, name)
    /\ LET d == Defined(ss, ExportOf(ss, name))
       IN /\ d \in 1..Len(Items(ss, CodeId)) /\ Items(ss, CodeId)[d] = body
          /\ TypeAt(ss, Items(ss, FunctionId)[d]) = type

\* In a valid module a name stands for one export.
LEMMA OneExport ==
    ASSUME NEW ss, WellFormed(ss), Valid(ss), NEW i \in 1..Len(Items(ss, ExportId)),
           NEW name, Items(ss, ExportId)[i].name = name, Items(ss, ExportId)[i].kind = "func"
    PROVE  Exports(ss, name) /\ ExportOf(ss, name) = Items(ss, ExportId)[i].index
<1>1. i \in Named(ss, name)
  BY DEF Named
<1>2. Cardinality(Named(ss, name)) = 1
  BY DEF Valid
<1>3. IsFiniteSet(Named(ss, name))
  <2>1. Len(Items(ss, ExportId)) \in Nat
    BY ItemsAreList DEF WellFormed
  <2>2. IsFiniteSet(1..Len(Items(ss, ExportId)))
    BY <2>1, FS_Interval
  <2> QED
    BY <2>2, FS_Subset DEF Named
<1>4. Named(ss, name) = {i}
  <2>1. PICK x : Named(ss, name) = {x}
    BY <1>2, <1>3, FS_Singleton
  <2> QED
    BY <2>1, <1>1
<1>5. Functions(ss, name) = {i}
  BY <1>4 DEF Functions
<1>6. Last({i}) = i
  BY DEF Last
<1> QED
  BY <1>5, <1>6 DEF Exports, ExportOf

\* What is behind an export stays there, and types keep their indexes.
LEMMA BehindOn ==
    ASSUME NEW ss, WellFormed(ss), Valid(ss), NEW tt, WellFormed(tt), Valid(tt), Grows(ss, tt),
           NEW name, NEW type, NEW body, Behind(ss, name, type, body)
    PROVE  /\ Behind(tt, name, type, body)
           /\ \A x \in Nat : HasType(ss, x) => HasType(tt, x) /\ TypeAt(tt, x) = TypeAt(ss, x)
<1> DEFINE d == Defined(ss, ExportOf(ss, name))
           F == Items(ss, FunctionId)
           C == Items(ss, CodeId)
           E == Items(ss, ExportId)
<1>1. PICK i \in 1..Len(E) : E[i].name = name /\ E[i].kind = "func"
  BY DEF Behind, Exports, Functions, Named
<1>2. ExportOf(ss, name) = E[i].index
  BY <1>1, OneExport
<1>3. /\ Len(E) \in Nat /\ Len(F) \in Nat /\ Len(C) \in Nat /\ Len(Types(ss)) \in Nat
      /\ Len(Items(tt, ExportId)) \in Nat /\ Len(Items(tt, FunctionId)) \in Nat
      /\ Len(Items(tt, CodeId)) \in Nat /\ Len(Types(tt)) \in Nat
  BY ItemsAreList DEF WellFormed, Types
<1>4. /\ Begins(E, Items(tt, ExportId)) /\ Begins(F, Items(tt, FunctionId))
      /\ Begins(C, Items(tt, CodeId)) /\ Begins(Types(ss), Types(tt))
      /\ Items(tt, ImportId) = Items(ss, ImportId)
  BY DEF Grows, Types
<1>5. i \in 1..Len(Items(tt, ExportId)) /\ Items(tt, ExportId)[i] = E[i]
  BY <1>3, <1>4 DEF Begins
<1>6. Exports(tt, name) /\ ExportOf(tt, name) = ExportOf(ss, name)
  BY <1>1, <1>2, <1>5, OneExport
<1>7. Defined(tt, ExportOf(tt, name)) = d
  BY <1>4, <1>6 DEF Defined, Imported
<1>8. d \in 1..Len(C) /\ C[d] = body /\ TypeAt(ss, F[d]) = type
  BY DEF Behind
<1> HIDE DEF d
<1>9. d \in 1..Len(Items(tt, CodeId)) /\ Items(tt, CodeId)[d] = body
  BY <1>3, <1>4, <1>8 DEF Begins
<1>10. d \in 1..Len(F) /\ Items(tt, FunctionId)[d] = F[d] /\ F[d] \in Nat /\ HasType(ss, F[d])
  <2>1. d \in 1..Len(F)
    BY <1>8 DEF Valid
  <2>2. Items(tt, FunctionId)[d] = F[d]
    BY <2>1, <1>3, <1>4 DEF Begins
  <2> QED
    BY <2>1, <2>2 DEF Valid, WellFormed
<1>11. \A x \in Nat : HasType(ss, x) => HasType(tt, x) /\ TypeAt(tt, x) = TypeAt(ss, x)
  <2> SUFFICES ASSUME NEW x \in Nat, HasType(ss, x) PROVE HasType(tt, x) /\ TypeAt(tt, x) = TypeAt(ss, x)
    OBVIOUS
  <2>1. x < Len(Types(ss)) /\ x + 1 \in 1..Len(Types(ss))
    BY <1>3 DEF HasType
  <2>2. x < Len(Types(tt)) /\ Types(tt)[x + 1] = Types(ss)[x + 1]
    BY <2>1, <1>3, <1>4 DEF Begins
  <2> QED
    BY <2>2 DEF HasType, TypeAt
<1> HIDE DEF F, C, E
<1>12. TypeAt(tt, Items(tt, FunctionId)[d]) = type
  BY <1>8, <1>10, <1>11
<1> QED
  BY <1>6, <1>7, <1>9, <1>11, <1>12 DEF Behind

\* A function that is added is what its export stands for.
LEMMA AddedIsBehind ==
    ASSUME NEW ss, Sound(ss, functionCount), CanAdd(ss),
           NEW type \in Nat, HasType(ss, type), NEW name, Named(ss, name) = {}, NEW body,
           NEW tt, tt = AddFunction(ss, type, name, body)
    PROVE  Behind(tt, name, TypeAt(ss, type), body) /\ Types(tt) = Types(ss)
<1> DEFINE export == [name |-> name, kind |-> "func", index |-> NewIndex(ss)]
           F == Items(ss, FunctionId)
           E == Items(ss, ExportId)
           C == Items(ss, CodeId)
<1>0. Sound(tt, functionCount)
  BY SoundWithFunction
<1>1. Sectioned(ss) /\ Sound(tt, functionCount)
  BY <1>0 DEF Sound, WellFormed
<1>2. /\ Items(tt, FunctionId) = Append(F, type)
      /\ Items(tt, ExportId) = Append(E, export)
      /\ Items(tt, CodeId) = Append(C, body)
      /\ \A k \in (0..13) \ {FunctionId, ExportId, CodeId} : Items(tt, k) = Items(ss, k)
  BY <1>1, AddedFunction
<1>3. Items(tt, ImportId) = Items(ss, ImportId) /\ Types(tt) = Types(ss)
  BY <1>2 DEF ImportId, TypeId, FunctionId, ExportId, CodeId, Types
<1>4. /\ IsList(F) /\ Len(F) \in Nat /\ IsList(E) /\ Len(E) \in Nat
      /\ IsList(C) /\ Len(C) \in Nat /\ Len(C) = Len(F)
  BY <1>1, ItemsAreList DEF Sound, Valid
<1>5. functionCount = Cardinality(Imported(ss, "func")) /\ functionCount \in Nat
  BY <1>1, ImportsAreFinite DEF Sound
<1>6. /\ export.name = name /\ export.kind = "func" /\ export.index = functionCount + Len(F)
  BY DEF NewIndex
<1> HIDE DEF export, F, E, C
<1>7. /\ Len(Append(E, export)) = Len(E) + 1 /\ Append(E, export)[Len(E) + 1] = export
      /\ Len(Append(C, body)) = Len(C) + 1 /\ Append(C, body)[Len(C) + 1] = body
      /\ Append(F, type)[Len(C) + 1] = type
  BY <1>4, ListAppend
<1>8. Exports(tt, name) /\ ExportOf(tt, name) = functionCount + Len(F)
  <2>1. /\ Len(E) + 1 \in 1..Len(Items(tt, ExportId)) /\ Items(tt, ExportId)[Len(E) + 1] = export
    BY <1>2, <1>4, <1>7
  <2> QED
    BY <2>1, <1>1, <1>6, OneExport DEF Sound
<1>9. Defined(tt, ExportOf(tt, name)) = Len(C) + 1
  <2>1. Defined(tt, ExportOf(tt, name)) = functionCount + Len(F) - functionCount + 1
    BY <1>3, <1>5, <1>8 DEF Defined, Imported
  <2> QED
    BY <2>1, <1>4, <1>5
<1>10. /\ Len(C) + 1 \in 1..Len(Items(tt, CodeId)) /\ Items(tt, CodeId)[Len(C) + 1] = body
       /\ TypeAt(tt, Items(tt, FunctionId)[Len(C) + 1]) = TypeAt(ss, type)
  BY <1>2, <1>3, <1>4, <1>7 DEF TypeAt
<1> QED
  BY <1>3, <1>8, <1>9, <1>10 DEF Behind

\* Offers, where the callee of an indirect call has a type that is there.
Offered(ss, name, type, last) ==
    /\ Offers(ss, name, type, last)
    /\ last.op = "call_indirect" =>
         LET body == Items(ss, CodeId)[Defined(ss, ExportOf(ss, name))]
         IN body[Len(body)].n \in Nat /\ HasType(ss, body[Len(body)].n)

\* Such a body.
Ends(ss, body, last) ==
    /\ body # << >> /\ body[Len(body)].op = last.op
    /\ last.op = "call_indirect" => /\ body[Len(body)].n \in Nat /\ HasType(ss, body[Len(body)].n)
                                    /\ TypeAt(ss, body[Len(body)].n) = last.type

LEMMA OfferedMeans ==
    ASSUME NEW ss, NEW name, NEW type, NEW last
    PROVE  Offered(ss, name, type, last)
           <=> \E body : Behind(ss, name, type, body) /\ Ends(ss, body, last)
<1> DEFINE b == Items(ss, CodeId)[Defined(ss, ExportOf(ss, name))]
<1>1. Offered(ss, name, type, last) <=> Behind(ss, name, type, b) /\ Ends(ss, b, last)
  BY DEF Offered, Offers, Behind, Ends
<1>2. \A body : Behind(ss, name, type, body) => body = b
  BY DEF Behind
<1> QED
  BY <1>1, <1>2

\* What is offered goes on being offered.
LEMMA OfferedOn ==
    ASSUME NEW ss, WellFormed(ss), Valid(ss), NEW tt, WellFormed(tt), Valid(tt), Grows(ss, tt),
           NEW name, NEW type, NEW last, Offered(ss, name, type, last)
    PROVE  Offered(tt, name, type, last)
<1>1. PICK body : Behind(ss, name, type, body) /\ Ends(ss, body, last)
  BY OfferedMeans
<1>2. /\ Behind(tt, name, type, body)
      /\ \A x \in Nat : HasType(ss, x) => HasType(tt, x) /\ TypeAt(tt, x) = TypeAt(ss, x)
  BY <1>1, BehindOn
<1>3. Ends(tt, body, last)
  BY <1>1, <1>2 DEF Ends
<1> QED
  BY <1>2, <1>3, OfferedMeans

LEMMA AddedIsOffered ==
    ASSUME NEW ss, Sound(ss, functionCount), CanAdd(ss),
           NEW type \in Nat, HasType(ss, type), NEW name, Named(ss, name) = {},
           NEW body, NEW last, Ends(ss, body, last),
           NEW tt, tt = AddFunction(ss, type, name, body)
    PROVE  Offered(tt, name, TypeAt(ss, type), last)
<1>1. Behind(tt, name, TypeAt(ss, type), body) /\ Types(tt) = Types(ss)
  BY AddedIsBehind
<1>2. Ends(tt, body, last)
  BY <1>1 DEF Ends, HasType, TypeAt
<1> QED
  BY <1>1, <1>2, OfferedMeans

\* The body that is added for _start.
StartBody(ss) ==
    IF kind = "emscripten" THEN MainLauncher(ss)
    ELSE When(kind = "gojs", <<Push(2)>>)
         \o [i \in 1..Len(Targets) |-> Call(ExportOf(ss, Targets[i]))]

\* _start, for a module that has none.
LEMMA SoundLaunched ==
    ASSUME NEW ss, Sound(ss, functionCount), ~LauncherError(ss), ~HasStart(ss),
           NEW tt, tt = IF kind = "emscripten" THEN AddEmscriptenLauncher(ss) ELSE AddStartLauncher(ss)
    PROVE  /\ Sound(tt, functionCount) /\ Memories(tt) = Memories(ss) /\ Grows(ss, tt)
           /\ Behind(tt, "_start", NoArguments, StartBody(ss))
<1>0. IsList(NoArguments.params)
  BY DEF NoArguments, Func, IsList
<1>1. Sectioned(ss) /\ Named(ss, "_start") = {}
  BY DEF Sound, WellFormed, HasStart
<1>2. CASE kind = "emscripten"
  <2> DEFINE uu == WithType(ss)
             type == FindType(uu, NoArguments)
             body == StartBody(ss)
  <2>1. MainFits(ss) /\ CanAdd(ss)
    BY <1>2 DEF LauncherError, EmscriptenLauncherError
  <2>2. Has(ss, TypeId)
    <3> SUFFICES ASSUME ~Has(ss, TypeId) PROVE FALSE
      OBVIOUS
    <3>1. Types(ss) = << >>
      BY DEF Types, Items
    <3>2. PICK i \in 1..Len(Items(ss, FunctionId)) : HasType(ss, Items(ss, FunctionId)[i])
      <4>1. /\ Main(ss) \in functionCount..(functionCount + Len(Items(ss, FunctionId)) - 1)
            /\ HasType(ss, Items(ss, FunctionId)[Main(ss) - functionCount + 1])
        BY <2>1 DEF MainFits, IsDefined
      <4>2. functionCount \in Nat /\ Len(Items(ss, FunctionId)) \in Nat
        BY <1>1, ImportsAreFinite, ItemsAreList DEF Sound
      <4>3. Main(ss) - functionCount + 1 \in 1..Len(Items(ss, FunctionId))
        BY <4>1, <4>2
      <4> QED
        BY <4>1, <4>3
    <3>3. Items(ss, FunctionId)[i] \in Nat
      BY <3>2 DEF Sound, WellFormed
    <3>4. Len(Types(ss)) = 0
      BY <3>1
    <3> QED
      BY <3>2, <3>3, <3>4 DEF HasType
  <2>3. /\ Sound(uu, functionCount) /\ Memories(uu) = Memories(ss) /\ CanAdd(uu)
        /\ Grows(ss, uu) /\ Named(uu, "_start") = {} /\ Knows(uu, NoArguments)
    <3>1. CASE Knows(ss, NoArguments)
      BY <3>1, <2>1, <1>1, GrowsSelf DEF WithType
    <3>2. CASE ~Knows(ss, NoArguments)
      <4>1. uu = Appended(ss, TypeId, NoArguments)
        BY <3>2 DEF WithType
      <4>2. /\ Sound(uu, functionCount) /\ Memories(uu) = Memories(ss)
            /\ \A name : Named(uu, name) = Named(ss, name)
            /\ \A j : Has(uu, j) <=> Has(ss, j)
            /\ Items(uu, TypeId) = Append(Items(ss, TypeId), NoArguments)
            /\ Grows(ss, uu)
        BY <4>1, <2>2, <1>0, SoundWithItem
      <4>3. /\ Len(Types(ss)) \in Nat /\ Len(Types(uu)) = Len(Types(ss)) + 1
            /\ Types(uu)[Len(Types(ss)) + 1] = NoArguments
        BY <4>2, <1>1, ItemsAreList, ListAppend DEF Types
      <4>4. Len(Types(ss)) \in Matches(uu, NoArguments)
        BY <4>3 DEF Matches, TypeAt
      <4> QED
        BY <4>2, <4>4, <2>1, <1>1 DEF CanAdd, Knows
    <3> QED
      BY <3>1, <3>2
  <2>4. tt = AddFunction(uu, type, "_start", body)
    BY <1>2 DEF AddEmscriptenLauncher, StartBody
  <2> HIDE DEF uu, body
  <2>5. type \in Nat /\ HasType(uu, type) /\ TypeAt(uu, type) = NoArguments
    BY <2>3, FoundType DEF Sound, WellFormed
  <2> HIDE DEF type
  <2> QED
    <3>1. Sound(tt, functionCount) /\ Memories(tt) = Memories(uu) /\ Grows(uu, tt)
      BY <2>3, <2>4, <2>5, SoundWithFunction
    <3>2. Behind(tt, "_start", TypeAt(uu, type), body)
      BY <2>3, <2>4, <2>5, AddedIsBehind
    <3>3. Grows(ss, tt)
      BY <3>1, <2>3, <1>1, GrowsOn DEF Sound, WellFormed
    <3> QED
      BY <3>1, <3>2, <3>3, <2>3, <2>5 DEF body
<1>3. CASE kind # "emscripten"
  <2> DEFINE uu == Appended(ss, TypeId, NoArguments)
             type == Len(Types(ss))
             body == StartBody(ss)
             added == AddFunction(uu, type, "_start", body)
  <2>1. Has(ss, TypeId) /\ CanAdd(ss)
    BY <1>3 DEF LauncherError, StartLauncherError
  <2>2. /\ Sound(uu, functionCount) /\ Memories(uu) = Memories(ss)
        /\ \A name : Named(uu, name) = Named(ss, name)
        /\ \A j : Has(uu, j) <=> Has(ss, j)
        /\ Items(uu, TypeId) = Append(Items(ss, TypeId), NoArguments)
        /\ Grows(ss, uu)
    BY <2>1, <1>0, SoundWithItem
  <2>3. CanAdd(uu) /\ Named(uu, "_start") = {}
    BY <2>1, <2>2, <1>1 DEF CanAdd
  <2>4. type \in Nat /\ HasType(uu, type) /\ TypeAt(uu, type) = NoArguments
    <3>1. /\ Len(Types(ss)) \in Nat /\ Len(Types(uu)) = Len(Types(ss)) + 1
          /\ Types(uu)[Len(Types(ss)) + 1] = NoArguments
      BY <2>2, <1>1, ItemsAreList, ListAppend DEF Types
    <3> QED
      BY <3>1 DEF HasType, TypeAt
  <2>5. tt = WithSegment(added)
    BY <1>3 DEF AddStartLauncher, StartBody
  <2> HIDE DEF uu, type, body
  <2>6. /\ Sound(added, functionCount) /\ Memories(added) = Memories(uu) /\ Grows(ss, added)
        /\ Behind(added, "_start", NoArguments, body)
    <3>1. Sound(added, functionCount) /\ Memories(added) = Memories(uu) /\ Grows(uu, added)
      BY <2>2, <2>3, <2>4, SoundWithFunction
    <3>2. Behind(added, "_start", TypeAt(uu, type), body)
      BY <2>2, <2>3, <2>4, AddedIsBehind
    <3>3. Grows(ss, added)
      BY <3>1, <2>2, <1>1, GrowsOn DEF Sound, WellFormed
    <3> QED
      BY <3>1, <3>2, <3>3, <2>4
  <2> HIDE DEF added
  <2>7. CASE tt = added
    BY <2>2, <2>6, <2>7 DEF body
  <2>8. CASE Has(added, DataId) /\ tt = Appended(added, DataId, "argv")
    <3>1. Sound(tt, functionCount) /\ Memories(tt) = Memories(added) /\ Grows(added, tt)
      BY <2>6, <2>8, SoundWithItem DEF DataId, TypeId
    <3>2. Behind(tt, "_start", NoArguments, body)
      BY <3>1, <2>6, BehindOn DEF Sound
    <3>3. Grows(ss, tt)
      BY <3>1, <2>6, <1>1, GrowsOn DEF Sound, WellFormed
    <3> QED
      BY <3>1, <3>2, <3>3, <2>2, <2>6 DEF body
  <2> QED
    BY <2>5, <2>7, <2>8 DEF WithSegment
<1> QED
  BY <1>2, <1>3

-----------------------------------------------------------------------------
(* The invariant *)

\* The modules that StaysValid is about.
Asked ==
    /\ Valid(source.sections) /\ kind # ""
    /\ \A name \in OwnExports : Named(source.sections, name) = {}

SourceFormed == WellFormed(source.sections)

\* Nothing is edited before the imports are.
Unedited == stage \in {"classify", "decode", "imports"} => sections = source.sections

Edits == {"invokes", "resize", "launcher", "encode", "done"}

StagesSound == stage \in Edits => Sound(sections, functionCount)

\* A memory that was taken from the imports is owed until it is defined.
MemoryOwed ==
    /\ stage = "invokes" => /\ IsList(memory)
                            /\ Memories(sections) + Len(memory) = Memories(source.sections)
    /\ stage \in Edits \ {"invokes"} => Memories(sections) = Memories(source.sections)

\* Names that are still to be exported are free.
NamesFree ==
    /\ stage = "invokes" =>
         /\ todo \subseteq {name \in Lists!ToSet(InvokeNames) : IsInvoked(name)}
         /\ \A name \in todo : Named(sections, Trampoline(name)) = {}
    /\ stage \in {"invokes", "resize"} => Named(sections, ResizeWrapper) = {}

IInv ==
    /\ SourceFormed /\ Unedited
    /\ Asked => StagesSound /\ MemoryOwed /\ NamesFree

LEMMA Initially == Init => IInv
<1> SUFFICES ASSUME Init PROVE IInv
  OBVIOUS
<1>1. SourceFormed
  BY SourceAssumption DEF Init, SourceFormed, SourceAssumption
<1> QED
  BY <1>1 DEF Init, IInv, Unedited, StagesSound, MemoryOwed, NamesFree, Edits

LEMMA StepClassify == IInv /\ Classify => IInv'
<1> SUFFICES ASSUME IInv, Classify PROVE IInv'
  OBVIOUS
<1>1. /\ stage = "classify" /\ stage' \in {"unchanged", "decode"}
      /\ source' = source /\ sections' = sections
  BY DEF Classify, At, Go
<1> QED
  BY <1>1 DEF IInv, SourceFormed, Unedited, StagesSound, MemoryOwed, NamesFree, Edits

LEMMA StepDecode == IInv /\ DecodeSections => IInv'
<1> SUFFICES ASSUME IInv, DecodeSections PROVE IInv'
  OBVIOUS
<1>1. /\ stage = "decode" /\ stage' \in {"failed", "imports"}
      /\ source' = source /\ sections' = sections
  BY DEF DecodeSections, At, Go
<1> QED
  BY <1>1 DEF IInv, SourceFormed, Unedited, StagesSound, MemoryOwed, NamesFree, Edits

LEMMA StepImports == IInv /\ RewriteImports => IInv'
<1> SUFFICES ASSUME IInv, RewriteImports PROVE IInv'
  OBVIOUS
<1>1. source' = source /\ kind' = kind
  BY DEF RewriteImports
<1>2. SourceFormed' /\ (Asked' <=> Asked)
  BY <1>1 DEF IInv, SourceFormed, Asked
<1>3. CASE RewriteError /\ Fail
  <2>1. stage' = "failed"
    BY <1>3 DEF Fail, Go
  <2> QED
    BY <1>2, <2>1 DEF IInv, Unedited, StagesSound, MemoryOwed, NamesFree, Edits
<1>4. CASE ~RewriteError
  <2>1. /\ sections' = IF Has(source.sections, ImportId)
                       THEN [source.sections EXCEPT
                               ![SectionIndex(source.sections, ImportId)].items = Rewritten]
                       ELSE source.sections
        /\ functionCount' = Cardinality({i \in 1..Len(Imports) : Counts(Imports[i])})
        /\ todo' = {name \in Lists!ToSet(InvokeNames) : IsInvoked(name)}
        /\ memory' = IF Taken = {} THEN << >> ELSE <<Imports[First(Taken)].type>>
        /\ stage' = IF kind = "" THEN "encode" ELSE "invokes"
    BY <1>4 DEF RewriteImports, Go
  <2>2. Unedited'
    BY <2>1 DEF Unedited
  <2>3. ASSUME Asked PROVE (StagesSound /\ MemoryOwed /\ NamesFree)'
    <3>1. WellFormed(source.sections) /\ Valid(source.sections) /\ stage' = "invokes"
      BY <2>1, <2>3 DEF IInv, SourceFormed, Asked
    <3>2. /\ Sound(sections', functionCount') /\ IsList(memory')
          /\ Memories(sections') + Len(memory') = Memories(source.sections)
          /\ \A name : Named(sections', name) = Named(source.sections, name)
      BY <2>1, <3>1, SoundRewritten
    <3>3. \A name \in todo' : Trampoline(name) \in OwnExports
      BY <2>1 DEF OwnExports
    <3>4. ResizeWrapper \in OwnExports
      BY DEF OwnExports
    <3>5. StagesSound'
      BY <3>2 DEF StagesSound, Sound, WellFormed, Valid, Sectioned
    <3>6. MemoryOwed'
      BY <1>1, <3>1, <3>2 DEF MemoryOwed, Memories
    <3>7. /\ todo' \subseteq {name \in Lists!ToSet(InvokeNames) : IsInvoked(name)'}
          /\ \A name \in todo' : Named(sections', Trampoline(name)) = {}
          /\ Named(sections', ResizeWrapper) = {}
      <4>1. \A name : IsInvoked(name)' <=> IsInvoked(name)
        BY <1>1 DEF IsInvoked, Invokes, Imports, IsInvoke
      <4>2. \A name \in OwnExports : Named(sections', name) = {}
        BY <3>2, <2>3 DEF Asked
      <4> QED
        BY <2>1, <3>3, <3>4, <4>1, <4>2
    <3> QED
      BY <3>5, <3>6, <3>7 DEF NamesFree, IsInvoked
  <2> QED
    BY <1>2, <2>2, <2>3 DEF IInv
<1> QED
  BY <1>3, <1>4 DEF RewriteImports

\* The last import of a name that is imported is one of them.
LEMMA RememberedImport ==
    ASSUME SourceFormed, NEW name, IsInvoked(name)
    PROVE  InvokeIndex(name) \in Nat /\ \E i \in Invokes(name) : InvokeIndex(name) = Imports[i].type
<1> DEFINE P == Invokes(name)
           n == Len(Imports)
<1>1. Sectioned(source.sections) /\ n \in Nat
  BY ItemsAreList DEF SourceFormed, WellFormed, Imports
<1>2. P \subseteq 1..n /\ P # {}
  BY DEF IsInvoked, Invokes
<1> HIDE DEF P, n
<1>3. Last(P) \in P
  BY <1>1, <1>2, LastIsGreatest
<1>4. \A k \in P : Imports[k].type \in Nat
  BY <1>2 DEF SourceFormed, WellFormed, IsImportEntry, Imports, n
<1> QED
  BY <1>3, <1>4 DEF InvokeIndex, P

LEMMA StepInvoke == IInv /\ AddInvokeWrapper => IInv'
<1> SUFFICES ASSUME IInv, AddInvokeWrapper PROVE IInv'
  OBVIOUS
<1> DEFINE name == InvokeNames[First({i \in 1..Len(InvokeNames) : InvokeNames[i] \in todo})]
           index == InvokeIndex(name)
           type == TypeAt(sections, index)
           callback == Func(Tail(type.params), type.results)
           body == [k \in 1..Len(type.params) |-> LocalGet]
                   \o <<CallIndirect(FindType(sections, callback))>>
<1>1. /\ source' = source /\ kind' = kind /\ functionCount' = functionCount
      /\ memory' = memory /\ stage = "invokes" /\ todo # {}
  BY DEF AddInvokeWrapper, At
<1>2. SourceFormed' /\ (Asked' <=> Asked)
  BY <1>1 DEF IInv, SourceFormed, Asked
<1>3. \/ stage' = "failed"
      \/ /\ HasType(sections, index) /\ CanAdd(sections)
         /\ sections' = AddFunction(sections, index, Trampoline(name), body)
         /\ todo' = todo \ {name} /\ stage' = stage
  BY DEF AddInvokeWrapper, Fail, Go
<1> HIDE DEF name, index, body
<1>4. CASE stage' = "failed"
  BY <1>2, <1>4 DEF IInv, Unedited, StagesSound, MemoryOwed, NamesFree, Edits
<1>5. CASE /\ HasType(sections, index) /\ CanAdd(sections)
           /\ sections' = AddFunction(sections, index, Trampoline(name), body)
           /\ todo' = todo \ {name} /\ stage' = stage
  <2>1. Unedited'
    BY <1>1, <1>5 DEF Unedited
  <2>2. ASSUME Asked PROVE (StagesSound /\ MemoryOwed /\ NamesFree)'
    <3>1. /\ Sound(sections, functionCount) /\ IsList(memory)
          /\ Memories(sections) + Len(memory) = Memories(source.sections)
          /\ todo \subseteq {n \in Lists!ToSet(InvokeNames) : IsInvoked(n)}
          /\ \A n \in todo : Named(sections, Trampoline(n)) = {}
          /\ Named(sections, ResizeWrapper) = {}
      BY <1>1, <2>2 DEF IInv, StagesSound, MemoryOwed, NamesFree, Edits
    <3>2. name \in todo
      <4>1. todo \subseteq Lists!ToSet(InvokeNames)
        BY <3>1
      <4> QED
        BY <4>1, <1>1, NextName DEF name
    <3>3. index \in Nat
      <4>1. SourceFormed /\ IsInvoked(name)
        BY <3>1, <3>2 DEF IInv
      <4> QED
        BY <4>1, RememberedImport DEF index
    <3>4. Named(sections, Trampoline(name)) = {}
      BY <3>1, <3>2
    <3>5. /\ Sound(sections', functionCount) /\ Memories(sections') = Memories(sections)
          /\ \A other : other # Trampoline(name) => Named(sections', other) = Named(sections, other)
      BY <1>5, <3>1, <3>3, <3>4, SoundWithFunction
    <3>6. /\ \A n \in todo' : Trampoline(n) # Trampoline(name)
          /\ ResizeWrapper # Trampoline(name)
      BY <1>5, <3>1, <3>2, SourceAssumption DEF SourceAssumption
    <3>7. \A n : IsInvoked(n)' <=> IsInvoked(n)
      BY <1>1 DEF IsInvoked, Invokes, Imports, IsInvoke
    <3>8. /\ todo' \subseteq {n \in Lists!ToSet(InvokeNames) : IsInvoked(n)'}
          /\ \A n \in todo' : Named(sections', Trampoline(n)) = {}
          /\ Named(sections', ResizeWrapper) = {}
      BY <1>5, <3>1, <3>5, <3>6, <3>7
    <3> QED
      BY <1>1, <1>5, <3>1, <3>5, <3>8 DEF StagesSound, MemoryOwed, NamesFree, Edits
  <2> QED
    BY <1>2, <2>1, <2>2 DEF IInv
<1> QED
  BY <1>3, <1>4, <1>5

LEMMA StepMemory == IInv /\ DefineImportedMemory => IInv'
<1> SUFFICES ASSUME IInv, DefineImportedMemory PROVE IInv'
  OBVIOUS
<1>1. /\ source' = source /\ kind' = kind /\ functionCount' = functionCount
      /\ stage = "invokes" /\ stage' \in {"failed", "resize"}
  BY DEF DefineImportedMemory, At, Fail, Go
<1>2. SourceFormed' /\ (Asked' <=> Asked) /\ Unedited'
  BY <1>1 DEF IInv, SourceFormed, Asked, Unedited
<1>3. CASE stage' = "failed"
  BY <1>2, <1>3 DEF IInv, StagesSound, MemoryOwed, NamesFree, Edits
<1>4. ASSUME stage' = "resize", Asked PROVE (StagesSound /\ MemoryOwed /\ NamesFree)'
  <2>1. /\ Sound(sections, functionCount) /\ IsList(memory)
        /\ Memories(sections) + Len(memory) = Memories(source.sections)
        /\ Named(sections, ResizeWrapper) = {}
    BY <1>1, <1>4 DEF IInv, StagesSound, MemoryOwed, NamesFree, Edits
  <2>2. /\ Sound(sections', functionCount) /\ Memories(sections') = Memories(source.sections)
        /\ Named(sections', ResizeWrapper) = {}
    <3>1. CASE memory = << >> /\ sections' = sections
      <4>1. Memories(sections) \in Nat /\ Len(memory) = 0
        <5>1. Sectioned(sections)
          BY <2>1 DEF Sound, WellFormed
        <5>2. Cardinality(Imported(sections, "memory")) \in Nat /\ Len(Items(sections, MemoryId)) \in Nat
          BY <5>1, ImportsAreFinite, ItemsAreList
        <5> QED
          BY <5>2, <3>1 DEF Memories
      <4> QED
        BY <4>1, <3>1, <2>1
    <3>2. CASE /\ ~Has(sections, MemoryId)
               /\ sections' = Inserted(sections, [id |-> MemoryId, items |-> memory])
      BY <3>2, <2>1, SoundWithMemory
    <3> QED
      BY <3>1, <3>2, <1>4 DEF DefineImportedMemory, Fail, Go
  <2> QED
    BY <1>1, <1>4, <2>2 DEF StagesSound, MemoryOwed, NamesFree, Edits
<1> QED
  BY <1>1, <1>2, <1>3, <1>4 DEF IInv

LEMMA StepResize == IInv /\ AddResizeHeapWrapper => IInv'
<1> SUFFICES ASSUME IInv, AddResizeHeapWrapper PROVE IInv'
  OBVIOUS
<1> DEFINE type == Func(I32s(1), I32s(1))
<1>1. /\ source' = source /\ kind' = kind /\ functionCount' = functionCount
      /\ stage = "resize" /\ stage' \in {"failed", "launcher"}
  BY DEF AddResizeHeapWrapper, At, Fail, Go
<1>2. SourceFormed' /\ (Asked' <=> Asked) /\ Unedited'
  BY <1>1 DEF IInv, SourceFormed, Asked, Unedited
<1>3. CASE stage' = "failed"
  BY <1>2, <1>3 DEF IInv, StagesSound, MemoryOwed, NamesFree, Edits
<1>4. ASSUME stage' = "launcher", Asked PROVE (StagesSound /\ MemoryOwed /\ NamesFree)'
  <2>1. /\ Sound(sections, functionCount) /\ Memories(sections) = Memories(source.sections)
        /\ Named(sections, ResizeWrapper) = {} /\ Sectioned(sections)
    BY <1>1, <1>4 DEF IInv, StagesSound, MemoryOwed, NamesFree, Edits, Sound, WellFormed
  <2>2. Sound(sections', functionCount) /\ Memories(sections') = Memories(source.sections)
    <3>1. CASE sections' = sections
      BY <3>1, <2>1
    <3>2. CASE /\ Knows(sections, type) /\ CanAdd(sections)
               /\ sections' = AddFunction(sections, FindType(sections, type), ResizeWrapper, ResizeBody)
      <4> HIDE DEF type
      <4>1. FindType(sections, type) \in Nat /\ HasType(sections, FindType(sections, type))
        BY <3>2, <2>1, FoundType
      <4> QED
        BY <4>1, <3>2, <2>1, SoundWithFunction
    <3> QED
      BY <3>1, <3>2, <1>4 DEF AddResizeHeapWrapper, Fail, Go
  <2> QED
    BY <1>1, <1>4, <2>2 DEF StagesSound, MemoryOwed, NamesFree, Edits
<1> QED
  BY <1>1, <1>2, <1>3, <1>4 DEF IInv

LEMMA StepLauncher == IInv /\ AddLauncher => IInv'
<1> SUFFICES ASSUME IInv, AddLauncher PROVE IInv'
  OBVIOUS
<1>1. /\ source' = source /\ kind' = kind /\ functionCount' = functionCount
      /\ stage = "launcher" /\ stage' \in {"failed", "encode"}
  BY DEF AddLauncher, At, Fail, Go
<1>2. SourceFormed' /\ (Asked' <=> Asked) /\ Unedited'
  BY <1>1 DEF IInv, SourceFormed, Asked, Unedited
<1>3. CASE stage' = "failed"
  BY <1>2, <1>3 DEF IInv, StagesSound, MemoryOwed, NamesFree, Edits
<1>4. ASSUME stage' = "encode", Asked PROVE (StagesSound /\ MemoryOwed /\ NamesFree)'
  <2>1. Sound(sections, functionCount) /\ Memories(sections) = Memories(source.sections)
    BY <1>1, <1>4 DEF IInv, StagesSound, MemoryOwed, NamesFree, Edits
  <2>2. /\ ~LauncherError(sections)
        /\ sections' = IF HasStart(sections) THEN sections
                       ELSE IF kind = "emscripten" THEN AddEmscriptenLauncher(sections)
                       ELSE AddStartLauncher(sections)
    BY <1>4 DEF AddLauncher, Fail, Go
  <2>3. Sound(sections', functionCount) /\ Memories(sections') = Memories(sections)
    <3>1. CASE HasStart(sections)
      BY <3>1, <2>1, <2>2
    <3>2. CASE ~HasStart(sections)
      BY <3>2, <2>1, <2>2, SoundLaunched
    <3> QED
      BY <3>1, <3>2
  <2> QED
    BY <1>1, <1>4, <2>1, <2>3 DEF StagesSound, MemoryOwed, NamesFree, Edits
<1> QED
  BY <1>1, <1>2, <1>3, <1>4 DEF IInv

LEMMA StepEncode == IInv /\ EncodeSections => IInv'
<1> SUFFICES ASSUME IInv, EncodeSections PROVE IInv'
  OBVIOUS
<1>1. /\ stage = "encode" /\ stage' = "done" /\ source' = source /\ kind' = kind
      /\ sections' = sections /\ functionCount' = functionCount
  BY DEF EncodeSections, At, Go
<1>2. SourceFormed' /\ (Asked' <=> Asked) /\ Unedited'
  BY <1>1 DEF IInv, SourceFormed, Asked, Unedited
<1>3. ASSUME Asked PROVE (StagesSound /\ MemoryOwed /\ NamesFree)'
  BY <1>1, <1>3 DEF IInv, StagesSound, MemoryOwed, NamesFree, Edits
<1> QED
  BY <1>2, <1>3 DEF IInv

LEMMA Invariance == Spec => []IInv
<1>1. ASSUME IInv, [Next]_vars PROVE IInv'
  <2>1. CASE UNCHANGED vars
    <3>1. (Asked' <=> Asked) /\ \A n : IsInvoked(n)' <=> IsInvoked(n)
      BY <2>1 DEF vars, Asked, IsInvoked, Invokes, Imports, IsInvoke
    <3> QED
      BY <3>1, <2>1, <1>1 DEF vars, IInv, SourceFormed, Unedited, StagesSound, MemoryOwed, NamesFree
  <2>2. CASE Next
    BY <1>1, <2>2, StepClassify, StepDecode, StepImports, StepInvoke, StepMemory, StepResize,
       StepLauncher, StepEncode DEF Next
  <2> QED
    BY <1>1, <2>1, <2>2
<1> QED
  BY <1>1, Initially, PTL DEF Spec

-----------------------------------------------------------------------------
(* The imports and what answers them *)

TrampolineType(name) == TypeAt(source.sections, InvokeIndex(name))

\* The sections say what the source imports, by types that have not moved.
ImportsStand ==
    /\ stage \in Edits => /\ Items(sections, ImportId) = Rewritten
                          /\ Begins(Types(source.sections), Types(sections))
                          /\ (resizes <=> ImportsResize)
    /\ stage = "invokes" => Types(sections) = Types(source.sections)

TrampolinesStand ==
    stage \in Edits =>
        \A name \in Lists!ToSet(InvokeNames) :
            IsInvoked(name) /\ ~(stage = "invokes" /\ name \in todo) =>
                Offered(sections, Trampoline(name), TrampolineType(name),
                        CallsBack(TrampolineType(name)))

ResizeStands ==
    stage \in {"launcher", "encode", "done"} /\ resizes =>
        Offered(sections, ResizeWrapper, Func(I32s(1), I32s(1)), ResizeBody[1])

Answers == Asked => ImportsStand /\ TrampolinesStand /\ ResizeStands

LEMMA Unmoved ==
    source' = source /\ kind' = kind =>
        /\ Rewritten' = Rewritten /\ (ImportsResize' <=> ImportsResize)
        /\ (Asked' <=> Asked) /\ Types(source.sections)' = Types(source.sections)
        /\ \A name : (IsInvoked(name)' <=> IsInvoked(name))
                     /\ TrampolineType(name)' = TrampolineType(name)
<1> SUFFICES ASSUME source' = source, kind' = kind
             PROVE  /\ Rewritten' = Rewritten /\ (ImportsResize' <=> ImportsResize)
                    /\ (Asked' <=> Asked) /\ Types(source.sections)' = Types(source.sections)
                    /\ \A name : (IsInvoked(name)' <=> IsInvoked(name))
                                 /\ TrampolineType(name)' = TrampolineType(name)
  OBVIOUS
<1>1. Imports' = Imports
  BY DEF Imports
<1>2. Kept' = Kept
  <2>1. Taken' = Taken
    BY <1>1 DEF Taken, TakesMemory, IsMemory
  <2> QED
    BY <1>1, <2>1 DEF Kept
<1>3. Rewritten' = Rewritten
  <2>1. \A entry : Renamed(entry)' = Renamed(entry)
    BY DEF Renamed
  <2> QED
    BY <1>2, <2>1 DEF Rewritten
<1>4. ImportsResize' <=> ImportsResize
  BY <1>1 DEF ImportsResize
<1>5. \A name : Invokes(name)' = Invokes(name)
  BY <1>1 DEF Invokes
<1>6. \A name : (IsInvoked(name)' <=> IsInvoked(name)) /\ InvokeIndex(name)' = InvokeIndex(name)
  BY <1>1, <1>5 DEF IsInvoked, InvokeIndex
<1> QED
  BY <1>3, <1>4, <1>6 DEF TrampolineType, Asked

\* A stage that adds to the sections leaves in place what was there.
LEMMA AnswersOn ==
    /\ IInv /\ IInv' /\ Answers /\ Asked
    /\ source' = source /\ kind' = kind /\ resizes' = resizes
    /\ stage \in Edits /\ stage' \in Edits /\ Grows(sections, sections')
    => /\ Items(sections', ImportId) = Rewritten'
       /\ Begins(Types(source.sections)', Types(sections'))
       /\ (resizes' <=> ImportsResize')
       /\ \A name, type, last :
            Offered(sections, name, type, last) => Offered(sections', name, type, last)
<1> SUFFICES ASSUME IInv, IInv', Answers, Asked,
                    source' = source, kind' = kind, resizes' = resizes,
                    stage \in Edits, stage' \in Edits, Grows(sections, sections')
             PROVE  /\ Items(sections', ImportId) = Rewritten'
                    /\ Begins(Types(source.sections)', Types(sections'))
                    /\ (resizes' <=> ImportsResize')
                    /\ \A name, type, last :
                         Offered(sections, name, type, last) => Offered(sections', name, type, last)
  OBVIOUS
<1>1. /\ Rewritten' = Rewritten /\ (ImportsResize' <=> ImportsResize) /\ Asked'
      /\ Types(source.sections)' = Types(source.sections)
  BY Unmoved
<1>2. WellFormed(sections) /\ Valid(sections)
  BY DEF IInv, StagesSound, Sound
<1>3. WellFormed(sections') /\ Valid(sections')
  BY <1>1 DEF IInv, StagesSound, Sound
<1>4. /\ Items(sections, ImportId) = Rewritten
      /\ Begins(Types(source.sections), Types(sections))
      /\ (resizes <=> ImportsResize)
  BY DEF Answers, ImportsStand
<1>5. Begins(Types(source.sections), Types(sections'))
  <2> DEFINE a == Types(source.sections)
             b == Types(sections)
             c == Types(sections')
  <2>1. Sectioned(source.sections)
    BY DEF IInv, SourceFormed, WellFormed
  <2>2. Len(a) \in Nat /\ Len(b) \in Nat /\ Len(c) \in Nat
    BY <2>1, <1>2, <1>3, ItemsAreList DEF Types, WellFormed
  <2>3. Begins(a, b) /\ Begins(b, c)
    BY <1>4 DEF Grows, Types
  <2> HIDE DEF a, b, c
  <2>4. Begins(a, c)
    BY <2>2, <2>3 DEF Begins
  <2> QED
    BY <2>4 DEF a, c
<1>6. Items(sections', ImportId) = Rewritten
  BY <1>4 DEF Grows
<1>7. \A name, type, last :
        Offered(sections, name, type, last) => Offered(sections', name, type, last)
  BY <1>2, <1>3, OfferedOn
<1> QED
  BY <1>1, <1>4, <1>5, <1>6, <1>7

\* Stages at which nothing is said, or nothing was asked.
LEMMA AnswersEarly ==
    ASSUME ~(stage' \in Edits /\ Asked')
    PROVE  Answers'
  BY DEF Answers, ImportsStand, TrampolinesStand, ResizeStands, Edits

LEMMA AnswersImports == IInv /\ RewriteImports => Answers'
<1> SUFFICES ASSUME IInv, RewriteImports, stage' \in Edits, Asked' PROVE Answers'
  BY AnswersEarly
<1>1. source' = source /\ kind' = kind
  BY DEF RewriteImports
<1>2. /\ Rewritten' = Rewritten /\ (ImportsResize' <=> ImportsResize) /\ Asked
      /\ Types(source.sections)' = Types(source.sections)
      /\ \A name : IsInvoked(name)' <=> IsInvoked(name)
  BY <1>1, Unmoved
<1>3. ~Fail
  BY DEF Fail, Go, Edits
<1>4. /\ sections' = IF Has(source.sections, ImportId)
                     THEN [source.sections EXCEPT
                             ![SectionIndex(source.sections, ImportId)].items = Rewritten]
                     ELSE source.sections
      /\ functionCount' = Cardinality({i \in 1..Len(Imports) : Counts(Imports[i])})
      /\ resizes' = ImportsResize
      /\ todo' = {name \in Lists!ToSet(InvokeNames) : IsInvoked(name)}
      /\ memory' = IF Taken = {} THEN << >> ELSE <<Imports[First(Taken)].type>>
      /\ stage' = IF kind = "" THEN "encode" ELSE "invokes"
  BY <1>3 DEF RewriteImports, Go
<1>5. WellFormed(source.sections) /\ Valid(source.sections) /\ stage' = "invokes"
  BY <1>2, <1>4 DEF IInv, SourceFormed, Asked
<1>6. Items(sections', ImportId) = Rewritten /\ Types(sections') = Types(source.sections)
  BY <1>4, <1>5, SoundRewritten
<1>7. Begins(Types(source.sections), Types(source.sections))
  BY <1>5, ItemsAreList, BeginsAppended DEF WellFormed, Types
<1>8. ImportsStand'
  BY <1>2, <1>4, <1>5, <1>6, <1>7 DEF ImportsStand
<1>9. TrampolinesStand'
  BY <1>2, <1>4, <1>5 DEF TrampolinesStand
<1> QED
  BY <1>5, <1>8, <1>9 DEF Answers, ResizeStands

LEMMA AnswersInvoke == IInv /\ IInv' /\ Answers /\ AddInvokeWrapper => Answers'
<1> SUFFICES ASSUME IInv, IInv', Answers, AddInvokeWrapper, stage' \in Edits, Asked' PROVE Answers'
  BY AnswersEarly
<1> DEFINE name == InvokeNames[First({i \in 1..Len(InvokeNames) : InvokeNames[i] \in todo})]
           index == InvokeIndex(name)
           type == TypeAt(sections, index)
           callback == Func(Tail(type.params), type.results)
           target == FindType(sections, callback)
           body == [k \in 1..Len(type.params) |-> LocalGet] \o <<CallIndirect(target)>>
<1>1. /\ source' = source /\ kind' = kind /\ resizes' = resizes
      /\ stage = "invokes" /\ todo # {} /\ stage \in Edits
  BY DEF AddInvokeWrapper, At, Edits
<1>2. /\ Asked /\ Types(source.sections)' = Types(source.sections)
      /\ \A n : (IsInvoked(n)' <=> IsInvoked(n)) /\ TrampolineType(n)' = TrampolineType(n)
  BY <1>1, Unmoved
<1>3. /\ HasType(sections, index) /\ Knows(sections, callback) /\ CanAdd(sections)
      /\ sections' = AddFunction(sections, index, Trampoline(name), body)
      /\ todo' = todo \ {name} /\ stage' = stage
  BY DEF AddInvokeWrapper, Fail, Go, Edits
<1>4. /\ Sound(sections, functionCount)
      /\ todo \subseteq {n \in Lists!ToSet(InvokeNames) : IsInvoked(n)}
      /\ \A n \in todo : Named(sections, Trampoline(n)) = {}
  BY <1>1, <1>2 DEF IInv, StagesSound, NamesFree
<1>5. name \in todo
  <2>1. todo \subseteq Lists!ToSet(InvokeNames)
    BY <1>4
  <2> HIDE DEF index, body
  <2> QED
    BY <2>1, <1>1, NextName DEF name
<1> HIDE DEF name
<1>6. index \in Nat
  BY <1>4, <1>5, RememberedImport DEF IInv, index
<1>7. Named(sections, Trampoline(name)) = {}
  BY <1>4, <1>5
<1>8. Types(sections) = Types(source.sections)
  BY <1>1, <1>2 DEF Answers, ImportsStand
<1>9. type = TrampolineType(name)
  BY <1>8 DEF TypeAt, TrampolineType
<1>10. target \in Nat /\ HasType(sections, target) /\ TypeAt(sections, target) = callback
  BY <1>3, <1>4, FoundType DEF Sound, WellFormed
<1>11. Ends(sections, body, CallsBack(type))
  <2>1. Len(type.params) \in Nat
    <3>1. Len(Types(sections)) \in Nat
      BY <1>4, ItemsAreList DEF Sound, WellFormed, Types
    <3>2. index + 1 \in 1..Len(Types(sections))
      BY <3>1, <1>3, <1>6 DEF HasType
    <3> QED
      BY <3>2, <1>4 DEF Sound, WellFormed, IsList, TypeAt
  <2> DEFINE n == Len(type.params)
             gets == [k \in 1..n |-> LocalGet]
             call == CallIndirect(target)
             whole == gets \o <<call>>
  <2>2. n \in Nat
    BY <2>1
  <2> HIDE DEF n
  <2>3. gets \in Seq({LocalGet}) /\ Len(gets) = n
    BY <2>2
  <2> HIDE DEF gets, call
  <2>4. /\ Len(whole) = n + 1 /\ whole[n + 1] = call
    <3>1. <<call>> \in Seq({call}) /\ Len(<<call>>) = 1 /\ <<call>>[1] = call
      OBVIOUS
    <3>2. gets \in Seq({LocalGet, call}) /\ <<call>> \in Seq({LocalGet, call})
      BY <2>3, <3>1
    <3> QED
      BY <2>2, <2>3, <3>1, <3>2, ConcatProperties
  <2>5. body = whole
    BY DEF gets, call, n
  <2>6. call.op = "call_indirect" /\ call.n = target
    BY DEF call, CallIndirect
  <2>7. CallsBack(type).op = "call_indirect" /\ CallsBack(type).type = callback
    BY DEF CallsBack
  <2> HIDE DEF body, callback, target, type, index
  <2>8. whole # << >>
    <3> HIDE DEF whole
    <3>1. Len(whole) # 0
      BY <2>2, <2>4
    <3> QED
      BY <3>1
  <2>9. body # << >> /\ body[Len(body)] = call
    BY <2>4, <2>5, <2>8
  <2> QED
    BY <2>6, <2>7, <2>9, <1>10 DEF Ends
<1> HIDE DEF body, callback, target
<1>12. Offered(sections', Trampoline(name), type, CallsBack(type))
  <2> HIDE DEF index
  <2> QED
    BY <1>3, <1>4, <1>6, <1>7, <1>11, AddedIsOffered
<1>13. Grows(sections, sections') /\ Types(sections') = Types(sections)
  <2> HIDE DEF index, type
  <2>1. Grows(sections, sections')
    BY <1>3, <1>4, <1>6, <1>7, SoundWithFunction
  <2>2. \A k \in (0..13) \ {FunctionId, ExportId, CodeId} : Items(sections', k) = Items(sections, k)
    <3> DEFINE export == [name |-> Trampoline(name), kind |-> "func", index |-> NewIndex(sections)]
    <3>1. Sectioned(sections)
      BY <1>4 DEF Sound, WellFormed
    <3>2. export = [name |-> Trampoline(name), kind |-> "func", index |-> NewIndex(sections)]
      OBVIOUS
    <3> HIDE DEF export
    <3> QED
      BY <3>1, <3>2, <1>3, AddedFunction
  <2>3. Types(sections') = Types(sections)
    BY <2>2 DEF Types, TypeId, FunctionId, ExportId, CodeId
  <2> QED
    BY <2>1, <2>3
<1> HIDE DEF type, index
<1>14. /\ Items(sections', ImportId) = Rewritten'
       /\ Begins(Types(source.sections)', Types(sections'))
       /\ (resizes' <=> ImportsResize')
       /\ \A n, t, last : Offered(sections, n, t, last) => Offered(sections', n, t, last)
  BY <1>1, <1>2, <1>13, AnswersOn
<1>15. ImportsStand'
  BY <1>2, <1>8, <1>13, <1>14 DEF ImportsStand
<1>16. TrampolinesStand'
  <2> SUFFICES ASSUME NEW n \in Lists!ToSet(InvokeNames), IsInvoked(n)', n \notin todo'
               PROVE  Offered(sections', Trampoline(n), TrampolineType(n), CallsBack(TrampolineType(n)))
    BY <1>1, <1>2, <1>3 DEF TrampolinesStand
  <2>1. CASE n = name
    BY <2>1, <1>9, <1>12
  <2>2. CASE n # name
    <3>1. n \notin todo /\ IsInvoked(n)
      BY <2>2, <1>2, <1>3
    <3>2. Offered(sections, Trampoline(n), TrampolineType(n), CallsBack(TrampolineType(n)))
      BY <3>1, <1>1, <1>2 DEF Answers, TrampolinesStand
    <3> QED
      BY <3>2, <1>14
  <2> QED
    BY <2>1, <2>2
<1>17. ResizeStands'
  BY <1>1, <1>3 DEF ResizeStands
<1> QED
  BY <1>15, <1>16, <1>17 DEF Answers

\* The same for the later stages, which add no trampolines.
LEMMA AnswersLater ==
    /\ IInv /\ IInv' /\ Answers /\ source' = source /\ kind' = kind /\ resizes' = resizes
    /\ stage \in Edits /\ (stage = "invokes" => todo = {})
    /\ stage' \in Edits \ {"invokes"} /\ Grows(sections, sections')
    /\ (Asked /\ stage' \in {"launcher", "encode", "done"} /\ resizes =>
            Offered(sections', ResizeWrapper, Func(I32s(1), I32s(1)), ResizeBody[1]))
    => Answers'
<1> SUFFICES ASSUME IInv, IInv', Answers, source' = source, kind' = kind, resizes' = resizes,
                    stage \in Edits, stage = "invokes" => todo = {},
                    stage' \in Edits \ {"invokes"}, Grows(sections, sections'),
                    Asked /\ stage' \in {"launcher", "encode", "done"} /\ resizes =>
                        Offered(sections', ResizeWrapper, Func(I32s(1), I32s(1)), ResizeBody[1]),
                    Asked'
             PROVE  Answers'
  BY AnswersEarly
<1>1. /\ Asked /\ Types(source.sections)' = Types(source.sections)
      /\ \A n : (IsInvoked(n)' <=> IsInvoked(n)) /\ TrampolineType(n)' = TrampolineType(n)
  BY Unmoved
<1>2. /\ Items(sections', ImportId) = Rewritten'
      /\ Begins(Types(source.sections)', Types(sections'))
      /\ (resizes' <=> ImportsResize')
      /\ \A n, t, last : Offered(sections, n, t, last) => Offered(sections', n, t, last)
  BY <1>1, AnswersOn
<1>3. ImportsStand'
  BY <1>2 DEF ImportsStand
<1>4. TrampolinesStand'
  <2> SUFFICES ASSUME NEW n \in Lists!ToSet(InvokeNames), IsInvoked(n)'
               PROVE  Offered(sections', Trampoline(n), TrampolineType(n), CallsBack(TrampolineType(n)))
    BY <1>1 DEF TrampolinesStand
  <2>1. Offered(sections, Trampoline(n), TrampolineType(n), CallsBack(TrampolineType(n)))
    BY <1>1 DEF Answers, TrampolinesStand
  <2> QED
    BY <2>1, <1>2
<1>5. ResizeStands'
  BY <1>1 DEF ResizeStands
<1> QED
  BY <1>3, <1>4, <1>5 DEF Answers

LEMMA AnswersMemory == IInv /\ IInv' /\ Answers /\ DefineImportedMemory => Answers'
<1> SUFFICES ASSUME IInv, IInv', Answers, DefineImportedMemory, stage' \in Edits, Asked'
             PROVE  Answers'
  BY AnswersEarly
<1>1. /\ source' = source /\ kind' = kind /\ functionCount' = functionCount /\ resizes' = resizes
      /\ stage = "invokes" /\ todo = {} /\ stage' = "resize"
  BY DEF DefineImportedMemory, At, Fail, Go, Edits
<1>2. Asked
  BY <1>1, Unmoved
<1>3. Sound(sections, functionCount) /\ IsList(memory)
  BY <1>1, <1>2 DEF IInv, StagesSound, MemoryOwed, Edits
<1>4. Grows(sections, sections')
  <2>1. CASE sections' = sections
    BY <2>1, <1>3, GrowsSelf DEF Sound, WellFormed
  <2>2. CASE /\ ~Has(sections, MemoryId)
             /\ sections' = Inserted(sections, [id |-> MemoryId, items |-> memory])
    BY <2>2, <1>3, SoundWithMemory
  <2> QED
    BY <2>1, <2>2, <1>1 DEF DefineImportedMemory, Fail, Go
<1> QED
  BY <1>1, <1>4, AnswersLater DEF Edits

LEMMA AnswersResize == IInv /\ IInv' /\ Answers /\ AddResizeHeapWrapper => Answers'
<1> SUFFICES ASSUME IInv, IInv', Answers, AddResizeHeapWrapper, stage' \in Edits, Asked'
             PROVE  Answers'
  BY AnswersEarly
<1> DEFINE type == Func(I32s(1), I32s(1))
           index == FindType(sections, type)
<1>1. /\ source' = source /\ kind' = kind /\ functionCount' = functionCount /\ resizes' = resizes
      /\ stage = "resize" /\ stage' = "launcher"
  BY DEF AddResizeHeapWrapper, At, Fail, Go, Edits
<1>2. Asked
  BY <1>1, Unmoved
<1>3. Sound(sections, functionCount) /\ Named(sections, ResizeWrapper) = {}
  BY <1>1, <1>2 DEF IInv, StagesSound, NamesFree, Edits
<1>4. \/ ~resizes /\ sections' = sections
      \/ /\ Knows(sections, type) /\ CanAdd(sections)
         /\ sections' = AddFunction(sections, index, ResizeWrapper, ResizeBody)
  BY <1>1 DEF AddResizeHeapWrapper, Fail, Go
<1> HIDE DEF type
<1>5. CASE ~resizes /\ sections' = sections
  <2>1. Grows(sections, sections')
    BY <1>5, <1>3, GrowsSelf DEF Sound, WellFormed
  <2> QED
    BY <2>1, <1>1, <1>5, AnswersLater DEF Edits
<1>6. CASE /\ Knows(sections, type) /\ CanAdd(sections)
           /\ sections' = AddFunction(sections, index, ResizeWrapper, ResizeBody)
  <2>1. index \in Nat /\ HasType(sections, index) /\ TypeAt(sections, index) = type
    BY <1>6, <1>3, FoundType DEF Sound, WellFormed
  <2> HIDE DEF index
  <2>2. Ends(sections, ResizeBody, ResizeBody[1])
    <3>1. Len(ResizeBody) = 1 /\ ResizeBody # << >> /\ ResizeBody[1].op = "memory.grow"
      BY DEF ResizeBody
    <3> QED
      BY <3>1 DEF Ends
  <2>3. Grows(sections, sections')
    BY <2>1, <1>3, <1>6, SoundWithFunction
  <2>4. Offered(sections', ResizeWrapper, type, ResizeBody[1])
    BY <2>1, <2>2, <1>3, <1>6, AddedIsOffered
  <2> QED
    BY <2>3, <2>4, <1>1, AnswersLater DEF Edits, type
<1> QED
  BY <1>4, <1>5, <1>6

LEMMA AnswersLauncher == IInv /\ IInv' /\ Answers /\ AddLauncher => Answers'
<1> SUFFICES ASSUME IInv, IInv', Answers, AddLauncher, stage' \in Edits, Asked'
             PROVE  Answers'
  BY AnswersEarly
<1>1. /\ source' = source /\ kind' = kind /\ resizes' = resizes
      /\ stage = "launcher" /\ stage' = "encode"
  BY DEF AddLauncher, At, Fail, Go, Edits
<1>2. Asked
  BY <1>1, Unmoved
<1>3. Sound(sections, functionCount)
  BY <1>1, <1>2 DEF IInv, StagesSound, Edits
<1>4. /\ ~LauncherError(sections)
      /\ sections' = IF HasStart(sections) THEN sections
                     ELSE IF kind = "emscripten" THEN AddEmscriptenLauncher(sections)
                     ELSE AddStartLauncher(sections)
  BY <1>1 DEF AddLauncher, Fail, Go
<1>5. Grows(sections, sections')
  <2>1. CASE HasStart(sections)
    BY <2>1, <1>3, <1>4, GrowsSelf DEF Sound, WellFormed
  <2>2. CASE ~HasStart(sections)
    BY <2>2, <1>3, <1>4, SoundLaunched
  <2> QED
    BY <2>1, <2>2
<1>6. WellFormed(sections) /\ Valid(sections) /\ WellFormed(sections') /\ Valid(sections')
  BY <1>1, <1>2 DEF IInv, StagesSound, Sound, Edits
<1>7. resizes => Offered(sections', ResizeWrapper, Func(I32s(1), I32s(1)), ResizeBody[1])
  <2> SUFFICES ASSUME resizes
               PROVE  Offered(sections', ResizeWrapper, Func(I32s(1), I32s(1)), ResizeBody[1])
    OBVIOUS
  <2>1. Offered(sections, ResizeWrapper, Func(I32s(1), I32s(1)), ResizeBody[1])
    BY <1>1, <1>2 DEF Answers, ResizeStands
  <2> QED
    BY <2>1, <1>5, <1>6, OfferedOn
<1> QED
  BY <1>1, <1>5, <1>7, AnswersLater DEF Edits

LEMMA AnswersEncode == IInv /\ IInv' /\ Answers /\ EncodeSections => Answers'
<1> SUFFICES ASSUME IInv, IInv', Answers, EncodeSections, Asked'
             PROVE  Answers'
  BY AnswersEarly
<1>1. /\ source' = source /\ kind' = kind /\ resizes' = resizes /\ sections' = sections
      /\ stage = "encode" /\ stage' = "done"
  BY DEF EncodeSections, At, Go
<1>2. Asked
  BY <1>1, Unmoved
<1>3. Grows(sections, sections')
  <2>1. Sectioned(sections)
    BY <1>1, <1>2 DEF IInv, StagesSound, Sound, WellFormed, Edits
  <2> QED
    BY <2>1, <1>1, GrowsSelf
<1>4. resizes => Offered(sections', ResizeWrapper, Func(I32s(1), I32s(1)), ResizeBody[1])
  BY <1>1, <1>2 DEF Answers, ResizeStands
<1> QED
  BY <1>1, <1>3, <1>4, AnswersLater DEF Edits

LEMMA AnswersInvariance == Spec => []Answers
<1>1. Init => Answers
  BY DEF Init, Answers, ImportsStand, TrampolinesStand, ResizeStands, Edits
<1>2. ASSUME IInv, IInv', Answers, [Next]_vars PROVE Answers'
  <2>1. CASE UNCHANGED vars
    <3>1. /\ source' = source /\ kind' = kind /\ stage' = stage /\ sections' = sections
          /\ todo' = todo /\ resizes' = resizes
      BY <2>1 DEF vars
    <3>2. /\ Rewritten' = Rewritten /\ (ImportsResize' <=> ImportsResize)
          /\ (Asked' <=> Asked) /\ Types(source.sections)' = Types(source.sections)
          /\ \A name : (IsInvoked(name)' <=> IsInvoked(name))
                       /\ TrampolineType(name)' = TrampolineType(name)
      BY <3>1, Unmoved
    <3> QED
      BY <3>1, <3>2, <1>2 DEF Answers, ImportsStand, TrampolinesStand, ResizeStands
  <2>2. CASE Classify
    <3>1. stage' \notin Edits
      BY <2>2 DEF Classify, Go, Edits
    <3> QED
      BY <3>1, AnswersEarly
  <2>3. CASE DecodeSections
    <3>1. stage' \notin Edits
      BY <2>3 DEF DecodeSections, Go, Edits
    <3> QED
      BY <3>1, AnswersEarly
  <2>4. CASE Next
    BY <1>2, <2>2, <2>3, <2>4, AnswersImports, AnswersInvoke, AnswersMemory, AnswersResize,
       AnswersLauncher, AnswersEncode DEF Next
  <2> QED
    BY <1>2, <2>1, <2>4
<1> QED
  BY <1>1, <1>2, Invariance, PTL DEF Spec

-----------------------------------------------------------------------------
(* The numbers *)

\* From the imports on number is what ReadU32 got, and in a module that failed
\* it shows whether that was one.
Decoded == {"imports", "failed"} \cup Edits

NumberRead ==
    /\ source.number \in Seq(Byte)
    /\ stage \in Decoded => number = ReadU32(source.number).value
    /\ stage \in Decoded \ {"failed"} => number # Invalid.value

LEMMA NumberInvariance == Spec => []NumberRead
<1>1. Init => NumberRead
  BY SourceAssumption DEF SourceAssumption, Init, NumberRead, Decoded, Edits
<1>2. ASSUME NumberRead, [Next]_vars PROVE NumberRead'
  <2> USE DEF NumberRead, Decoded, Edits
  <2>1. CASE UNCHANGED vars
    BY <1>2, <2>1 DEF vars
  <2>2. CASE Classify
    BY <1>2, <2>2 DEF Classify, Go
  <2>3. CASE DecodeSections
    BY <1>2, <2>3 DEF DecodeSections, Go
  <2>4. CASE RewriteImports
    BY <1>2, <2>4 DEF RewriteImports, Fail, Go, At
  <2>5. CASE AddInvokeWrapper
    <3>1. /\ UNCHANGED <<source, number>> /\ stage = "invokes"
          /\ stage' \in {"failed", "invokes"}
      BY <2>5 DEF AddInvokeWrapper, Fail, Go, At
    <3> QED
      BY <1>2, <3>1
  <2>6. CASE DefineImportedMemory
    BY <1>2, <2>6 DEF DefineImportedMemory, Fail, Go, At
  <2>7. CASE AddResizeHeapWrapper
    <3>1. /\ UNCHANGED <<source, number>> /\ stage = "resize"
          /\ stage' \in {"failed", "launcher"}
      BY <2>7 DEF AddResizeHeapWrapper, Fail, Go, At
    <3> QED
      BY <1>2, <3>1
  <2>8. CASE AddLauncher
    BY <1>2, <2>8 DEF AddLauncher, Fail, Go, At
  <2>9. CASE EncodeSections
    BY <1>2, <2>9 DEF EncodeSections, Go, At
  <2> QED
    BY <1>2, <2>1, <2>2, <2>3, <2>4, <2>5, <2>6, <2>7, <2>8, <2>9 DEF Next
<1> QED
  BY <1>1, <1>2, PTL DEF Spec

-----------------------------------------------------------------------------
(* What names stand for *)

\* Sections whose functions have the index of a type.
Formed(ss) ==
    Sectioned(ss) /\ \A i \in 1..Len(Items(ss, FunctionId)) : Items(ss, FunctionId)[i] \in Nat

\* Types, functions and exports stay, and only the names in own are exported anew.
Keeps(ss, tt, own) ==
    /\ \A k \in {TypeId, FunctionId, ExportId} : Begins(Items(ss, k), Items(tt, k))
    /\ \A name : name \notin own => Named(tt, name) = Named(ss, name)

\* Where the sections that count are the same, all is kept.
LEMMA KeepsSame ==
    ASSUME NEW ss, Sectioned(ss), NEW tt, NEW own,
           \A k \in {TypeId, FunctionId, ExportId} : Items(tt, k) = Items(ss, k)
    PROVE  Keeps(ss, tt, own)
<1>1. \A k : Begins(Items(ss, k), Items(ss, k))
  BY ItemsAreList, BeginsAppended
<1>2. \A name : Named(tt, name) = Named(ss, name)
  BY DEF Named
<1> QED
  BY <1>1, <1>2 DEF Keeps

\* What is kept twice is kept.
LEMMA KeepsOn ==
    ASSUME NEW ss, Sectioned(ss), NEW tt, Sectioned(tt), NEW uu, Sectioned(uu), NEW own,
           Keeps(ss, tt, own), Keeps(tt, uu, own)
    PROVE  Keeps(ss, uu, own)
<1>1. ASSUME NEW k \in {TypeId, FunctionId, ExportId}
      PROVE  Begins(Items(ss, k), Items(uu, k))
  <2> DEFINE a == Items(ss, k)
             b == Items(tt, k)
             c == Items(uu, k)
  <2>1. Begins(a, b) /\ Begins(b, c)
    BY DEF Keeps
  <2>2. Len(a) \in Nat /\ Len(b) \in Nat /\ Len(c) \in Nat
    BY ItemsAreList
  <2> HIDE DEF a, b, c
  <2>3. Begins(a, c)
    BY <2>1, <2>2 DEF Begins
  <2> QED
    BY <2>3 DEF a, c
<1>2. \A name : name \notin own => Named(uu, name) = Named(ss, name)
  BY DEF Keeps
<1> QED
  BY <1>1, <1>2 DEF Keeps

\* A name that is kept stands for the function it did.
LEMMA NameStays ==
    ASSUME NEW ss, Sectioned(ss), NEW tt, Sectioned(tt), NEW own, Keeps(ss, tt, own),
           NEW name, name \notin own
    PROVE  /\ Named(tt, name) = Named(ss, name)
           /\ Exports(tt, name) <=> Exports(ss, name)
           /\ Exports(ss, name) => ExportOf(tt, name) = ExportOf(ss, name)
<1> DEFINE E == Items(ss, ExportId)
           E2 == Items(tt, ExportId)
           P == Functions(ss, name)
<1>1. Len(E) \in Nat /\ Len(E2) \in Nat /\ Len(E) <= Len(E2) /\ \A i \in 1..Len(E) : E2[i] = E[i]
  BY ItemsAreList DEF Keeps, Begins
<1>2. Named(tt, name) = Named(ss, name)
  BY DEF Keeps
<1>3. Functions(tt, name) = P
  <2>1. \A i \in Named(ss, name) : E2[i] = E[i]
    BY <1>1 DEF Named
  <2> QED
    BY <1>2, <2>1 DEF Functions
<1>4. P \subseteq 1..Len(E)
  BY DEF Functions, Named
<1>5. ASSUME P # {} PROVE E2[Last(P)] = E[Last(P)]
  <2> HIDE DEF P, E, E2
  <2>1. Last(P) \in P
    BY <1>1, <1>4, <1>5, LastIsGreatest
  <2> QED
    BY <2>1, <1>1, <1>4
<1> QED
  BY <1>2, <1>3, <1>5 DEF Exports, ExportOf

\* A function that is kept has the type it had.
LEMMA TypeStays ==
    ASSUME NEW ss, Formed(ss), NEW tt, Sectioned(tt), NEW own, Keeps(ss, tt, own),
           functionCount \in Nat, NEW index, IsDefined(ss, index)
    PROVE  IsDefined(tt, index) /\ TypeOf(tt, index) = TypeOf(ss, index)
<1> DEFINE F == Items(ss, FunctionId)
           F2 == Items(tt, FunctionId)
           T == Types(ss)
           T2 == Types(tt)
           at == index - functionCount + 1
<1>1. Sectioned(ss) /\ \A i \in 1..Len(F) : F[i] \in Nat
  BY DEF Formed
<1>2. Len(F) \in Nat /\ Len(F2) \in Nat /\ Len(T) \in Nat /\ Len(T2) \in Nat
  BY <1>1, ItemsAreList DEF Types
<1>3. /\ Len(F) <= Len(F2) /\ \A i \in 1..Len(F) : F2[i] = F[i]
      /\ Len(T) <= Len(T2) /\ \A i \in 1..Len(T) : T2[i] = T[i]
  BY DEF Keeps, Begins, Types
<1>4. index \in functionCount..(functionCount + Len(F) - 1) /\ F[at] < Len(T)
  BY DEF IsDefined, HasType
<1> HIDE DEF F, F2, T, T2
<1>5. at \in 1..Len(F) /\ index \in functionCount..(functionCount + Len(F2) - 1)
  BY <1>2, <1>3, <1>4
<1> HIDE DEF at
<1>6. F2[at] = F[at] /\ F[at] \in Nat /\ F[at] < Len(T)
  BY <1>1, <1>3, <1>4, <1>5
<1>7. F[at] < Len(T2) /\ T2[F[at] + 1] = T[F[at] + 1]
  BY <1>2, <1>3, <1>6
<1> QED
  BY <1>5, <1>6, <1>7 DEF IsDefined, HasType, TypeOf, TypeAt, F, F2, T, T2, at

-----------------------------------------------------------------------------
(* Every edit keeps them, whether the module is valid or not *)

\* AddFunction.
LEMMA KeepsWithFunction ==
    ASSUME NEW ss, Formed(ss), CanAdd(ss), NEW type \in Nat, NEW name, NEW body, NEW own, name \in own,
           NEW tt, tt = AddFunction(ss, type, name, body)
    PROVE  Formed(tt) /\ Keeps(ss, tt, own)
<1> DEFINE export == [name |-> name, kind |-> "func", index |-> NewIndex(ss)]
           F == Items(ss, FunctionId)
           E == Items(ss, ExportId)
           F2 == Append(F, type)
           E2 == Append(E, export)
<1>1. Sectioned(ss) /\ \A i \in 1..Len(F) : F[i] \in Nat
  BY DEF Formed
<1>2. /\ Sectioned(tt) /\ Items(tt, FunctionId) = F2 /\ Items(tt, ExportId) = E2
      /\ \A k \in (0..13) \ {FunctionId, ExportId, CodeId} : Items(tt, k) = Items(ss, k)
  BY <1>1, AddedFunction
<1>3. Items(tt, TypeId) = Items(ss, TypeId)
  BY <1>2 DEF TypeId, FunctionId, ExportId, CodeId
<1>4. IsList(F) /\ Len(F) \in Nat /\ IsList(E) /\ Len(E) \in Nat /\ IsList(Items(ss, TypeId))
  BY <1>1, ItemsAreList
<1>5. export.name = name
  OBVIOUS
<1> HIDE DEF F, E, export
<1>6. /\ Len(F2) = Len(F) + 1 /\ F2[Len(F) + 1] = type /\ \A i \in 1..Len(F) : F2[i] = F[i]
      /\ Len(E2) = Len(E) + 1 /\ E2[Len(E) + 1] = export /\ \A i \in 1..Len(E) : E2[i] = E[i]
  BY <1>4, ListAppend
<1>7. Begins(F, F2) /\ Begins(E, E2) /\ Begins(Items(ss, TypeId), Items(tt, TypeId))
  BY <1>3, <1>4, BeginsAppended
<1> HIDE DEF F2, E2
<1>8. \A i \in 1..Len(F2) : F2[i] \in Nat
  <2>1. \A i \in 1..Len(F2) : i \in 1..Len(F) \/ i = Len(F) + 1
    BY <1>4, <1>6
  <2> QED
    BY <2>1, <1>1, <1>6
<1>9. ASSUME NEW other, other \notin own PROVE Named(tt, other) = Named(ss, other)
  <2>1. Named(tt, other) = {i \in 1..Len(E2) : E2[i].name = other}
    BY <1>2 DEF Named
  <2>2. Named(ss, other) = {i \in 1..Len(E) : E[i].name = other}
    BY DEF Named, E
  <2>3. \A i \in 1..Len(E2) : i \in 1..Len(E) \/ i = Len(E) + 1
    BY <1>4, <1>6
  <2>4. 1..Len(E) \subseteq 1..Len(E2)
    BY <1>4, <1>6
  <2> QED
    BY <2>1, <2>2, <2>3, <2>4, <1>5, <1>6, <1>9
<1> QED
  BY <1>2, <1>7, <1>8, <1>9 DEF Formed, Keeps, F, E

\* Appended, to another section than the exports.
LEMMA KeepsWithItem ==
    ASSUME NEW ss, Formed(ss), NEW k \in {TypeId, DataId}, Has(ss, k), NEW item, NEW own,
           NEW tt, tt = Appended(ss, k, item)
    PROVE  /\ Formed(tt) /\ Keeps(ss, tt, own)
           /\ \A j : Has(tt, j) <=> Has(ss, j)
           /\ Items(tt, k) = Append(Items(ss, k), item)
<1>1. Sectioned(ss)
  BY DEF Formed
<1>2. Edited(ss, tt, k, Append(Items(ss, k), item))
  BY <1>1, AppendedItem
<1>3. /\ Items(tt, FunctionId) = Items(ss, FunctionId) /\ Items(tt, ExportId) = Items(ss, ExportId)
      /\ Items(tt, k) = Append(Items(ss, k), item)
      /\ k = DataId => Items(tt, TypeId) = Items(ss, TypeId)
  BY <1>2 DEF Edited, FunctionId, ExportId, TypeId, DataId
<1>4. \A j : IsList(Items(ss, j))
  BY <1>1, ItemsAreList
<1>5. Begins(Items(ss, TypeId), Items(tt, TypeId))
  BY <1>3, <1>4, BeginsAppended
<1>6. Begins(Items(ss, FunctionId), Items(tt, FunctionId)) /\ Begins(Items(ss, ExportId), Items(tt, ExportId))
  BY <1>3, <1>4, BeginsAppended
<1>7. \A name : Named(tt, name) = Named(ss, name)
  BY <1>3 DEF Named
<1>8. Formed(tt) /\ \A j : Has(tt, j) <=> Has(ss, j)
  BY <1>2, <1>3, SameIdsSame DEF Edited, Formed
<1> QED
  BY <1>3, <1>5, <1>6, <1>7, <1>8 DEF Keeps

\* Inserted.
LEMMA KeepsWithMemory ==
    ASSUME NEW ss, Formed(ss), ~Has(ss, MemoryId), NEW items, IsList(items), NEW own,
           NEW tt, tt = Inserted(ss, [id |-> MemoryId, items |-> items])
    PROVE  Formed(tt) /\ Keeps(ss, tt, own)
<1>1. Sectioned(ss)
  BY DEF Formed
<1>2. Sectioned(tt) /\ \A k : k # MemoryId => Items(tt, k) = Items(ss, k)
  BY <1>1, InsertedMemory
<1>3. \A k \in {TypeId, FunctionId, ExportId} : Items(tt, k) = Items(ss, k)
  BY <1>2 DEF TypeId, FunctionId, ExportId, MemoryId
<1> QED
  BY <1>1, <1>2, <1>3, KeepsSame DEF Formed

\* The rewritten imports.
LEMMA KeepsRewritten ==
    ASSUME NEW ss, ss = source.sections, WellFormed(ss), NEW tt, NEW own,
           tt = IF Has(ss, ImportId)
                THEN [ss EXCEPT ![SectionIndex(ss, ImportId)].items = Rewritten] ELSE ss
    PROVE  Formed(tt) /\ Keeps(ss, tt, own)
<1>1. Sectioned(ss) /\ Formed(ss)
  BY DEF WellFormed, Formed
<1>2. CASE ~Has(ss, ImportId)
  BY <1>1, <1>2, KeepsSame
<1>3. CASE Has(ss, ImportId)
  <2>1. IsList(Kept)
    BY KeptImports
  <2>2. IsList(Rewritten)
    <3>1. Len(Kept) \in Nat
      BY <2>1 DEF IsList
    <3>2. Rewritten = [i \in 1..Len(Kept) |-> Rewritten[i]]
      BY DEF Rewritten
    <3> QED
      BY <3>1, <3>2, ListOf
  <2>3. Edited(ss, tt, ImportId, Rewritten)
    BY <1>1, <1>3, <2>2, ReplacedItems
  <2>4. \A k \in {TypeId, FunctionId, ExportId} : Items(tt, k) = Items(ss, k)
    BY <2>3 DEF Edited, TypeId, FunctionId, ExportId, ImportId
  <2>5. Formed(tt)
    BY <1>1, <2>3, <2>4 DEF Edited, Formed
  <2> QED
    BY <1>1, <2>4, <2>5, KeepsSame
<1> QED
  BY <1>2, <1>3

-----------------------------------------------------------------------------
(* The launcher *)

Before == {"classify", "decode", "imports", "invokes", "resize", "launcher"}

\* Up to the launcher names stand for what they did in the source, but for those
\* that the transformer exports itself.
NamesStand ==
    /\ source.args \in Seq(Seq(Nat)) /\ source.environment \in Seq(Seq(Nat))
    /\ functionCount \in Nat /\ IsList(memory)
    /\ todo \subseteq {name \in Lists!ToSet(InvokeNames) : IsInvoked(name)}
    /\ stage \in Before => Formed(sections) /\ Keeps(source.sections, sections, OwnExports)

\* The sections are ss with a _start.
LaunchedFrom(ss) ==
    /\ Formed(ss) /\ Keeps(source.sections, ss, OwnExports)
    /\ ~HasStart(ss) /\ ~LauncherError(ss)
    /\ sections = IF kind = "emscripten" THEN AddEmscriptenLauncher(ss) ELSE AddStartLauncher(ss)

\* No name that the code looks for among the exports is one that it adds.
LEMMA SoughtAreFree == Sought \cap OwnExports = {}
<1>1. \A name \in Sought : name # ResizeWrapper
  BY DEF Sought, ShowVersion, ResizeWrapper
<1> QED
  BY <1>1, SourceAssumption DEF SourceAssumption, OwnExports

\* A _start that is added is the one that a launcher wrote behind the stages
\* before it.
StartAdded ==
    stage \in {"encode", "done"} /\ kind # "" /\ ~HasStart(source.sections) =>
        \E ss : LaunchedFrom(ss) /\ (Asked => Sound(ss, functionCount))

\* The launcher does not depend on what the stages before it change.
LEMMA SameLauncher ==
    ASSUME UNCHANGED <<source, kind, functionCount>>, NEW CONSTANT ss
    PROVE  /\ LauncherError(ss)' <=> LauncherError(ss)
           /\ AddEmscriptenLauncher(ss)' = AddEmscriptenLauncher(ss)
           /\ AddStartLauncher(ss)' = AddStartLauncher(ss)
<1>1. \A tt, type, name, body : AddFunction(tt, type, name, body)' = AddFunction(tt, type, name, body)
  BY DEF AddFunction, NewIndex
<1>2. \A tt : /\ MainFits(tt)' <=> MainFits(tt)
              /\ UseArgv(tt)' <=> UseArgv(tt)
              /\ TypeOf(tt, Main(tt))' = TypeOf(tt, Main(tt))
  BY DEF MainFits, UseArgv, IsDefined, TypeOf
<1>3. ASSUME NEW CONSTANT tt PROVE MainLauncher(tt)' = MainLauncher(tt)
  <2>1. (UseArgv(tt)' <=> UseArgv(tt)) /\ TypeOf(tt, Main(tt))' = TypeOf(tt, Main(tt))
    BY <1>2
  <2> QED
    BY <2>1 DEF MainLauncher, When, ZeroesFor
<1>4. Targets' = Targets /\ GoArguments' = GoArguments
  BY DEF Targets, GoArguments
<1>5. \A tt : WithSegment(tt)' = WithSegment(tt)
  BY DEF WithSegment
<1>6. AddEmscriptenLauncher(ss)' = AddEmscriptenLauncher(ss)
  BY <1>1, <1>3 DEF AddEmscriptenLauncher
<1>7. AddStartLauncher(ss)' = AddStartLauncher(ss)
  BY <1>1, <1>4, <1>5 DEF AddStartLauncher
<1>8. LauncherError(ss)' <=> LauncherError(ss)
  <2>1. EmscriptenLauncherError(ss)' <=> EmscriptenLauncherError(ss)
    BY <1>2 DEF EmscriptenLauncherError
  <2>2. StartLauncherError(ss)' <=> StartLauncherError(ss)
    BY <1>4 DEF StartLauncherError
  <2> QED
    BY <2>1, <2>2 DEF LauncherError
<1> QED
  BY <1>6, <1>7, <1>8

LEMMA NamesInitially == Init => NamesStand
<1> SUFFICES ASSUME Init PROVE NamesStand
  OBVIOUS
<1>1. PICK c \in Case : source = SourceOf(c)
  BY DEF Init
<1>2. /\ WellFormed(source.sections) /\ sections = source.sections
      /\ functionCount = 0 /\ memory = << >> /\ todo = {}
  BY <1>1, SourceAssumption DEF SourceAssumption, Init
<1>3. source.args \in Seq(Seq(Nat)) /\ source.environment \in Seq(Seq(Nat))
  BY <1>1, SourceAssumption DEF SourceAssumption
<1>4. IsList(memory)
  BY <1>2 DEF IsList
<1>5. Formed(sections) /\ Keeps(source.sections, sections, OwnExports)
  BY <1>2, KeepsSame DEF WellFormed, Formed
<1> QED
  BY <1>2, <1>3, <1>4, <1>5 DEF NamesStand

\* A stage that leaves the source and the counts alone and edits as it may.
LEMMA NamesOn ==
    ASSUME NamesStand, SourceFormed, stage \in Before, UNCHANGED <<source, functionCount, memory>>,
           todo' \subseteq todo,
           stage' \in Before =>
              Formed(sections') /\ Keeps(sections, sections', OwnExports)
    PROVE  NamesStand'
<1>1. \A name : IsInvoked(name)' <=> IsInvoked(name)
  BY DEF IsInvoked, Invokes, Imports, IsInvoke
<1>2. OwnExports' = OwnExports
  BY DEF OwnExports
<1>3. ASSUME stage' \in Before
      PROVE  Formed(sections') /\ Keeps(source.sections, sections', OwnExports)
  <2>1. Formed(sections) /\ Keeps(source.sections, sections, OwnExports) /\ Formed(sections')
    BY <1>3 DEF NamesStand
  <2> QED
    BY <2>1, <1>3, KeepsOn DEF Formed, SourceFormed, WellFormed
<1> QED
  BY <1>1, <1>2, <1>3 DEF NamesStand, Formed, Keeps, Sectioned, Begins, Named

\* Sections are formed and keep what they have.
LEMMA StaysFormed ==
    ASSUME NamesStand, SourceFormed, stage \in Before
    PROVE  /\ Formed(sections) /\ Sectioned(sections)
           /\ Keeps(sections, sections, OwnExports)
<1>1. Formed(sections) /\ Sectioned(sections)
  BY DEF NamesStand, Formed
<1> QED
  BY <1>1, KeepsSame

LEMMA NamesImports == NamesStand /\ IInv /\ RewriteImports => NamesStand'
<1> SUFFICES ASSUME NamesStand, IInv, RewriteImports PROVE NamesStand'
  OBVIOUS
<1>1. source' = source /\ SourceFormed /\ stage = "imports" /\ sections = source.sections
  BY DEF RewriteImports, IInv, Unedited, At
<1>2. CASE RewriteError /\ Fail /\ UNCHANGED <<functionCount, resizes, todo, memory>>
  <2>1. stage' = "failed"
    BY <1>2 DEF Fail, Go
  <2> QED
    BY <1>1, <1>2, <2>1, NamesOn DEF Before
<1>3. CASE ~RewriteError
  <2>1. /\ sections' = IF Has(source.sections, ImportId)
                       THEN [source.sections EXCEPT
                               ![SectionIndex(source.sections, ImportId)].items = Rewritten]
                       ELSE source.sections
        /\ functionCount' = Cardinality({i \in 1..Len(Imports) : Counts(Imports[i])})
        /\ todo' = {name \in Lists!ToSet(InvokeNames) : IsInvoked(name)}
        /\ memory' = IF Taken = {} THEN << >> ELSE <<Imports[First(Taken)].type>>
    BY <1>3 DEF RewriteImports, Fail
  <2>2. WellFormed(source.sections)
    BY <1>1 DEF SourceFormed
  <2>3. Formed(sections') /\ Keeps(source.sections, sections', OwnExports)
    BY <2>1, <2>2, KeepsRewritten
  <2>4. functionCount' \in Nat
    <3>1. Len(Imports) \in Nat
      BY <2>2, ItemsAreList DEF WellFormed, Imports
    <3>2. IsFiniteSet(1..Len(Imports))
      BY <3>1, FS_Interval
    <3>3. IsFiniteSet({i \in 1..Len(Imports) : Counts(Imports[i])})
      BY <3>2, FS_Subset
    <3> QED
      BY <2>1, <3>3, FS_CardinalityType
  <2>5. IsList(memory')
    <3>1. IsList(<< >>) /\ \A x : IsList(<<x>>)
      BY DEF IsList
    <3> QED
      BY <2>1, <3>1
  <2>6. \A name : IsInvoked(name)' <=> IsInvoked(name)
    BY <1>1 DEF IsInvoked, Invokes, Imports, IsInvoke
  <2>7. todo' \subseteq {name \in Lists!ToSet(InvokeNames) : IsInvoked(name)'}
    BY <2>1, <2>6
  <2>8. OwnExports' = OwnExports /\ source' = source
    BY <1>1 DEF OwnExports
  <2>9. IsList(memory)'
    BY <2>5 DEF IsList
  <2>10. (Formed(sections) /\ Keeps(source.sections, sections, OwnExports))'
    BY <2>3, <2>8 DEF Formed, Keeps, Sectioned, Begins, Named
  <2> QED
    BY <2>4, <2>7, <2>8, <2>9, <2>10 DEF NamesStand
<1> QED
  BY <1>2, <1>3 DEF RewriteImports

LEMMA NamesInvoke == NamesStand /\ IInv /\ AddInvokeWrapper => NamesStand'
<1> SUFFICES ASSUME NamesStand, IInv, AddInvokeWrapper PROVE NamesStand'
  OBVIOUS
<1> DEFINE name == InvokeNames[First({i \in 1..Len(InvokeNames) : InvokeNames[i] \in todo})]
           index == InvokeIndex(name)
           type == TypeAt(sections, index)
           callback == Func(Tail(type.params), type.results)
           body == [k \in 1..Len(type.params) |-> LocalGet]
                   \o <<CallIndirect(FindType(sections, callback))>>
<1>1. /\ UNCHANGED <<source, functionCount, memory>> /\ SourceFormed
      /\ stage = "invokes" /\ stage \in Before /\ todo # {}
  BY DEF AddInvokeWrapper, IInv, At, Before
<1>2. \/ stage' = "failed" /\ todo' = todo
      \/ /\ CanAdd(sections) /\ sections' = AddFunction(sections, index, Trampoline(name), body)
         /\ todo' = todo \ {name}
  BY DEF AddInvokeWrapper, Fail, Go
<1>3. name \in todo /\ name \in Lists!ToSet(InvokeNames) /\ IsInvoked(name)
  BY <1>1, NextName DEF NamesStand
<1> HIDE DEF name, body
<1>4. index \in Nat /\ Trampoline(name) \in OwnExports
  BY <1>1, <1>3, RememberedImport DEF OwnExports
<1> HIDE DEF index
<1>5. CASE stage' = "failed" /\ todo' = todo
  BY <1>1, <1>5, NamesOn DEF Before
<1>6. CASE /\ CanAdd(sections) /\ sections' = AddFunction(sections, index, Trampoline(name), body)
           /\ todo' = todo \ {name}
  <2>1. Formed(sections)
    BY <1>1, StaysFormed
  <2>2. Formed(sections') /\ Keeps(sections, sections', OwnExports)
    BY <2>1, <1>4, <1>6, KeepsWithFunction
  <2> QED
    BY <2>2, <1>1, <1>6, NamesOn
<1> QED
  BY <1>2, <1>5, <1>6

LEMMA NamesMemory == NamesStand /\ IInv /\ DefineImportedMemory => NamesStand'
<1> SUFFICES ASSUME NamesStand, IInv, DefineImportedMemory PROVE NamesStand'
  OBVIOUS
<1>1. /\ UNCHANGED <<source, functionCount, memory, todo>> /\ SourceFormed /\ stage \in Before
  BY DEF DefineImportedMemory, IInv, At, Before
<1>2. /\ Formed(sections) /\ Keeps(sections, sections, OwnExports) /\ IsList(memory)
  BY <1>1, StaysFormed DEF NamesStand
<1>3. CASE sections' = sections
  BY <1>1, <1>2, <1>3, NamesOn
<1>4. CASE /\ ~Has(sections, MemoryId)
           /\ sections' = Inserted(sections, [id |-> MemoryId, items |-> memory])
  <2>1. Formed(sections') /\ Keeps(sections, sections', OwnExports)
    BY <1>2, <1>4, KeepsWithMemory
  <2> QED
    BY <2>1, <1>1, NamesOn
<1> QED
  BY <1>3, <1>4 DEF DefineImportedMemory, Fail

LEMMA NamesResize == NamesStand /\ IInv /\ AddResizeHeapWrapper => NamesStand'
<1> SUFFICES ASSUME NamesStand, IInv, AddResizeHeapWrapper PROVE NamesStand'
  OBVIOUS
<1> DEFINE type == Func(I32s(1), I32s(1))
<1>1. /\ UNCHANGED <<source, functionCount, memory, todo>> /\ SourceFormed /\ stage \in Before
  BY DEF AddResizeHeapWrapper, IInv, At, Before
<1>2. Formed(sections) /\ Sectioned(sections) /\ Keeps(sections, sections, OwnExports)
  BY <1>1, StaysFormed
<1>3. CASE sections' = sections
  BY <1>1, <1>2, <1>3, NamesOn
<1>4. CASE /\ Knows(sections, type) /\ CanAdd(sections)
           /\ sections' = AddFunction(sections, FindType(sections, type), ResizeWrapper, ResizeBody)
  <2> HIDE DEF type
  <2>1. FindType(sections, type) \in Nat
    BY <1>2, <1>4, FoundType
  <2>2. ResizeWrapper \in OwnExports
    BY DEF OwnExports
  <2>3. Formed(sections') /\ Keeps(sections, sections', OwnExports)
    BY <2>1, <2>2, <1>2, <1>4, KeepsWithFunction
  <2> QED
    BY <2>3, <1>1, NamesOn
<1> QED
  BY <1>3, <1>4 DEF AddResizeHeapWrapper, Fail

LEMMA NamesInvariance == Spec => []NamesStand
<1>1. ASSUME NamesStand, IInv, [Next]_vars PROVE NamesStand'
  <2>1. CASE UNCHANGED vars
    <3>1. /\ \A name : IsInvoked(name)' <=> IsInvoked(name)
          /\ OwnExports' = OwnExports
      BY <2>1 DEF vars, IsInvoked, Invokes, Imports, IsInvoke, OwnExports
    <3> QED
      BY <3>1, <2>1, <1>1 DEF vars, NamesStand, Formed, Keeps, Sectioned, Begins, Named
  <2>2. CASE Classify
    <3>1. UNCHANGED <<source, functionCount, memory, todo, sections>> /\ stage \in Before
      BY <2>2 DEF Classify, At, Before
    <3> QED
      BY <3>1, <1>1, StaysFormed, NamesOn DEF IInv
  <2>3. CASE DecodeSections
    <3>1. UNCHANGED <<source, functionCount, memory, todo, sections>> /\ stage \in Before
      BY <2>3 DEF DecodeSections, At, Before
    <3> QED
      BY <3>1, <1>1, StaysFormed, NamesOn DEF IInv
  <2>4. CASE AddLauncher
    <3>1. /\ UNCHANGED <<source, functionCount, memory, todo>> /\ stage \in Before
          /\ stage' \notin Before
      BY <2>4 DEF AddLauncher, Fail, Go, At, Before
    <3> QED
      BY <3>1, <1>1, NamesOn DEF IInv
  <2>5. CASE EncodeSections
    <3>1. /\ UNCHANGED <<source, functionCount, memory, todo>> /\ stage' \notin Before
      BY <2>5 DEF EncodeSections, Go, At, Before
    <3>2. \A name : IsInvoked(name)' <=> IsInvoked(name)
      BY <3>1 DEF IsInvoked, Invokes, Imports, IsInvoke
    <3> QED
      BY <3>1, <3>2, <1>1 DEF NamesStand
  <2> QED
    BY <1>1, <2>1, <2>2, <2>3, <2>4, <2>5, NamesImports, NamesInvoke, NamesMemory, NamesResize
    DEF Next
<1> QED
  BY <1>1, NamesInitially, Invariance, PTL DEF Spec

\* The launcher, which works on what NamesStand says.
LEMMA LauncherAdds == NamesStand /\ IInv /\ AddLauncher => StartAdded'
<1> SUFFICES ASSUME NamesStand, IInv, AddLauncher PROVE StartAdded'
  OBVIOUS
<1>a. /\ UNCHANGED <<source, kind>> /\ stage' \in {"failed", "encode"}
  BY DEF AddLauncher, Fail, Go
<1>b. HasStart(source.sections)' <=> HasStart(source.sections)
  BY <1>a DEF HasStart, Named
<1> SUFFICES ASSUME stage' = "encode", ~HasStart(source.sections)
             PROVE  \E ss : LaunchedFrom(ss)' /\ (Asked' => Sound(ss, functionCount)')
  BY <1>a, <1>b DEF StartAdded
<1>1. /\ UNCHANGED <<source, kind, functionCount>> /\ SourceFormed /\ stage = "launcher"
  BY DEF AddLauncher, IInv, At
<1>2. /\ ~LauncherError(sections)
      /\ sections' = IF HasStart(sections) THEN sections
                     ELSE IF kind = "emscripten" THEN AddEmscriptenLauncher(sections)
                     ELSE AddStartLauncher(sections)
  BY DEF AddLauncher, Fail, Go
<1>3. Formed(sections) /\ Keeps(source.sections, sections, OwnExports)
  BY <1>1 DEF NamesStand, Before
<1>4. ~HasStart(sections)
  <2>1. "_start" \notin OwnExports
    BY SoughtAreFree DEF Sought
  <2>2. Named(sections, "_start") = Named(source.sections, "_start")
    BY <2>1, <1>3 DEF Keeps
  <2> QED
    BY <2>2 DEF HasStart
<1> SUFFICES ASSUME NEW CONSTANT ss, ss = sections
             PROVE  LaunchedFrom(ss)' /\ (Asked' => Sound(ss, functionCount)')
  OBVIOUS
<1>5. /\ LauncherError(ss)' <=> LauncherError(ss)
      /\ AddEmscriptenLauncher(ss)' = AddEmscriptenLauncher(ss)
      /\ AddStartLauncher(ss)' = AddStartLauncher(ss)
  BY <1>1, SameLauncher
<1>6. OwnExports' = OwnExports /\ (Asked' <=> Asked)
  BY <1>1 DEF OwnExports, Asked
<1>7. LaunchedFrom(ss)'
  <2>1. Formed(ss)' /\ (HasStart(ss)' <=> HasStart(ss))
    BY <1>3 DEF Formed, HasStart
  <2>2. Keeps(source.sections, ss, OwnExports)'
    BY <1>1, <1>3, <1>6 DEF Keeps
  <2> QED
    BY <2>1, <2>2, <1>1, <1>2, <1>4, <1>5 DEF LaunchedFrom
<1>8. Asked => Sound(ss, functionCount)
  BY <1>1 DEF IInv, StagesSound, Edits
<1>9. Sound(ss, functionCount)' <=> Sound(ss, functionCount)
  BY <1>1 DEF Sound
<1> QED
  BY <1>6, <1>7, <1>8, <1>9

\* What is launched stays.
LEMMA LaunchedStays ==
    ASSUME StartAdded, UNCHANGED <<source, kind, functionCount, sections>>,
           stage' \in {"encode", "done"} => stage \in {"encode", "done"}
    PROVE  StartAdded'
<1>1. ASSUME NEW CONSTANT ss, LaunchedFrom(ss), Asked => Sound(ss, functionCount)
      PROVE  LaunchedFrom(ss)' /\ (Asked' => Sound(ss, functionCount)')
  <2>1. /\ LauncherError(ss)' <=> LauncherError(ss)
        /\ AddEmscriptenLauncher(ss)' = AddEmscriptenLauncher(ss)
        /\ AddStartLauncher(ss)' = AddStartLauncher(ss)
    BY SameLauncher
  <2>2. OwnExports' = OwnExports /\ (Asked' <=> Asked)
    BY DEF OwnExports, Asked
  <2>3. Formed(ss)' /\ (HasStart(ss)' <=> HasStart(ss))
    BY <1>1 DEF Formed, HasStart, LaunchedFrom
  <2>4. Keeps(source.sections, ss, OwnExports)'
    BY <1>1, <2>2 DEF Keeps, LaunchedFrom
  <2>5. Sound(ss, functionCount)' <=> Sound(ss, functionCount)
    BY DEF Sound
  <2> QED
    BY <1>1, <2>1, <2>2, <2>3, <2>4, <2>5 DEF LaunchedFrom
<1>2. HasStart(source.sections)' <=> HasStart(source.sections)
  BY DEF HasStart, Named
<1> QED
  BY <1>1, <1>2 DEF StartAdded

LEMMA StartInvariance == Spec => []StartAdded
<1>1. Init => StartAdded
  BY DEF Init, StartAdded
<1>2. ASSUME StartAdded, NamesStand, IInv, [Next]_vars PROVE StartAdded'
  <2>1. CASE UNCHANGED vars
    BY <1>2, <2>1, LaunchedStays DEF vars
  <2>2. CASE EncodeSections
    BY <1>2, <2>2, LaunchedStays DEF EncodeSections, At, Go
  <2>3. ASSUME stage' \notin {"encode", "done"} \/ kind' = "" PROVE StartAdded'
    BY <2>3 DEF StartAdded
  <2>4. CASE Classify
    <3>1. stage' \in {"unchanged", "decode"}
      BY <2>4 DEF Classify, Go
    <3> QED
      BY <3>1, <2>3
  <2>5. CASE DecodeSections
    <3>1. stage' \in {"failed", "imports"}
      BY <2>5 DEF DecodeSections, Go
    <3> QED
      BY <3>1, <2>3
  <2>6. CASE RewriteImports
    <3>1. stage' \in {"failed", "invokes"} \/ kind' = ""
      BY <2>6 DEF RewriteImports, Fail, Go
    <3> QED
      BY <3>1, <2>3
  <2>7. CASE AddInvokeWrapper
    <3>1. stage' \in {"failed", "invokes"}
      BY <2>7 DEF AddInvokeWrapper, Fail, Go, At
    <3> QED
      BY <3>1, <2>3
  <2>8. CASE DefineImportedMemory
    <3>1. stage' \in {"failed", "resize"}
      BY <2>8 DEF DefineImportedMemory, Fail, Go
    <3> QED
      BY <3>1, <2>3
  <2>9. CASE AddResizeHeapWrapper
    <3>1. stage' \in {"failed", "launcher"}
      BY <2>9 DEF AddResizeHeapWrapper, Fail, Go
    <3> QED
      BY <3>1, <2>3
  <2> QED
    BY <1>2, <2>1, <2>2, <2>4, <2>5, <2>6, <2>7, <2>8, <2>9, LauncherAdds DEF Next
<1> QED
  BY <1>1, <1>2, Invariance, NamesInvariance, PTL DEF Spec

-----------------------------------------------------------------------------
(* The arguments *)

StartName == {"_start"}

\* _start does not change what other names stand for.
LEMMA KeepsMain ==
    ASSUME NEW ss, Formed(ss), ~EmscriptenLauncherError(ss), functionCount \in Nat,
           NEW tt, tt = AddEmscriptenLauncher(ss)
    PROVE  Formed(tt) /\ Keeps(ss, tt, StartName)
<1> DEFINE uu == WithType(ss)
           body == MainLauncher(ss)
<1>1. MainFits(ss) /\ CanAdd(ss)
  BY DEF EmscriptenLauncherError
<1>2. Has(ss, TypeId)
  <2> DEFINE F == Items(ss, FunctionId)
             at == Main(ss) - functionCount + 1
  <2>1. /\ Main(ss) \in functionCount..(functionCount + Len(F) - 1)
        /\ F[at] < Len(Types(ss))
    BY <1>1 DEF MainFits, IsDefined, HasType
  <2>2. Len(F) \in Nat /\ \A i \in 1..Len(F) : F[i] \in Nat
    BY ItemsAreList DEF Formed
  <2> HIDE DEF F
  <2>3. at \in 1..Len(F)
    BY <2>1, <2>2
  <2> HIDE DEF at
  <2>4. F[at] \in Nat /\ Len(<< >>) = 0
    BY <2>2, <2>3
  <2>5. Types(ss) # << >>
    BY <2>1, <2>4
  <2> QED
    BY <2>5 DEF Types, Items
<1>3. Formed(uu) /\ Keeps(ss, uu, StartName) /\ CanAdd(uu) /\ Knows(uu, NoArguments)
  <2>1. CASE Knows(ss, NoArguments)
    BY <2>1, <1>1, KeepsSame DEF WithType, Formed
  <2>2. CASE ~Knows(ss, NoArguments)
    <3>1. uu = Appended(ss, TypeId, NoArguments)
      BY <2>2 DEF WithType
    <3>2. /\ Formed(uu) /\ Keeps(ss, uu, StartName)
          /\ \A j : Has(uu, j) <=> Has(ss, j)
          /\ Items(uu, TypeId) = Append(Items(ss, TypeId), NoArguments)
      BY <3>1, <1>2, KeepsWithItem
    <3>3. /\ Len(Types(ss)) \in Nat /\ Len(Types(uu)) = Len(Types(ss)) + 1
          /\ Types(uu)[Len(Types(ss)) + 1] = NoArguments
      BY <3>2, ItemsAreList, ListAppend DEF Types, Formed
    <3>4. Len(Types(ss)) \in Matches(uu, NoArguments)
      BY <3>3 DEF Matches, TypeAt
    <3> QED
      BY <3>2, <3>4, <1>1 DEF CanAdd, Knows
  <2> QED
    BY <2>1, <2>2
<1>4. tt = AddFunction(uu, FindType(uu, NoArguments), "_start", body)
  BY DEF AddEmscriptenLauncher
<1> HIDE DEF uu, body
<1>5. FindType(uu, NoArguments) \in Nat
  BY <1>3, FoundType DEF Formed
<1>6. Formed(tt) /\ Keeps(uu, tt, StartName)
  BY <1>3, <1>4, <1>5, KeepsWithFunction DEF StartName
<1> QED
  BY <1>3, <1>6, KeepsOn DEF Formed

\* And so the launcher of the other kinds.
LEMMA KeepsOther ==
    ASSUME NEW ss, Formed(ss), ~StartLauncherError(ss), NEW tt, tt = AddStartLauncher(ss)
    PROVE  Formed(tt) /\ Keeps(ss, tt, StartName)
<1> DEFINE uu == Appended(ss, TypeId, NoArguments)
           type == Len(Types(ss))
           body == When(kind = "gojs", <<Push(2)>>)
                   \o [i \in 1..Len(Targets) |-> Call(ExportOf(ss, Targets[i]))]
           added == AddFunction(uu, type, "_start", body)
<1>1. Has(ss, TypeId) /\ CanAdd(ss) /\ type \in Nat
  BY ItemsAreList DEF StartLauncherError, Formed, Types
<1>2. Formed(uu) /\ Keeps(ss, uu, StartName) /\ CanAdd(uu)
  <2>1. Formed(uu) /\ Keeps(ss, uu, StartName) /\ \A j : Has(uu, j) <=> Has(ss, j)
    BY <1>1, KeepsWithItem
  <2> QED
    BY <2>1, <1>1 DEF CanAdd
<1>3. tt = WithSegment(added)
  BY DEF AddStartLauncher
<1> HIDE DEF uu, type, body
<1>4. Formed(added) /\ Keeps(uu, added, StartName)
  BY <1>1, <1>2, KeepsWithFunction DEF StartName
<1>5. Keeps(ss, added, StartName)
  BY <1>2, <1>4, KeepsOn DEF Formed
<1> HIDE DEF added
<1>6. CASE tt = added
  BY <1>4, <1>5, <1>6
<1>7. CASE Has(added, DataId) /\ tt = Appended(added, DataId, "argv")
  <2>1. Formed(tt) /\ Keeps(added, tt, StartName)
    BY <1>4, <1>7, KeepsWithItem
  <2> QED
    BY <2>1, <1>4, <1>5, KeepsOn DEF Formed
<1> QED
  BY <1>3, <1>6, <1>7 DEF WithSegment

\* Whichever was added.
LEMMA LaunchedKeeps ==
    ASSUME NEW ss, LaunchedFrom(ss), functionCount \in Nat
    PROVE  Formed(sections) /\ Keeps(ss, sections, StartName)
<1>1. CASE kind = "emscripten"
  BY <1>1, KeepsMain DEF LaunchedFrom, LauncherError
<1>2. CASE kind # "emscripten"
  BY <1>2, KeepsOther DEF LaunchedFrom, LauncherError
<1> QED
  BY <1>1, <1>2

\* Main is found under the same name where the names for it are kept.
LEMMA MainStays ==
    ASSUME NEW ss, Sectioned(ss), NEW tt, Sectioned(tt), NEW own, Keeps(ss, tt, own),
           \A i \in 1..3 : MainNames[i] \notin own, HasMain(ss) \/ HasMain(tt)
    PROVE  MainName(tt) = MainName(ss) /\ Main(tt) = Main(ss)
<1>1. \A i \in 1..3 : Exports(tt, MainNames[i]) <=> Exports(ss, MainNames[i])
  BY NameStays
<1>2. MainName(tt) = MainName(ss) /\ HasMain(ss)
  BY <1>1 DEF Mains, HasMain, MainName
<1>3. MainName(ss) \notin own /\ Exports(ss, MainName(ss))
  <2>1. Mains(ss) \in SUBSET Nat /\ Mains(ss) # {}
    BY <1>2 DEF HasMain, Mains
  <2>2. First(Mains(ss)) \in Mains(ss)
    BY <2>1, FirstIsLeast
  <2> QED
    BY <2>2 DEF MainName, Mains
<1>4. ExportOf(tt, MainName(ss)) = ExportOf(ss, MainName(ss))
  BY <1>3, NameStays
<1> QED
  BY <1>2, <1>4 DEF Main

\* So main, its type and the stack functions are what the launcher saw.
LEMMA LaunchedUses ==
    ASSUME NEW ss, Formed(ss), NEW tt, Sectioned(tt), Keeps(ss, tt, StartName),
           functionCount \in Nat, MainFits(ss)
    PROVE  UseArgv(tt) <=> UseArgv(ss)
<1>0. Sectioned(ss)
  BY DEF Formed
<1>1. \A i \in 1..3 : MainNames[i] \notin StartName
  <2>1. /\ MainNames[1] = "__main_argc_argv" /\ MainNames[2] = "main" /\ MainNames[3] = "_main"
    BY DEF MainNames
  <2>2. \A i \in 1..3 : i = 1 \/ i = 2 \/ i = 3
    OBVIOUS
  <2> QED
    BY <2>1, <2>2 DEF StartName
<1>2. Main(tt) = Main(ss)
  BY <1>0, <1>1, MainStays DEF MainFits
<1>3. TypeOf(tt, Main(tt)) = TypeOf(ss, Main(ss))
  <2>1. IsDefined(ss, Main(ss))
    BY DEF MainFits
  <2>2. TypeOf(tt, Main(ss)) = TypeOf(ss, Main(ss))
    BY <2>1, TypeStays
  <2> QED
    BY <2>2, <1>2
<1>4. \A name \in {StackCurrent, StackAlloc, StackRestore} : Exports(tt, name) <=> Exports(ss, name)
  <2>1. \A name \in {StackCurrent, StackAlloc, StackRestore} : name \notin StartName
    BY DEF StackCurrent, StackAlloc, StackRestore, StartName
  <2> QED
    BY <2>1, <1>0, NameStays
<1> QED
  BY <1>3, <1>4 DEF UseArgv

-----------------------------------------------------------------------------
(* What a body does *)

\* The instructions of launchers.
Instruction == [op : {"push", "call", "set", "get", "if"}, n : Nat]

\* The heights h of the operand stack, between the n instructions of a body, go
\* from a to b.
BalancedAt(code, n, h, a, b) ==
    /\ h \in [0..n -> Nat] /\ h[0] = a /\ h[n] = b
    /\ \A i \in 1..n :
         /\ Takes(code[i]) \in Nat /\ Gives(code[i]) \in Nat /\ Takes(code[i]) <= h[i - 1]
         /\ h[i] = h[i - 1] - Takes(code[i]) + Gives(code[i])

Balanced(code, a, b) == \E h : BalancedAt(code, Len(code), h, a, b)

\* The u functions of p are called in their order, by the instructions at, and
\* otherwise only those of S.
CallsAt(code, n, p, u, S, at) ==
    /\ at \in [1..u -> 1..n]
    /\ \A k \in 1..u : code[at[k]].op = "call" /\ code[at[k]].n = p[k]
    /\ \A j, k \in 1..u : j < k => at[j] < at[k]
    /\ \A i \in 1..n : code[i].op = "call" => code[i].n \in S \/ \E k \in 1..u : at[k] = i

Calls(code, p, S) == \E at : CallsAt(code, Len(code), p, Len(p), S, at)

\* Code calls the functions of p in their order, otherwise only some of S, and takes
\* the operand stack from height a to b.
Runs(code, p, S, a, b) ==
    /\ code \in Seq(Instruction) /\ p \in Seq(Nat)
    /\ Balanced(code, a, b) /\ Calls(code, p, S)

\* No code does nothing.
LEMMA RunsNothing ==
    ASSUME NEW S, NEW a \in Nat
    PROVE  Runs(<< >>, << >>, S, a, a)
<1>1. << >> \in Seq(Instruction) /\ << >> \in Seq(Nat) /\ Len(<< >>) = 0
  OBVIOUS
<1>2. 1..0 = {}
  OBVIOUS
<1>3. BalancedAt(<< >>, 0, [i \in 0..0 |-> a], a, a)
  BY <1>2 DEF BalancedAt
<1>4. CallsAt(<< >>, 0, << >>, 0, S, [k \in 1..0 |-> 0])
  BY <1>2 DEF CallsAt
<1> QED
  BY <1>1, <1>3, <1>4 DEF Runs, Balanced, Calls

\* One instruction moves the height by what it takes and gives.
LEMMA BalancedOne ==
    ASSUME NEW c, NEW a \in Nat, NEW b \in Nat, Takes(c) \in Nat, Gives(c) \in Nat,
           Takes(c) <= a, b = a - Takes(c) + Gives(c)
    PROVE  Balanced(<<c>>, a, b)
<1> DEFINE h == [i \in 0..1 |-> IF i = 0 THEN a ELSE b]
<1>1. Len(<<c>>) = 1 /\ <<c>>[1] = c /\ \A i \in 1..1 : i = 1
  OBVIOUS
<1>2. h \in [0..1 -> Nat] /\ h[0] = a /\ h[1] = b /\ h[1 - 1] = a
  OBVIOUS
<1> HIDE DEF h
<1>3. BalancedAt(<<c>>, 1, h, a, b)
  BY <1>1, <1>2 DEF BalancedAt
<1> QED
  BY <1>1, <1>3 DEF Balanced

\* A call of the program.
LEMMA RunsOwn ==
    ASSUME NEW S, NEW c \in Instruction, c.op = "call", NEW a \in Nat, NEW b \in Nat,
           Takes(c) \in Nat, Gives(c) \in Nat, Takes(c) <= a, b = a - Takes(c) + Gives(c)
    PROVE  Runs(<<c>>, <<c.n>>, S, a, b)
<1>1. /\ <<c>> \in Seq(Instruction) /\ <<c.n>> \in Seq(Nat)
      /\ Len(<<c>>) = 1 /\ <<c>>[1] = c /\ Len(<<c.n>>) = 1 /\ <<c.n>>[1] = c.n
  BY DEF Instruction
<1>2. CallsAt(<<c>>, 1, <<c.n>>, 1, S, [k \in 1..1 |-> 1])
  <2> DEFINE at == [k \in 1..1 |-> 1]
  <2>1. at \in [1..1 -> 1..1] /\ at[1] = 1 /\ \A i \in 1..1 : i = 1
    OBVIOUS
  <2> HIDE DEF at
  <2>2. CallsAt(<<c>>, 1, <<c.n>>, 1, S, at)
    BY <2>1, <1>1 DEF CallsAt
  <2> QED
    BY <2>2 DEF at
<1>3. Calls(<<c>>, <<c.n>>, S)
  BY <1>1, <1>2 DEF Calls
<1> QED
  BY <1>1, <1>3, BalancedOne DEF Runs

\* Another instruction.
LEMMA RunsOther ==
    ASSUME NEW S, NEW c \in Instruction, c.op = "call" => c.n \in S, NEW a \in Nat, NEW b \in Nat,
           Takes(c) \in Nat, Gives(c) \in Nat, Takes(c) <= a, b = a - Takes(c) + Gives(c)
    PROVE  Runs(<<c>>, << >>, S, a, b)
<1>1. /\ <<c>> \in Seq(Instruction) /\ << >> \in Seq(Nat)
      /\ Len(<<c>>) = 1 /\ <<c>>[1] = c /\ Len(<< >>) = 0
  OBVIOUS
<1>2. CallsAt(<<c>>, 1, << >>, 0, S, [k \in 1..0 |-> 1])
  <2>1. 1..0 = {} /\ \A i \in 1..1 : i = 1
    OBVIOUS
  <2> QED
    BY <2>1, <1>1 DEF CallsAt
<1>3. Calls(<<c>>, << >>, S)
  BY <1>1, <1>2 DEF Calls
<1> QED
  BY <1>1, <1>3, BalancedOne DEF Runs

\* One body behind another.
LEMMA BalancedOn ==
    ASSUME NEW c \in Seq(Instruction), NEW d \in Seq(Instruction), NEW a, NEW b, NEW e,
           Balanced(c, a, b), Balanced(d, b, e)
    PROVE  Balanced(c \o d, a, e)
<1> DEFINE m == Len(c)
           n == Len(d)
           cd == c \o d
<1>1. PICK h : BalancedAt(c, m, h, a, b)
  BY DEF Balanced
<1>2. PICK g : BalancedAt(d, n, g, b, e)
  BY DEF Balanced
<1>3. /\ m \in Nat /\ n \in Nat /\ Len(cd) = m + n
      /\ \A i \in 1..m : cd[i] = c[i]
      /\ \A i \in 1..n : cd[m + i] = d[i]
  OBVIOUS
<1> HIDE DEF m, n, cd
<1> DEFINE f == [i \in 0..(m + n) |-> IF i <= m THEN h[i] ELSE g[i - m]]
<1>a. h \in [0..m -> Nat] /\ h[0] = a /\ h[m] = b
  BY <1>1 DEF BalancedAt
<1>b. g \in [0..n -> Nat] /\ g[0] = b /\ g[n] = e
  BY <1>2 DEF BalancedAt
<1>4. f \in [0..(m + n) -> Nat]
  BY <1>3, <1>a, <1>b
<1>5. \A i \in 0..m : f[i] = h[i]
  BY <1>3
<1>6. \A i \in 1..n : f[m + i] = g[i]
  BY <1>3
<1>7. \A i \in 0..n : f[m + i] = g[i]
  <2>1. f[m + 0] = g[0]
    BY <1>3, <1>5, <1>a, <1>b
  <2>2. \A i \in 0..n : i = 0 \/ i \in 1..n
    BY <1>3
  <2> HIDE DEF f
  <2> QED
    BY <2>1, <2>2, <1>6
<1> HIDE DEF f
<1>8. f[0] = a /\ f[m + n] = e
  BY <1>3, <1>5, <1>7, <1>a, <1>b
<1>9. ASSUME NEW i \in 1..(m + n)
      PROVE  /\ Takes(cd[i]) \in Nat /\ Gives(cd[i]) \in Nat
             /\ Takes(cd[i]) <= f[i - 1]
             /\ f[i] = f[i - 1] - Takes(cd[i]) + Gives(cd[i])
  <2>1. CASE i <= m
    <3>1. i \in 1..m /\ i - 1 \in 0..m /\ i \in 0..m
      BY <2>1, <1>3
    <3> QED
      BY <3>1, <1>1, <1>3, <1>5 DEF BalancedAt
  <2>2. CASE i > m
    <3> DEFINE j == i - m
    <3>1. j \in 1..n /\ j - 1 \in 0..n /\ j \in 0..n /\ i = m + j /\ i - 1 = m + (j - 1)
      BY <2>2, <1>3
    <3> HIDE DEF j
    <3>2. cd[i] = d[j] /\ f[i] = g[j] /\ f[i - 1] = g[j - 1]
      BY <3>1, <1>3, <1>7
    <3> QED
      BY <3>1, <3>2, <1>2 DEF BalancedAt
  <2> QED
    BY <2>1, <2>2, <1>3
<1>10. BalancedAt(cd, m + n, f, a, e)
  BY <1>4, <1>8, <1>9 DEF BalancedAt
<1> QED
  BY <1>3, <1>10 DEF Balanced, cd

\* Code behind code calls what the two call.
LEMMA CallsOn ==
    ASSUME NEW c \in Seq(Instruction), NEW d \in Seq(Instruction),
           NEW p \in Seq(Nat), NEW q \in Seq(Nat), NEW S,
           Calls(c, p, S), Calls(d, q, S)
    PROVE  Calls(c \o d, p \o q, S)
<1> DEFINE m == Len(c)
           n == Len(d)
           cd == c \o d
           u == Len(p)
           v == Len(q)
           pq == p \o q
<1>a. PICK f : CallsAt(c, m, p, u, S, f)
  BY DEF Calls
<1>b. PICK g : CallsAt(d, n, q, v, S, g)
  BY DEF Calls
<1>1. /\ f \in [1..u -> 1..m]
      /\ \A k \in 1..u : c[f[k]].op = "call" /\ c[f[k]].n = p[k]
      /\ \A j, k \in 1..u : j < k => f[j] < f[k]
      /\ \A i \in 1..m : c[i].op = "call" => c[i].n \in S \/ \E k \in 1..u : f[k] = i
  BY <1>a DEF CallsAt
<1>2. /\ g \in [1..v -> 1..n]
      /\ \A k \in 1..v : d[g[k]].op = "call" /\ d[g[k]].n = q[k]
      /\ \A j, k \in 1..v : j < k => g[j] < g[k]
      /\ \A i \in 1..n : d[i].op = "call" => d[i].n \in S \/ \E k \in 1..v : g[k] = i
  BY <1>b DEF CallsAt
<1>3. /\ m \in Nat /\ n \in Nat /\ Len(cd) = m + n
      /\ \A i \in 1..m : cd[i] = c[i]
      /\ \A i \in 1..n : cd[m + i] = d[i]
  OBVIOUS
<1>4. /\ u \in Nat /\ v \in Nat /\ Len(pq) = u + v
      /\ \A i \in 1..u : pq[i] = p[i]
      /\ \A i \in 1..v : pq[u + i] = q[i]
  OBVIOUS
<1> HIDE DEF m, n, cd, u, v, pq
<1> DEFINE at == [k \in 1..(u + v) |-> IF k <= u THEN f[k] ELSE m + g[k - u]]
<1>5. \A k \in 1..u : at[k] = f[k] /\ f[k] \in 1..m
  BY <1>1, <1>3, <1>4
<1>6. \A k \in 1..v : at[u + k] = m + g[k] /\ g[k] \in 1..n
  BY <1>2, <1>3, <1>4
<1>7. \A k \in 1..(u + v) : k \in 1..u \/ \E j \in 1..v : k = u + j
  <2> SUFFICES ASSUME NEW k \in 1..(u + v), k \notin 1..u PROVE \E j \in 1..v : k = u + j
    OBVIOUS
  <2>1. k - u \in 1..v /\ k = u + (k - u)
    BY <1>4
  <2> QED
    BY <2>1
<1>8. \A i \in 1..(m + n) : i \in 1..m \/ \E j \in 1..n : i = m + j
  <2> SUFFICES ASSUME NEW i \in 1..(m + n), i \notin 1..m PROVE \E j \in 1..n : i = m + j
    OBVIOUS
  <2>1. i - m \in 1..n /\ i = m + (i - m)
    BY <1>3
  <2> QED
    BY <2>1
<1>9. at \in [1..(u + v) -> 1..(m + n)]
  <2>1. \A k \in 1..(u + v) : at[k] \in 1..(m + n)
    <3> HIDE DEF at
    <3>a. (\A i \in 1..m : i \in 1..(m + n)) /\ (\A i \in 1..n : m + i \in 1..(m + n))
      BY <1>3
    <3>1. \A k \in 1..u : at[k] \in 1..(m + n)
      BY <3>a, <1>5, Zenon
    <3>2. \A k \in 1..v : at[u + k] \in 1..(m + n)
      BY <3>a, <1>6, Zenon
    <3> QED
      BY <3>1, <3>2, <1>7
  <2> QED
    BY <2>1
<1> HIDE DEF at
<1>10. ASSUME NEW k \in 1..(u + v) PROVE cd[at[k]].op = "call" /\ cd[at[k]].n = pq[k]
  <2>1. CASE k \in 1..u
    <3>1. at[k] = f[k] /\ cd[f[k]] = c[f[k]] /\ pq[k] = p[k]
      BY <2>1, <1>3, <1>4, <1>5
    <3> QED
      BY <3>1, <2>1, <1>1
  <2>2. ASSUME NEW j \in 1..v, k = u + j PROVE cd[at[k]].op = "call" /\ cd[at[k]].n = pq[k]
    <3>1. at[k] = m + g[j] /\ cd[m + g[j]] = d[g[j]] /\ pq[k] = q[j]
      BY <2>2, <1>3, <1>4, <1>6
    <3> QED
      BY <3>1, <1>2
  <2> QED
    BY <2>1, <2>2, <1>7
<1>11. ASSUME NEW j \in 1..(u + v), NEW k \in 1..(u + v), j < k PROVE at[j] < at[k]
  <2>1. CASE j \in 1..u /\ k \in 1..u
    BY <2>1, <1>1, <1>5, <1>11
  <2>2. ASSUME j \in 1..u, NEW y \in 1..v, k = u + y PROVE at[j] < at[k]
    <3>1. at[j] = f[j] /\ f[j] \in 1..m /\ at[k] = m + g[y] /\ g[y] \in 1..n
      BY <2>2, <1>5, <1>6
    <3> QED
      BY <3>1, <1>3
  <2>3. ASSUME NEW x \in 1..v, j = u + x, NEW y \in 1..v, k = u + y PROVE at[j] < at[k]
    <3>1. x < y
      BY <2>3, <1>4, <1>11
    <3>2. g[x] < g[y] /\ g[x] \in Nat /\ g[y] \in Nat
      BY <3>1, <1>2, <1>6
    <3>3. at[j] = m + g[x] /\ at[k] = m + g[y]
      BY <2>3, <1>6
    <3> QED
      BY <3>2, <3>3, <1>3
  <2>4. ASSUME NEW x \in 1..v, j = u + x, k \in 1..u PROVE FALSE
    BY <2>4, <1>4, <1>11
  <2> QED
    BY <2>1, <2>2, <2>3, <2>4, <1>7
<1>12. ASSUME NEW i \in 1..(m + n), cd[i].op = "call"
       PROVE  cd[i].n \in S \/ \E k \in 1..(u + v) : at[k] = i
  <2>1. \A k \in 1..u : k \in 1..(u + v)
    BY <1>4
  <2>2. \A k \in 1..v : u + k \in 1..(u + v)
    BY <1>4
  <2>3. CASE i \in 1..m
    BY <2>1, <2>3, <1>1, <1>3, <1>5, <1>12
  <2>4. ASSUME NEW j \in 1..n, i = m + j
        PROVE  cd[i].n \in S \/ \E k \in 1..(u + v) : at[k] = i
    <3>1. cd[i] = d[j]
      BY <2>4, <1>3
    <3>2. d[j].n \in S \/ \E k \in 1..v : g[k] = j
      BY <3>1, <1>2, <1>12
    <3> QED
      BY <3>1, <3>2, <2>2, <2>4, <1>6
  <2> QED
    BY <2>3, <2>4, <1>8
<1>13. CallsAt(cd, m + n, pq, u + v, S, at)
  BY <1>9, <1>10, <1>11, <1>12 DEF CallsAt
<1> QED
  BY <1>3, <1>4, <1>13 DEF Calls, cd, pq

\* Code behind code does what the two do.
LEMMA RunsOn ==
    ASSUME NEW S, NEW c, NEW p, NEW d, NEW q, NEW a, NEW b, NEW e,
           Runs(c, p, S, a, b), Runs(d, q, S, b, e)
    PROVE  Runs(c \o d, p \o q, S, a, e)
<1>1. /\ c \in Seq(Instruction) /\ d \in Seq(Instruction) /\ p \in Seq(Nat) /\ q \in Seq(Nat)
      /\ c \o d \in Seq(Instruction) /\ p \o q \in Seq(Nat)
  BY DEF Runs
<1>2. Balanced(c \o d, a, e) /\ Calls(c \o d, p \o q, S)
  BY <1>1, BalancedOn, CallsOn DEF Runs
<1> QED
  BY <1>1, <1>2 DEF Runs

\* Heights counts so.
LEMMA HeightsAre ==
    ASSUME NEW body \in Seq(Instruction), NEW b, Balanced(body, 0, b)
    PROVE  Heights(body)[Len(body)] = b
<1> DEFINE n == Len(body)
           height(f) == [i \in 0..n |->
                           IF i = 0 THEN 0
                           ELSE IF f[i - 1] < Takes(body[i]) THEN -1
                           ELSE f[i - 1] - Takes(body[i]) + Gives(body[i])]
           H == Heights(body)
<1>a. PICK h : BalancedAt(body, n, h, 0, b)
  BY DEF Balanced
<1>1. /\ h \in [0..n -> Nat] /\ h[0] = 0 /\ h[n] = b
      /\ \A i \in 1..n : /\ Takes(body[i]) \in Nat /\ Gives(body[i]) \in Nat
                         /\ Takes(body[i]) <= h[i - 1]
                         /\ h[i] = h[i - 1] - Takes(body[i]) + Gives(body[i])
  BY <1>a DEF BalancedAt
<1>2. n \in Nat
  OBVIOUS
<1>3. H = CHOOSE f : f = height(f)
  BY DEF Heights
<1> HIDE DEF n, H
<1>4. h = height(h)
  <2>1. ASSUME NEW i \in 0..n PROVE h[i] = height(h)[i]
    <3>1. CASE i = 0
      BY <3>1, <1>1
    <3>2. CASE i # 0
      <4>1. i \in 1..n
        BY <3>2, <1>2
      <4>2. Takes(body[i]) <= h[i - 1] /\ h[i - 1] \in Nat
        BY <4>1, <1>1, <1>2
      <4>3. height(h)[i] = IF h[i - 1] < Takes(body[i]) THEN -1
                           ELSE h[i - 1] - Takes(body[i]) + Gives(body[i])
        BY <3>2
      <4> HIDE DEF height
      <4>4. ~(h[i - 1] < Takes(body[i]))
        BY <4>1, <4>2, <1>1
      <4> QED
        BY <4>1, <4>3, <4>4, <1>1
    <3> QED
      BY <3>1, <3>2
  <2>2. h \in [0..n -> Nat]
    BY <1>1
  <2> QED
    BY <2>1, <2>2
<1>5. H = height(H)
  BY <1>3, <1>4
<1>6. \A i \in 0..n : H[i] = height(H)[i]
  BY <1>5
<1> DEFINE Good == {i \in 0..n : H[i] = h[i]}
<1>7. 0 \in Good
  BY <1>1, <1>2, <1>6
<1>8. ASSUME NEW k \in 1..n, k - 1 \in Good PROVE k \in Good
  <2>1. H[k - 1] = h[k - 1] /\ k \in 0..n /\ k # 0 /\ k - 1 \in 0..n
    BY <1>2, <1>8
  <2>2. H[k] = height(H)[k]
    BY <2>1, <1>6
  <2>3. height(H)[k] = IF H[k - 1] < Takes(body[k]) THEN -1
                       ELSE H[k - 1] - Takes(body[k]) + Gives(body[k])
    BY <2>1
  <2> HIDE DEF height
  <2>4. Takes(body[k]) <= h[k - 1] /\ h[k - 1] \in Nat
    BY <2>1, <1>1
  <2>5. ~(h[k - 1] < Takes(body[k]))
    BY <2>4, <1>1
  <2>6. H[k] = h[k]
    BY <2>1, <2>2, <2>3, <2>5, <1>1
  <2> QED
    BY <2>1, <2>6
<1> HIDE DEF Good, height
<1>9. \A k \in 0..n : k \in Good
  BY <1>2, <1>7, <1>8, Induction
<1>10. H[n] = h[n]
  BY <1>2, <1>9 DEF Good
<1> QED
  BY <1>1, <1>10 DEF n, H

\* What an instruction that calls nothing of the program does to the stack.
Moves(c, S, a, b) ==
    /\ c \in Instruction /\ (c.op = "call" => c.n \in S)
    /\ a \in Nat /\ b \in Nat /\ Takes(c) \in Nat /\ Gives(c) \in Nat
    /\ Takes(c) <= a /\ b = a - Takes(c) + Gives(c)

LEMMA MovesCall ==
    ASSUME NEW x \in Nat, NEW a \in Nat, NEW b \in Nat,
           Len(CallType(x).params) = a, Len(CallType(x).results) = b
    PROVE  /\ Call(x) \in Instruction /\ Call(x).op = "call" /\ Call(x).n = x
           /\ Takes(Call(x)) = a /\ Gives(Call(x)) = b
           /\ \A S : x \in S => Moves(Call(x), S, a, b)
<1>1. Call(x) \in Instruction /\ Call(x).op = "call" /\ Call(x).n = x
  BY DEF Call, Instruction
<1>2. Takes(Call(x)) = a /\ Gives(Call(x)) = b
  BY <1>1 DEF Takes, Gives
<1>3. a <= a /\ b = a - a + b
  OBVIOUS
<1> QED
  BY <1>1, <1>2, <1>3 DEF Moves

LEMMA MovesOther ==
    ASSUME NEW S
    PROVE  /\ Moves(Push(1), S, 0, 1) /\ Moves(Push(2), S, 0, 2)
           /\ Moves(LocalSet, S, 1, 0) /\ Moves(TrapIf, S, 1, 0)
           /\ Moves(LocalGet, S, 0, 1) /\ Moves(LocalGet, S, 1, 2)
<1>1. ASSUME NEW n \in Nat PROVE Moves(Push(n), S, 0, n)
  <2>1. Push(n) \in Instruction /\ Push(n).op = "push" /\ Push(n).n = n
    BY DEF Push, Instruction
  <2>2. Takes(Push(n)) = 0 /\ Gives(Push(n)) = n
    BY <2>1 DEF Takes, Gives
  <2> QED
    BY <2>1, <2>2 DEF Moves
<1>2. ASSUME NEW c \in {LocalSet, TrapIf} PROVE Moves(c, S, 1, 0)
  <2>1. c \in Instruction /\ c.op \in {"set", "if"}
    BY DEF LocalSet, TrapIf, Instruction
  <2>2. Takes(c) = 1 /\ Gives(c) = 0
    BY <2>1 DEF Takes, Gives
  <2> QED
    BY <2>1, <2>2 DEF Moves
<1>3. ASSUME NEW a \in Nat PROVE Moves(LocalGet, S, a, a + 1)
  <2>1. LocalGet \in Instruction /\ LocalGet.op = "get"
    BY DEF LocalGet, Instruction
  <2>2. Takes(LocalGet) = 0 /\ Gives(LocalGet) = 1
    BY <2>1 DEF Takes, Gives
  <2> QED
    BY <2>1, <2>2 DEF Moves
<1>4. Moves(LocalGet, S, 0, 1) /\ Moves(LocalGet, S, 1, 2)
  <2>1. Moves(LocalGet, S, 0, 0 + 1) /\ Moves(LocalGet, S, 1, 1 + 1)
    BY <1>3
  <2> QED
    BY <2>1
<1> QED
  BY <1>1, <1>2, <1>4

\* The lengths of the parameters and results that launchers deal with.
LEMMA I32Lists ==
    /\ Len(I32s(1)) = 1 /\ Len(I32s(2)) = 2 /\ I32s(1) # << >> /\ I32s(2) # << >>
    /\ NoArguments.params = << >> /\ NoArguments.results = << >> /\ Len(<< >>) = 0
    /\ \A params, results : /\ Func(params, results).params = params
                            /\ Func(params, results).results = results
<1>1. I32s(1) = [i \in 1..1 |-> "i32"] /\ I32s(2) = [i \in 1..2 |-> "i32"]
  BY DEF I32s
<1>2. Len(I32s(1)) = 1 /\ Len(I32s(2)) = 2 /\ Len(<< >>) = 0
  BY <1>1
<1> QED
  BY <1>2 DEF NoArguments, Func

LEMMA RunsMove ==
    ASSUME NEW S, NEW c, NEW a, NEW b, Moves(c, S, a, b)
    PROVE  Runs(<<c>>, << >>, S, a, b)
  BY RunsOther DEF Moves

LEMMA RunsThen ==
    ASSUME NEW S, NEW code, NEW p, NEW a, NEW b, Runs(code, p, S, a, b),
           NEW c, NEW e, Moves(c, S, b, e), NEW longer, longer = Append(code, c)
    PROVE  Runs(longer, p, S, a, e)
<1>1. Runs(<<c>>, << >>, S, b, e)
  BY RunsMove
<1>2. Runs(code \o <<c>>, p \o << >>, S, a, e)
  BY <1>1, RunsOn
<1>3. code \in Seq(Instruction) /\ p \in Seq(Nat) /\ c \in Instruction
  BY DEF Runs, Moves
<1>4. code \o <<c>> = Append(code, c)
  BY <1>3, AppendIsConcat
<1>5. p \o << >> = p
  BY <1>3, ConcatEmptySeq
<1> QED
  BY <1>2, <1>4, <1>5

\* The arguments of main: their area is taken from the guest's stack.
LEMMA RunsArea ==
    ASSUME NEW S, NEW x \in Nat, x \in S, CallType(x) = Func(<< >>, I32s(1)),
           NEW y \in Nat, y \in S, CallType(y) = Func(I32s(1), I32s(1))
    PROVE  Runs(<<Call(x), LocalSet, Push(1), Call(y), LocalSet, Push(1), LocalGet>>,
                << >>, S, 0, 2)
<1>1. Moves(Call(x), S, 0, 1) /\ Moves(Call(y), S, 1, 1)
  <2>1. /\ Len(CallType(x).params) = 0 /\ Len(CallType(x).results) = 1
        /\ Len(CallType(y).params) = 1 /\ Len(CallType(y).results) = 1
        /\ 0 \in Nat /\ 1 \in Nat
    BY I32Lists
  <2> QED
    BY <2>1, MovesCall, Zenon
<1> DEFINE cx == Call(x)
           cy == Call(y)
           push == Push(1)
           set == LocalSet
           get == LocalGet
           c1 == <<cx>>
           c2 == <<cx, set>>
           c3 == <<cx, set, push>>
           c4 == <<cx, set, push, cy>>
           c5 == <<cx, set, push, cy, set>>
           c6 == <<cx, set, push, cy, set, push>>
           c7 == <<cx, set, push, cy, set, push, get>>
<1>2. /\ Moves(cx, S, 0, 1) /\ Moves(cy, S, 1, 1) /\ Moves(push, S, 0, 1) /\ Moves(set, S, 1, 0)
      /\ Moves(get, S, 1, 2)
  BY <1>1, MovesOther
<1> HIDE DEF cx, cy, push, set, get
<1>3. /\ c2 = Append(c1, set) /\ c3 = Append(c2, push) /\ c4 = Append(c3, cy)
      /\ c5 = Append(c4, set) /\ c6 = Append(c5, push) /\ c7 = Append(c6, get)
  OBVIOUS
<1>4. Runs(c1, << >>, S, 0, 1)
  BY <1>2, RunsMove, Zenon
<1> HIDE DEF c1, c2, c3, c4, c5, c6, c7
<1>5. Runs(c2, << >>, S, 0, 0)
  BY <1>2, <1>3, <1>4, RunsThen, Zenon
<1>6. Runs(c3, << >>, S, 0, 1)
  BY <1>2, <1>3, <1>5, RunsThen, Zenon
<1>7. Runs(c4, << >>, S, 0, 1)
  BY <1>2, <1>3, <1>6, RunsThen, Zenon
<1>8. Runs(c5, << >>, S, 0, 0)
  BY <1>2, <1>3, <1>7, RunsThen, Zenon
<1>9. Runs(c6, << >>, S, 0, 1)
  BY <1>2, <1>3, <1>8, RunsThen, Zenon
<1>10. Runs(c7, << >>, S, 0, 2)
  BY <1>2, <1>3, <1>9, RunsThen, Zenon
<1> QED
  BY <1>10 DEF c7, cx, cy, push, set, get

\* After main the stack is given back, below its result.
LEMMA RunsBack ==
    ASSUME NEW S, NEW x \in Nat, x \in S, CallType(x) = Func(I32s(1), << >>)
    PROVE  Runs(<<LocalSet, LocalGet, Call(x), LocalGet>>, << >>, S, 1, 1)
<1>1. Moves(Call(x), S, 1, 0)
  <2>1. /\ Len(CallType(x).params) = 1 /\ Len(CallType(x).results) = 0
        /\ 0 \in Nat /\ 1 \in Nat
    BY I32Lists
  <2> QED
    BY <2>1, MovesCall, Zenon
<1> DEFINE cx == Call(x)
           set == LocalSet
           get == LocalGet
           c1 == <<set>>
           c2 == <<set, get>>
           c3 == <<set, get, cx>>
           c4 == <<set, get, cx, get>>
<1>2. Moves(cx, S, 1, 0) /\ Moves(set, S, 1, 0) /\ Moves(get, S, 0, 1)
  BY <1>1, MovesOther
<1> HIDE DEF cx, set, get
<1>3. c2 = Append(c1, get) /\ c3 = Append(c2, cx) /\ c4 = Append(c3, get)
  OBVIOUS
<1>4. Runs(c1, << >>, S, 1, 0)
  BY <1>2, RunsMove, Zenon
<1> HIDE DEF c1, c2, c3, c4
<1>5. Runs(c2, << >>, S, 1, 1)
  BY <1>2, <1>3, <1>4, RunsThen, Zenon
<1>6. Runs(c3, << >>, S, 1, 0)
  BY <1>2, <1>3, <1>5, RunsThen, Zenon
<1>7. Runs(c4, << >>, S, 1, 1)
  BY <1>2, <1>3, <1>6, RunsThen, Zenon
<1> QED
  BY <1>7 DEF c4, cx, set, get

-----------------------------------------------------------------------------
(* What _start does *)

\* The functions that it is for.
Run(ss) ==
    IF kind = "emscripten"
    THEN When(Exports(ss, "__wasm_call_ctors"), <<ExportOf(ss, "__wasm_call_ctors")>>) \o <<Main(ss)>>
    ELSE [i \in 1..Len(Targets) |-> ExportOf(ss, Targets[i])]

\* What launchers call without a look at its type, and the type it has by the
\* convention of its toolchain.
Called ==
    {"__wasm_call_ctors", "_initialize", ShowVersion, "run",
     StackCurrent, StackAlloc, StackRestore}

Convention(name) ==
    CASE name = "run" -> Func(I32s(2), << >>)
      [] name = StackCurrent -> Func(<< >>, I32s(1))
      [] name = StackAlloc -> Func(I32s(1), I32s(1))
      [] name = StackRestore -> Func(I32s(1), << >>)
      [] OTHER -> NoArguments

\* The types by convention, of names and of their functions.
LEMMA Conventions ==
    /\ Convention("__wasm_call_ctors") = NoArguments /\ Convention("_initialize") = NoArguments
    /\ Convention(ShowVersion) = NoArguments
    /\ Convention("run") = Func(I32s(2), << >>)
    /\ Convention(StackCurrent) = Func(<< >>, I32s(1))
    /\ Convention(StackAlloc) = Func(I32s(1), I32s(1))
    /\ Convention(StackRestore) = Func(I32s(1), << >>)
  BY DEF Convention, ShowVersion, StackCurrent, StackAlloc, StackRestore

\* What is exported under a name that a launcher calls has the type it ought to.
CallsFit(ss) ==
    \A name \in Called : Exports(ss, name) =>
        ExportOf(ss, name) \in Nat /\ CallType(ExportOf(ss, name)) = Convention(name)

\* A call of a function whose type is known.
LEMMA RunsCall ==
    ASSUME NEW S, NEW x \in Nat, NEW a \in Nat, NEW b \in Nat,
           Len(CallType(x).params) = a, Len(CallType(x).results) = b
    PROVE  Runs(<<Call(x)>>, <<x>>, S, a, b)
<1>1. /\ Call(x) \in Instruction /\ Call(x).op = "call" /\ Call(x).n = x
      /\ Takes(Call(x)) = a /\ Gives(Call(x)) = b
  BY MovesCall
<1>2. a <= a /\ b = a - a + b
  OBVIOUS
<1> QED
  BY <1>1, <1>2, RunsOwn

\* Tuples are concatenated, and functions on 1..n are tuples.
LEMMA Tuples ==
    /\ \A f : f = [i \in 1..1 |-> f[i]] => f = <<f[1]>>
    /\ \A f : f = [i \in 1..2 |-> f[i]] => f = <<f[1], f[2]>>
    /\ \A S : \A a, b \in S : <<a>> \o <<b>> = <<a, b>> /\ <<a, b>> \in Seq(S)
<1>1. \A i \in 1..2 : i = 1 \/ i = 2
  OBVIOUS
<1>2. \A f : f = [i \in 1..2 |-> f[i]] => f = <<f[1], f[2]>>
  BY <1>1
<1>3. \A f : f = [i \in 1..1 |-> f[i]] => f = <<f[1]>>
  OBVIOUS
<1>4. ASSUME NEW S, NEW a \in S, NEW b \in S PROVE <<a>> \o <<b>> = <<a, b>> /\ <<a, b>> \in Seq(S)
  <2> DEFINE t == <<a>> \o <<b>>
  <2>1. <<a>> \in Seq(S) /\ <<b>> \in Seq(S) /\ Len(<<a>>) = 1 /\ Len(<<b>>) = 1
    OBVIOUS
  <2>2. t \in Seq(S) /\ Len(t) = 2 /\ t[1] = a /\ t[2] = b
    BY <2>1
  <2> HIDE DEF t
  <2>3. t = <<a, b>>
    BY <2>2, <1>1
  <2>4. <<a, b>> \in Seq(S)
    BY <2>2, <2>3
  <2> QED
    BY <2>3, <2>4 DEF t
<1> QED
  BY <1>2, <1>3, <1>4

\* The launcher of the other kinds runs its targets.
LEMMA StartRuns ==
    ASSUME NEW ss, NEW S, kind # "emscripten", CallsFit(ss),
           \A i \in 1..Len(Targets) : Exports(ss, Targets[i])
    PROVE  Runs(StartBody(ss), Run(ss), S, 0, 0)
<1>1. 0 \in Nat /\ 2 \in Nat /\ Len(<< >>) = 0
  OBVIOUS
<1>2. CASE kind = "ruby"
  <2> DEFINE a == ExportOf(ss, "_initialize")
             b == ExportOf(ss, ShowVersion)
  <2>1. Targets = <<"_initialize", ShowVersion>>
    BY <1>2 DEF Targets
  <2>2. /\ Len(Targets) = 2 /\ Targets[1] = "_initialize"
        /\ Targets[2] = ShowVersion
    BY <2>1
  <2>3. a \in Nat /\ b \in Nat /\ CallType(a) = NoArguments /\ CallType(b) = NoArguments
    <3>1. 1 \in 1..Len(Targets) /\ 2 \in 1..Len(Targets)
      BY <2>2
    <3>2. Exports(ss, "_initialize") /\ Exports(ss, ShowVersion)
      BY <3>1, <2>2
    <3> QED
      BY <3>2, Conventions DEF CallsFit, Called
  <2>4. Run(ss) = <<a>> \o <<b>>
    <3> DEFINE f == [i \in 1..2 |-> ExportOf(ss, Targets[i])]
    <3>1. f[1] = a /\ f[2] = b /\ f = [i \in 1..2 |-> f[i]]
      BY <2>2
    <3>2. Run(ss) = f
      BY <2>2, <1>2 DEF Run
    <3> HIDE DEF f, a, b
    <3>3. f = <<f[1], f[2]>>
      BY <3>1, Tuples
    <3>4. <<a>> \o <<b>> = <<a, b>>
      BY <2>3, Tuples
    <3> QED
      BY <3>1, <3>2, <3>3, <3>4
  <2>5. StartBody(ss) = <<Call(a)>> \o <<Call(b)>>
    <3> DEFINE code == [i \in 1..2 |-> Call(ExportOf(ss, Targets[i]))]
    <3>1. code[1] = Call(a) /\ code[2] = Call(b) /\ code = [i \in 1..2 |-> code[i]]
      BY <2>2
    <3>2. StartBody(ss) = << >> \o code
      BY <1>2, <2>2 DEF StartBody, When
    <3>3. Call(a) \in Instruction /\ Call(b) \in Instruction
      BY <2>3 DEF Call, Instruction
    <3> HIDE DEF code, a, b
    <3>4. code = <<code[1], code[2]>>
      BY <3>1, Tuples
    <3>5. /\ <<Call(a)>> \o <<Call(b)>> = <<Call(a), Call(b)>>
          /\ <<Call(a), Call(b)>> \in Seq(Instruction)
      BY <3>3, Tuples
    <3>6. code \in Seq(Instruction) /\ <<Call(a)>> \o <<Call(b)>> = code
      BY <3>1, <3>4, <3>5
    <3> QED
      BY <3>2, <3>6, ConcatEmptySeq
  <2> HIDE DEF a, b
  <2>6. Runs(<<Call(a)>>, <<a>>, S, 0, 0) /\ Runs(<<Call(b)>>, <<b>>, S, 0, 0)
    <3>1. \A x \in {a, b} : Len(CallType(x).params) = 0 /\ Len(CallType(x).results) = 0
      BY <2>3, I32Lists
    <3> QED
      BY <3>1, <2>3, <1>1, RunsCall, Zenon
  <2> QED
    BY <2>4, <2>5, <2>6, RunsOn
<1>3. CASE kind # "ruby"
  <2> DEFINE name == Targets[1]
             a == ExportOf(ss, name)
             n == IF kind = "gojs" THEN 2 ELSE 0
  <2>1. /\ Targets = IF kind = "gojs" THEN <<"run">> ELSE <<"__wasm_call_ctors">>
    BY <1>3 DEF Targets
  <2>2. Len(Targets) = 1 /\ name = IF kind = "gojs" THEN "run" ELSE "__wasm_call_ctors"
    BY <2>1
  <2>3. /\ a \in Nat /\ n \in Nat
        /\ CallType(a) = IF kind = "gojs" THEN Func(I32s(2), << >>) ELSE NoArguments
    <3>1. 1 \in 1..Len(Targets)
      BY <2>2
    <3>2. Exports(ss, name) /\ name \in Called
      BY <3>1, <2>2 DEF Called
    <3> QED
      BY <3>2, <2>2, Conventions DEF CallsFit
  <2>4. Run(ss) = <<a>>
    <3>1. [i \in 1..1 |-> ExportOf(ss, Targets[i])] = <<a>>
      OBVIOUS
    <3> QED
      BY <3>1, <2>2 DEF Run
  <2>5. StartBody(ss) = When(kind = "gojs", <<Push(2)>>) \o <<Call(a)>>
    <3>1. [i \in 1..1 |-> Call(ExportOf(ss, Targets[i]))] = <<Call(a)>>
      OBVIOUS
    <3>2. StartBody(ss) = When(kind = "gojs", <<Push(2)>>)
                          \o [i \in 1..Len(Targets) |-> Call(ExportOf(ss, Targets[i]))]
      BY DEF StartBody, When
    <3> QED
      BY <3>1, <3>2, <2>2
  <2> HIDE DEF name, a
  <2>6. Runs(When(kind = "gojs", <<Push(2)>>), << >>, S, 0, n)
    <3>1. CASE kind = "gojs"
      BY <3>1, MovesOther, RunsMove DEF When
    <3>2. CASE kind # "gojs"
      BY <3>2, <1>1, RunsNothing DEF When
    <3> QED
      BY <3>1, <3>2
  <2>7. Runs(<<Call(a)>>, <<a>>, S, n, 0)
    <3>1. Len(CallType(a).params) = n /\ Len(CallType(a).results) = 0
      <4>1. CASE kind = "gojs"
        BY <4>1, <2>3, I32Lists
      <4>2. CASE kind # "gojs"
        BY <4>2, <2>3, I32Lists
      <4> QED
        BY <4>1, <4>2
    <3> QED
      BY <3>1, <2>3, <1>1, RunsCall, Zenon
  <2> HIDE DEF n
  <2>8. Runs(When(kind = "gojs", <<Push(2)>>) \o <<Call(a)>>, << >> \o <<a>>, S, 0, 0)
    BY <2>6, <2>7, RunsOn
  <2>9. << >> \o <<a>> = <<a>>
    BY <2>3
  <2> QED
    BY <2>4, <2>5, <2>8, <2>9
<1> QED
  BY <1>2, <1>3

\* The launcher of Emscripten runs the constructors and main, in each combination
\* of constructors, arguments, parameters and results.
LEMMA MainRuns ==
    ASSUME NEW ss, NEW S, kind = "emscripten", CallsFit(ss), MainFits(ss), Main(ss) \in Nat,
           CallType(Main(ss)) = TypeOf(ss, Main(ss)),
           UseArgv(ss) =>
              \A name \in {StackCurrent, StackAlloc, StackRestore} : ExportOf(ss, name) \in S
    PROVE  Runs(StartBody(ss), Run(ss), S, 0, 0)
<1> DEFINE ctors == "__wasm_call_ctors"
           first == Exports(ss, ctors)
           c == ExportOf(ss, ctors)
           m == Main(ss)
           type == TypeOf(ss, m)
           argv == UseArgv(ss)
           n == Len(type.params)
           r == Len(type.results)
           c1 == When(first, <<Call(c)>>)
           p1 == When(first, <<c>>)
           c2 == IF argv
                 THEN <<Call(ExportOf(ss, StackCurrent)), LocalSet,
                        Push(1), Call(ExportOf(ss, StackAlloc)), LocalSet, Push(1), LocalGet>>
                 ELSE ZeroesFor(type.params)
           back == When(argv, <<LocalSet, LocalGet, Call(ExportOf(ss, StackRestore)), LocalGet>>)
           c4 == When(type.results # << >>, back \o <<TrapIf>>)
<1>0. 0 \in Nat /\ 1 \in Nat /\ 2 \in Nat /\ Len(<< >>) = 0
  OBVIOUS
<1>1. StartBody(ss) = c1 \o c2 \o <<Call(m)>> \o c4
  BY DEF StartBody, MainLauncher
<1>2. Run(ss) = p1 \o <<m>>
  BY DEF Run
<1>3. /\ (type.params = << >> /\ n = 0) \/ (type.params # << >> /\ n = 2)
      /\ (type.results = << >> /\ r = 0) \/ (type.results # << >> /\ r = 1)
  BY I32Lists DEF MainFits
<1>4. ASSUME argv
      PROVE  /\ type.params # << >>
             /\ \A name \in {StackCurrent, StackAlloc, StackRestore} :
                  /\ ExportOf(ss, name) \in Nat /\ ExportOf(ss, name) \in S
                  /\ CallType(ExportOf(ss, name)) = Convention(name)
  <2>1. \A name \in {StackCurrent, StackAlloc, StackRestore} : name \in Called
    BY DEF Called
  <2> QED
    BY <2>1, <1>4 DEF UseArgv, CallsFit
<1>5. Runs(c1, p1, S, 0, 0)
  <2>1. CASE first
    <3>1. c \in Nat /\ CallType(c) = NoArguments
      BY <2>1, Conventions DEF CallsFit, Called
    <3>2. Len(CallType(c).params) = 0 /\ Len(CallType(c).results) = 0
      BY <3>1, I32Lists
    <3> HIDE DEF c
    <3>3. Runs(<<Call(c)>>, <<c>>, S, 0, 0)
      BY <3>1, <3>2, <1>0, RunsCall, Zenon
    <3> QED
      BY <2>1, <3>3 DEF When
  <2>2. CASE ~first
    BY <2>2, <1>0, RunsNothing DEF When
  <2> QED
    BY <2>1, <2>2
<1>6. Runs(c2, << >>, S, 0, n)
  <2>1. CASE argv
    <3> DEFINE x == ExportOf(ss, StackCurrent)
               y == ExportOf(ss, StackAlloc)
    <3>1. /\ x \in Nat /\ x \in S /\ CallType(x) = Func(<< >>, I32s(1))
          /\ y \in Nat /\ y \in S /\ CallType(y) = Func(I32s(1), I32s(1))
      BY <2>1, <1>4, Conventions
    <3> HIDE DEF x, y
    <3>2. Runs(<<Call(x), LocalSet, Push(1), Call(y), LocalSet, Push(1), LocalGet>>, << >>, S, 0, 2)
      BY <3>1, RunsArea
    <3> QED
      BY <2>1, <3>2, <1>3, <1>4 DEF x, y
  <2>2. CASE ~argv /\ type.params # << >>
    <3>1. c2 = <<Push(2)>> /\ n = 2
      BY <2>2, <1>3 DEF ZeroesFor, When
    <3> QED
      BY <3>1, MovesOther, RunsMove
  <2>3. CASE ~argv /\ type.params = << >>
    <3>1. c2 = << >> /\ n = 0
      BY <2>3, <1>3 DEF ZeroesFor, When
    <3> QED
      BY <3>1, <1>0, RunsNothing
  <2> QED
    BY <2>1, <2>2, <2>3
<1>7. Runs(<<Call(m)>>, <<m>>, S, n, r)
  <2>1. n \in Nat /\ r \in Nat /\ Len(CallType(m).params) = n /\ Len(CallType(m).results) = r
    BY <1>3
  <2> QED
    BY <2>1, RunsCall
<1>8. Runs(c4, << >>, S, r, 0)
  <2>1. CASE type.results = << >>
    <3>1. c4 = << >> /\ r = 0
      BY <2>1, <1>3 DEF When
    <3> QED
      BY <3>1, <1>0, RunsNothing
  <2>2. CASE type.results # << >>
    <3>1. c4 = back \o <<TrapIf>> /\ r = 1
      BY <2>2, <1>3 DEF When
    <3>2. Runs(<<TrapIf>>, << >>, S, 1, 0)
      BY MovesOther, RunsMove
    <3>3. CASE argv
      <4> DEFINE x == ExportOf(ss, StackRestore)
      <4>1. x \in Nat /\ x \in S /\ CallType(x) = Func(I32s(1), << >>)
        BY <3>3, <1>4, Conventions
      <4> HIDE DEF x
      <4>2. Runs(<<LocalSet, LocalGet, Call(x), LocalGet>>, << >>, S, 1, 1)
        BY <4>1, RunsBack
      <4>3. Runs(back, << >>, S, 1, 1)
        BY <3>3, <4>2 DEF When, x
      <4> HIDE DEF back
      <4>4. Runs(back \o <<TrapIf>>, << >> \o << >>, S, 1, 0)
        BY <4>3, <3>2, RunsOn
      <4>5. << >> \o << >> = << >>
        BY ConcatEmptySeq, EmptySeq
      <4> QED
        BY <3>1, <4>4, <4>5
    <3>4. CASE ~argv
      <4>1. back = << >>
        BY <3>4 DEF When
      <4>2. <<TrapIf>> \in Seq(Instruction)
        BY <3>2 DEF Runs
      <4>3. << >> \o <<TrapIf>> = <<TrapIf>>
        BY <4>2, ConcatEmptySeq
      <4> QED
        BY <3>1, <3>2, <4>1, <4>3
    <3> QED
      BY <3>3, <3>4
  <2> QED
    BY <2>1, <2>2
<1>9. p1 \in Seq(Nat) /\ p1 \o << >> = p1
  <2>1. p1 \in Seq(Nat)
    BY <1>5 DEF Runs
  <2> QED
    BY <2>1, ConcatEmptySeq
<1>10. p1 \o <<m>> \in Seq(Nat) /\ (p1 \o <<m>>) \o << >> = p1 \o <<m>>
  <2>1. p1 \o <<m>> \in Seq(Nat)
    BY <1>9
  <2> QED
    BY <2>1, ConcatEmptySeq
<1> HIDE DEF c1, c2, c4, p1, m, n, r
<1>11. Runs(c1 \o c2, p1, S, 0, n)
  BY <1>5, <1>6, <1>9, RunsOn
<1>12. Runs((c1 \o c2) \o <<Call(m)>>, p1 \o <<m>>, S, 0, r)
  BY <1>7, <1>11, RunsOn
<1>13. Runs(((c1 \o c2) \o <<Call(m)>>) \o c4, p1 \o <<m>>, S, 0, 0)
  BY <1>8, <1>10, <1>12, RunsOn
<1> QED
  BY <1>1, <1>2, <1>13

\* What the property says of such a body.
LEMMA RunsMeans ==
    ASSUME NEW body, NEW p, NEW S, Runs(body, p, S, 0, 0), S \cap Lists!ToSet(p) = {},
           NEW Own, Own = {i \in 1..Len(body) : body[i].op = "call" /\ body[i].n \in Lists!ToSet(p)}
    PROVE  /\ \E at \in [1..Len(p) -> Own] :
                /\ \A k \in 1..Len(p) : body[at[k]].n = p[k]
                /\ \A j, k \in 1..Len(p) : j < k => at[j] < at[k]
                /\ Own = {at[k] : k \in 1..Len(p)}
           /\ \A i \in 1..Len(body) :
                body[i].op = "call" => body[i].n \in Lists!ToSet(p) \cup S
           /\ Heights(body)[Len(body)] = 0
<1>1. body \in Seq(Instruction) /\ p \in Seq(Nat) /\ Balanced(body, 0, 0) /\ Calls(body, p, S)
  BY DEF Runs
<1>2. PICK at : CallsAt(body, Len(body), p, Len(p), S, at)
  BY <1>1 DEF Calls
<1>3. /\ at \in [1..Len(p) -> 1..Len(body)]
      /\ \A k \in 1..Len(p) : body[at[k]].op = "call" /\ body[at[k]].n = p[k]
      /\ \A j, k \in 1..Len(p) : j < k => at[j] < at[k]
      /\ \A i \in 1..Len(body) :
           body[i].op = "call" => body[i].n \in S \/ \E k \in 1..Len(p) : at[k] = i
  BY <1>2 DEF CallsAt
<1>4. \A k \in 1..Len(p) : p[k] \in Lists!ToSet(p)
  BY <1>1 DEF Lists!ToSet
<1>5. \A k \in 1..Len(p) : at[k] \in Own
  BY <1>3, <1>4
<1>6. \A i \in Own : \E k \in 1..Len(p) : at[k] = i
  BY <1>3
<1>7. at \in [1..Len(p) -> Own]
  BY <1>3, <1>5
<1>8. Own = {at[k] : k \in 1..Len(p)}
  BY <1>5, <1>6
<1>9. \A i \in 1..Len(body) : body[i].op = "call" => body[i].n \in Lists!ToSet(p) \cup S
  BY <1>3, <1>4
<1>10. Heights(body)[Len(body)] = 0
  BY <1>1, HeightsAre
<1> QED
  BY <1>3, <1>7, <1>8, <1>9, <1>10

-----------------------------------------------------------------------------
(* What names stand for when _start runs *)

\* The functions that a launcher calls without a look at their type have, in the
\* source, the type that the toolchains give them.
Conventional ==
    \A name \in Called : Exports(source.sections, name) =>
        LET d == Defined(source.sections, ExportOf(source.sections, name))
        IN /\ d \in 1..Len(Items(source.sections, FunctionId))
           /\ TypeAt(source.sections, Items(source.sections, FunctionId)[d]) = Convention(name)

\* What functionCount counts is what the source imports.
CountStands == stage \in Edits => functionCount = Cardinality(Imported(source.sections, "func"))

LEMMA CountInvariance == Spec => []CountStands
<1>1. Init => CountStands
  BY DEF Init, CountStands, Edits
<1>2. ASSUME CountStands, [Next]_vars PROVE CountStands'
  <2>1. ASSUME UNCHANGED <<source, functionCount>>, stage' \in Edits => stage \in Edits
        PROVE  CountStands'
    BY <1>2, <2>1 DEF CountStands, Imported
  <2>2. CASE UNCHANGED vars
    BY <2>1, <2>2 DEF vars
  <2>3. CASE Classify
    BY <2>1, <2>3 DEF Classify, Go, Edits
  <2>4. CASE DecodeSections
    BY <2>1, <2>4 DEF DecodeSections, Go, Edits
  <2>5. CASE RewriteImports
    <3>1. CASE RewriteError /\ Fail
      <4>1. stage' \notin Edits
        BY <3>1 DEF Fail, Go, Edits
      <4> QED
        BY <4>1 DEF CountStands
    <3>2. CASE ~RewriteError
      <4>1. /\ functionCount' = Cardinality({i \in 1..Len(Imports) : Counts(Imports[i])})
            /\ source' = source
        BY <2>5, <3>2 DEF RewriteImports, Fail
      <4>2. {i \in 1..Len(Imports) : Counts(Imports[i])} = Imported(source.sections, "func")
        BY DEF Imported, Imports, Counts, IsFunction
      <4> QED
        BY <4>1, <4>2 DEF CountStands, Imported
    <3> QED
      BY <2>5, <3>1, <3>2 DEF RewriteImports
  <2>6. CASE AddInvokeWrapper
    BY <2>1, <2>6 DEF AddInvokeWrapper, At, Edits
  <2>7. CASE DefineImportedMemory
    BY <2>1, <2>7 DEF DefineImportedMemory, At, Edits
  <2>8. CASE AddResizeHeapWrapper
    BY <2>1, <2>8 DEF AddResizeHeapWrapper, At, Edits
  <2>9. CASE AddLauncher
    BY <2>1, <2>9 DEF AddLauncher, At, Edits
  <2>10. CASE EncodeSections
    BY <2>1, <2>10 DEF EncodeSections, At, Edits
  <2> QED
    BY <1>2, <2>2, <2>3, <2>4, <2>5, <2>6, <2>7, <2>8, <2>9, <2>10 DEF Next
<1> QED
  BY <1>1, <1>2, PTL DEF Spec

\* An export has an index.
LEMMA ExportedIndex ==
    ASSUME NEW ss, WellFormed(ss), NEW name, Exports(ss, name)
    PROVE  ExportOf(ss, name) \in Nat
<1> DEFINE E == Items(ss, ExportId)
           P == Functions(ss, name)
<1>1. Len(E) \in Nat /\ \A i \in 1..Len(E) : E[i].index \in Nat
  BY ItemsAreList DEF WellFormed
<1>2. P \subseteq 1..Len(E) /\ P # {}
  BY DEF Exports, Functions, Named
<1> HIDE DEF P, E
<1>3. Last(P) \in P
  BY <1>1, <1>2, LastIsGreatest
<1> QED
  BY <1>1, <1>2, <1>3 DEF ExportOf, P, E

\* What IsDefined and TypeOf say, in a module whose imported functions are counted.
LEMMA TypesByIndex ==
    ASSUME NEW ss, WellFormed(ss), Valid(ss), NEW index \in Nat,
           functionCount \in Nat, functionCount = Cardinality(Imported(ss, "func"))
    PROVE  /\ IsDefined(ss, index) <=> Defined(ss, index) \in 1..Len(Items(ss, FunctionId))
           /\ TypeOf(ss, index) = TypeAt(ss, Items(ss, FunctionId)[Defined(ss, index)])
<1> DEFINE F == Items(ss, FunctionId)
           d == index - functionCount + 1
<1>1. Len(F) \in Nat /\ \A i \in 1..Len(F) : HasType(ss, F[i])
  BY ItemsAreList DEF WellFormed, Valid
<1>2. Defined(ss, index) = d
  BY DEF Defined
<1>3. index \in functionCount..(functionCount + Len(F) - 1) <=> d \in 1..Len(F)
  <2> HIDE DEF F
  <2> QED
    BY <1>1
<1> HIDE DEF d
<1>4. IsDefined(ss, index) <=> d \in 1..Len(F)
  <2>1. IsDefined(ss, index) <=> index \in functionCount..(functionCount + Len(F) - 1) /\ HasType(ss, F[d])
    BY DEF IsDefined, d
  <2> QED
    BY <2>1, <1>1, <1>3
<1> QED
  BY <1>2, <1>4 DEF TypeOf, d

\* What is launched is called with the types of the source.
LEMMA CalledTypes ==
    ASSUME NamesStand, IInv, CountStands, Asked, Conventional, stage = "done",
           NEW ss, LaunchedFrom(ss), Sound(ss, functionCount)
    PROVE  /\ CallsFit(ss)
           /\ \A index \in Nat : IsDefined(ss, index) => CallType(index) = TypeOf(ss, index)
           /\ \A name \in Called : /\ Exports(ss, name) <=> Exports(source.sections, name)
                                   /\ Exports(sections, name) <=> Exports(ss, name)
                                   /\ Exports(ss, name) =>
                                        /\ ExportOf(ss, name) = ExportOf(source.sections, name)
                                        /\ ExportOf(sections, name) = ExportOf(ss, name)
<1> DEFINE src == source.sections
           tt == sections
<1>1. /\ WellFormed(src) /\ Valid(src) /\ Formed(src) /\ Sectioned(src)
      /\ functionCount \in Nat /\ functionCount = Cardinality(Imported(src, "func"))
  <2>1. WellFormed(src) /\ Valid(src)
    BY DEF IInv, SourceFormed, Asked
  <2> QED
    BY <2>1 DEF WellFormed, Formed, NamesStand, CountStands, Edits
<1>2. /\ Formed(ss) /\ Sectioned(ss) /\ Keeps(src, ss, OwnExports)
      /\ Formed(tt) /\ Sectioned(tt) /\ Keeps(ss, tt, StartName)
  BY <1>1, LaunchedKeeps DEF LaunchedFrom, Formed
<1>3. WellFormed(tt) /\ Valid(tt) /\ functionCount = Cardinality(Imported(tt, "func"))
  BY DEF IInv, StagesSound, Edits, Sound
<1> HIDE DEF src, tt
<1>4. ASSUME NEW index \in Nat, IsDefined(ss, index)
      PROVE  CallType(index) = TypeOf(ss, index)
  <2>1. IsDefined(tt, index) /\ TypeOf(tt, index) = TypeOf(ss, index)
    BY <1>1, <1>2, <1>4, TypeStays
  <2>2. TypeOf(tt, index) = TypeAt(tt, Items(tt, FunctionId)[Defined(tt, index)])
    BY <1>1, <1>3, TypesByIndex
  <2> QED
    BY <2>1, <2>2 DEF CallType, tt
<1>5. \A name \in Called : name \notin OwnExports /\ name \notin StartName
  <2>1. Called \subseteq Sought
    BY DEF Called, Sought, StackCurrent, StackAlloc, StackRestore
  <2>2. "_start" \notin Called
    BY DEF Called, ShowVersion, StackCurrent, StackAlloc, StackRestore
  <2> QED
    BY <2>1, <2>2, SoughtAreFree DEF StartName
<1>6. ASSUME NEW name \in Called
      PROVE  /\ Exports(ss, name) <=> Exports(src, name)
             /\ Exports(tt, name) <=> Exports(ss, name)
             /\ Exports(ss, name) => /\ ExportOf(ss, name) = ExportOf(src, name)
                                     /\ ExportOf(tt, name) = ExportOf(ss, name)
  <2>1. /\ Exports(ss, name) <=> Exports(src, name)
        /\ Exports(src, name) => ExportOf(ss, name) = ExportOf(src, name)
    BY <1>1, <1>2, <1>5, NameStays
  <2>2. /\ Exports(tt, name) <=> Exports(ss, name)
        /\ Exports(ss, name) => ExportOf(tt, name) = ExportOf(ss, name)
    BY <1>2, <1>5, NameStays
  <2> QED
    BY <2>1, <2>2
<1>7. ASSUME NEW name \in Called, Exports(ss, name)
      PROVE  ExportOf(ss, name) \in Nat /\ CallType(ExportOf(ss, name)) = Convention(name)
  <2> DEFINE e == ExportOf(ss, name)
  <2>1. Exports(src, name) /\ e = ExportOf(src, name)
    BY <1>6, <1>7
  <2> HIDE DEF e
  <2>2. e \in Nat
    BY <1>1, <2>1, ExportedIndex
  <2>3. /\ Defined(src, e) \in 1..Len(Items(src, FunctionId))
        /\ TypeAt(src, Items(src, FunctionId)[Defined(src, e)]) = Convention(name)
    BY <2>1 DEF Conventional, src
  <2>4. IsDefined(src, e) /\ TypeOf(src, e) = Convention(name)
    BY <1>1, <2>2, <2>3, TypesByIndex
  <2>5. IsDefined(ss, e) /\ TypeOf(ss, e) = Convention(name)
    BY <1>1, <1>2, <2>4, TypeStays
  <2>6. CallType(e) = Convention(name)
    BY <1>4, <2>2, <2>5
  <2> QED
    BY <2>2, <2>6 DEF e
<1>8. CallsFit(ss)
  BY <1>7 DEF CallsFit
<1> QED
  BY <1>4, <1>6, <1>8 DEF src, tt

\* What was added as _start runs what the launcher is for.
LEMMA ProgramRuns ==
    ASSUME NamesStand, IInv, CountStands, Asked, Conventional, stage = "done",
           NEW ss, LaunchedFrom(ss), Sound(ss, functionCount)
    PROVE  \E S : /\ Runs(StartBody(ss), Run(ss), S, 0, 0) /\ S \cap Lists!ToSet(Run(ss)) = {}
                  /\ \A x \in S : \E name \in {StackCurrent, StackAlloc, StackRestore} :
                       Exports(ss, name) /\ x = ExportOf(ss, name)
<1> DEFINE Stack == {StackCurrent, StackAlloc, StackRestore}
<1>1. CallsFit(ss) /\ \A index \in Nat : IsDefined(ss, index) => CallType(index) = TypeOf(ss, index)
  BY CalledTypes
<1>2. CASE kind # "emscripten"
  <2>1. \A i \in 1..Len(Targets) : Exports(ss, Targets[i])
    BY <1>2 DEF LaunchedFrom, LauncherError, StartLauncherError
  <2>2. Runs(StartBody(ss), Run(ss), {}, 0, 0)
    BY <1>1, <1>2, <2>1, StartRuns
  <2> QED
    BY <2>2
<1>3. CASE kind = "emscripten"
  <2> DEFINE m == Main(ss)
  <2>1. MainFits(ss)
    BY <1>3 DEF LaunchedFrom, LauncherError, EmscriptenLauncherError
  <2>2. m \in Nat /\ CallType(m) = TypeOf(ss, m)
    <3>1. functionCount \in Nat /\ Len(Items(ss, FunctionId)) \in Nat
      BY ItemsAreList DEF NamesStand, LaunchedFrom, Formed
    <3>2. m \in functionCount..(functionCount + Len(Items(ss, FunctionId)) - 1)
      BY <2>1 DEF MainFits, IsDefined
    <3>3. m \in Nat
      BY <3>1, <3>2
    <3> QED
      BY <3>3, <2>1, <1>1 DEF MainFits
  <2>3. CASE ~UseArgv(ss)
    <3>1. Runs(StartBody(ss), Run(ss), {}, 0, 0)
      BY <1>1, <1>3, <2>1, <2>2, <2>3, MainRuns
    <3> QED
      BY <3>1
  <2>4. CASE UseArgv(ss)
    <3> DEFINE S == {ExportOf(ss, name) : name \in Stack}
               ctors == "__wasm_call_ctors"
               c == ExportOf(ss, ctors)
    <3>1. Runs(StartBody(ss), Run(ss), S, 0, 0)
      <4>1. \A name \in Stack : ExportOf(ss, name) \in S
        OBVIOUS
      <4> HIDE DEF S
      <4> QED
        BY <4>1, <1>1, <1>3, <2>1, <2>2, <2>4, MainRuns
    <3>2. \A name \in Stack : Exports(ss, name)
      BY <2>4 DEF UseArgv
    <3>3. ASSUME NEW x \in S
          PROVE  /\ Len(CallType(x).params) # 2
                 /\ Len(CallType(x).params) # 0 \/ Len(CallType(x).results) # 0
      <4>1. PICK name \in Stack : x = ExportOf(ss, name)
        OBVIOUS
      <4>2. CallType(x) = Convention(name)
        BY <4>1, <3>2, <1>1 DEF CallsFit, Called
      <4> QED
        BY <4>1, <4>2, Conventions, I32Lists
    <3>4. Len(CallType(m).params) = 2
      BY <2>1, <2>2, <2>4, I32Lists DEF UseArgv, MainFits
    <3>5. Exports(ss, ctors) => Len(CallType(c).params) = 0 /\ Len(CallType(c).results) = 0
      <4> SUFFICES ASSUME Exports(ss, ctors)
                   PROVE  Len(CallType(c).params) = 0 /\ Len(CallType(c).results) = 0
        OBVIOUS
      <4>1. CallType(c) = NoArguments
        BY <1>1, Conventions DEF CallsFit, Called
      <4> QED
        BY <4>1, I32Lists
    <3>6. \A x \in Lists!ToSet(Run(ss)) : x = m \/ (Exports(ss, ctors) /\ x = c)
      <4> HIDE DEF m, c
      <4>1. CASE Exports(ss, ctors)
        <5>1. Run(ss) = <<c>> \o <<m>>
          BY <1>3, <4>1 DEF Run, When, m, c
        <5>2. c \in Nat
          BY <1>1, <4>1 DEF CallsFit, Called, c
        <5>3. Run(ss) = <<c, m>>
          BY <5>1, <5>2, <2>2, Tuples
        <5> DEFINE r == <<c, m>>
        <5>4. DOMAIN r = 1..2 /\ \A i \in 1..2 : i = 1 \/ i = 2
          OBVIOUS
        <5>5. r[1] = c /\ r[2] = m
          OBVIOUS
        <5>6. Run(ss) = r
          BY <5>3
        <5> HIDE DEF r
        <5>7. \A i \in DOMAIN r : r[i] = c \/ r[i] = m
          BY <5>4, <5>5
        <5>8. \A x \in Lists!ToSet(r) : x = c \/ x = m
          BY <5>7, Zenon DEF Lists!ToSet
        <5> QED
          BY <5>6, <5>8, <4>1
      <4>2. CASE ~Exports(ss, ctors)
        <5>1. Run(ss) = << >> \o <<m>>
          BY <1>3, <4>2 DEF Run, When, m
        <5>2. Run(ss) = <<m>>
          BY <5>1, <2>2
        <5> DEFINE r == <<m>>
        <5>3. DOMAIN r = 1..1 /\ \A i \in 1..1 : i = 1
          OBVIOUS
        <5>4. r[1] = m
          OBVIOUS
        <5>5. Run(ss) = r
          BY <5>2
        <5> HIDE DEF r
        <5>6. \A i \in DOMAIN r : r[i] = m
          BY <5>3, <5>4
        <5>7. \A x \in Lists!ToSet(r) : x = m
          BY <5>6, Zenon DEF Lists!ToSet
        <5> QED
          BY <5>5, <5>7
      <4> QED
        BY <4>1, <4>2
    <3> HIDE DEF m, c
    <3>7. S \cap Lists!ToSet(Run(ss)) = {}
      <4> HIDE DEF S
      <4> QED
        BY <3>3, <3>4, <3>5, <3>6
    <3> QED
      BY <3>1, <3>2, <3>7
  <2> QED
    BY <2>3, <2>4
<1> QED
  BY <1>2, <1>3

\* The functions a launcher is for are those the source exports.
LEMMA ProgramIsRun ==
    ASSUME NamesStand, IInv, CountStands, Asked, Conventional, stage = "done",
           NEW ss, LaunchedFrom(ss), Sound(ss, functionCount)
    PROVE  Program = Run(ss)
<1> DEFINE src == source.sections
<1>1. \A name \in Called : /\ Exports(ss, name) <=> Exports(src, name)
                           /\ Exports(ss, name) => ExportOf(ss, name) = ExportOf(src, name)
  BY CalledTypes
<1>2. CASE kind # "emscripten"
  <2>1. \A i \in 1..Len(Targets) : Exports(ss, Targets[i])
    BY <1>2 DEF LaunchedFrom, LauncherError, StartLauncherError
  <2>2. \A i \in 1..Len(Targets) : Targets[i] \in Called
    <3>1. Targets = <<"_initialize", ShowVersion>> \/ Targets = <<"run">> \/ Targets = <<"__wasm_call_ctors">>
      BY DEF Targets
    <3>2. \A i \in 1..2 : i = 1 \/ i = 2
      OBVIOUS
    <3>3. \A i \in 1..1 : i = 1
      OBVIOUS
    <3> QED
      BY <3>1, <3>2, <3>3 DEF Called
  <2>3. \A i \in 1..Len(Targets) : ExportOf(src, Targets[i]) = ExportOf(ss, Targets[i])
    BY <1>1, <2>1, <2>2
  <2>4. Program = [i \in 1..Len(Targets) |-> ExportOf(src, Targets[i])]
    BY <1>2 DEF Program
  <2>5. Run(ss) = [i \in 1..Len(Targets) |-> ExportOf(ss, Targets[i])]
    BY <1>2 DEF Run
  <2> HIDE DEF src
  <2> QED
    BY <2>3, <2>4, <2>5
<1>3. CASE kind = "emscripten"
  <2> DEFINE ctors == "__wasm_call_ctors"
             c == ExportOf(ss, ctors)
             m == Main(ss)
             names == When(Exports(src, ctors), <<ctors>>) \o <<MainName(src)>>
  <2>1. MainFits(ss)
    BY <1>3 DEF LaunchedFrom, LauncherError, EmscriptenLauncherError
  <2>2. MainName(ss) = MainName(src) /\ Main(ss) = Main(src)
    <3>1. \A i \in 1..3 : MainNames[i] \notin OwnExports
      <4>1. MainNames[1] \in Sought /\ MainNames[2] \in Sought /\ MainNames[3] \in Sought
        BY DEF MainNames, Sought
      <4>2. \A i \in 1..3 : i = 1 \/ i = 2 \/ i = 3
        OBVIOUS
      <4> QED
        BY <4>1, <4>2, SoughtAreFree
    <3>2. Sectioned(src) /\ Sectioned(ss) /\ Keeps(src, ss, OwnExports)
      BY DEF LaunchedFrom, Formed, IInv, SourceFormed, WellFormed
    <3> QED
      BY <3>1, <3>2, <2>1, MainStays DEF MainFits
  <2>3. m = ExportOf(src, MainName(src))
    BY <2>2 DEF Main
  <2>4. /\ Exports(ss, ctors) <=> Exports(src, ctors)
        /\ Exports(ss, ctors) => c = ExportOf(src, ctors)
    BY <1>1 DEF Called
  <2>5. Program = [i \in 1..Len(names) |-> ExportOf(src, names[i])]
    BY <1>3 DEF Program
  <2>6. CASE Exports(ss, ctors)
    <3>1. names = <<ctors>> \o <<MainName(src)>>
      BY <2>4, <2>6 DEF When
    <3>2. names = <<ctors, MainName(src)>>
      <4>1. ctors \in {ctors, MainName(src)} /\ MainName(src) \in {ctors, MainName(src)}
        OBVIOUS
      <4> QED
        BY <3>1, <4>1, Tuples
    <3> HIDE DEF names
    <3>3. Len(names) = 2 /\ names[1] = ctors /\ names[2] = MainName(src)
      BY <3>2
    <3>4. Program = <<c, m>>
      <4> DEFINE f == [i \in 1..2 |-> ExportOf(src, names[i])]
      <4>1. f[1] = c /\ f[2] = m /\ f = [i \in 1..2 |-> f[i]]
        BY <3>3, <2>3, <2>4, <2>6
      <4>2. Program = f
        BY <2>5, <3>3
      <4> HIDE DEF f, c, m
      <4>3. f = <<f[1], f[2]>>
        BY <4>1, Tuples
      <4> QED
        BY <4>1, <4>2, <4>3
    <3>5. c \in Nat /\ m \in Nat
      <4>1. CallsFit(ss)
        BY CalledTypes
      <4>2. c \in Nat
        BY <4>1, <2>6 DEF CallsFit, Called
      <4>3. functionCount \in Nat /\ Len(Items(ss, FunctionId)) \in Nat
        BY ItemsAreList DEF NamesStand, LaunchedFrom, Formed
      <4>4. m \in functionCount..(functionCount + Len(Items(ss, FunctionId)) - 1)
        BY <2>1 DEF MainFits, IsDefined
      <4>5. m \in Nat
        BY <4>3, <4>4
      <4> QED
        BY <4>2, <4>5
    <3>6. Run(ss) = <<c>> \o <<m>>
      BY <1>3, <2>6 DEF Run, When
    <3> HIDE DEF c, m
    <3>7. <<c>> \o <<m>> = <<c, m>>
      BY <3>5, Tuples
    <3> QED
      BY <3>4, <3>6, <3>7
  <2>7. CASE ~Exports(ss, ctors)
    <3>1. names = << >> \o <<MainName(src)>>
      BY <2>4, <2>7 DEF When
    <3>2. names = <<MainName(src)>>
      BY <3>1
    <3> HIDE DEF names
    <3>3. Len(names) = 1 /\ names[1] = MainName(src)
      BY <3>2
    <3>4. Program = <<m>>
      <4> DEFINE f == [i \in 1..1 |-> ExportOf(src, names[i])]
      <4>1. f[1] = m /\ f = [i \in 1..1 |-> f[i]]
        BY <3>3, <2>3
      <4>2. Program = f
        BY <2>5, <3>3
      <4> HIDE DEF f, m
      <4>3. f = <<f[1]>>
        BY <4>1, Tuples
      <4> QED
        BY <4>1, <4>2, <4>3
    <3>5. Run(ss) = << >> \o <<m>>
      BY <1>3, <2>7 DEF Run, When
    <3> HIDE DEF m
    <3>6. << >> \o <<m>> = <<m>>
      OBVIOUS
    <3> QED
      BY <3>4, <3>5, <3>6
  <2> QED
    BY <2>6, <2>7
<1> QED
  BY <1>2, <1>3

-----------------------------------------------------------------------------
(* Theorems *)

\* A valid module comes out valid (StaysValid): its sections in the order of the
\* standard, a body for every function, every type and export there is, names
\* exported once, and as many memories as it had.
THEOREM KeepsValid == Spec => []StaysValid
<1>1. IInv => StaysValid
  <2> SUFFICES ASSUME IInv, Transformed, Valid(source.sections),
                      \A name \in OwnExports : Named(source.sections, name) = {}
               PROVE  Valid(sections) /\ Memories(sections) = Memories(source.sections)
    BY DEF StaysValid
  <2>1. stage = "done" /\ Asked
    BY DEF Transformed, At, Asked
  <2> QED
    BY <2>1 DEF IInv, StagesSound, MemoryOwed, Edits, Sound
<1> QED
  BY <1>1, Invariance, PTL

\* The guest imports what the plugin binds, and by the type it binds it with.
ImportsBound ==
    \A i \in 1..Len(Imports) :
        LET entry == Renamed(Imports[i]) IN
        IsEnv(entry) /\ IsFunction(entry) /\ entry.name # "_gmtime_js" =>
            /\ entry.name \in DOMAIN Binding /\ HasType(source.sections, entry.type)
            /\ TypeAt(source.sections, entry.type) = Binding[entry.name]

\* In a valid module whose imports are bound, and stay bound by their types when
\* they are renamed, every import is answered (ImportsAnswered): each invoke_*
\* by a trampoline of its type that makes the indirect call of the type without
\* the table index, heap growth by its wrapper, and neither by an index that is
\* off by the memory, by another import or by a function added since.
THEOREM ImportsAreAnswered ==
    Spec => [](/\ Valid(source.sections) /\ ImportsBound
               /\ \A name \in OwnExports : Named(source.sections, name) = {}
               => ImportsAnswered)
<1>1. IInv /\ Answers =>
        (/\ Valid(source.sections) /\ ImportsBound
         /\ \A name \in OwnExports : Named(source.sections, name) = {}
         => ImportsAnswered)
  <2> DEFINE Entry(i) == Items(sections, ImportId)[i]
             Type(i) == TypeAt(sections, Entry(i).type)
  <2> SUFFICES ASSUME IInv, Answers, Valid(source.sections), ImportsBound,
                      \A name \in OwnExports : Named(source.sections, name) = {},
                      Transformed, NEW i \in 1..Len(Items(sections, ImportId)),
                      IsEnv(Entry(i)), IsFunction(Entry(i)), Entry(i).name # "_gmtime_js"
               PROVE  /\ Entry(i).name \in DOMAIN Binding /\ Type(i) = Binding[Entry(i).name]
                      /\ IsInvoke(Entry(i)) =>
                           Offers(sections, Trampoline(Entry(i).name), Type(i), CallsBack(Type(i)))
                      /\ Entry(i).name = "emscripten_resize_heap" =>
                           Offers(sections, ResizeWrapper, Type(i), ResizeBody[1])
    BY DEF ImportsAnswered
  <2>1. stage = "done" /\ stage \in Edits /\ Asked
    BY DEF Transformed, At, Asked, Edits
  <2>2. /\ Items(sections, ImportId) = Rewritten
        /\ Begins(Types(source.sections), Types(sections))
        /\ (resizes <=> ImportsResize)
    BY <2>1 DEF Answers, ImportsStand
  <2>3. WellFormed(source.sections) /\ WellFormed(sections)
    BY <2>1 DEF IInv, SourceFormed, StagesSound, Sound
  <2>4. PICK j \in 1..Len(Imports) : Entry(i) = Renamed(Imports[j])
    <3>1. /\ IsList(Kept) /\ \A k \in 1..Len(Kept) : \E j \in 1..Len(Imports) : Kept[k] = Imports[j]
      BY <2>3, KeptImports
    <3>2. /\ Len(Rewritten) = Len(Kept) /\ \A k \in 1..Len(Kept) : Rewritten[k] = Renamed(Kept[k])
      BY <3>1 DEF Rewritten, IsList
    <3> QED
      BY <3>1, <3>2, <2>2
  <2> HIDE DEF Entry
  <2>5. \A k \in 1..Len(Imports) : IsImportEntry(Imports[k])
    BY <2>3 DEF WellFormed, Imports
  <2>6. Entry(i).kind = Imports[j].kind /\ Entry(i).type = Imports[j].type /\ Imports[j].type \in Nat
    BY <2>4, <2>5, RenamedEntry DEF IsImportEntry
  <2>7. /\ Entry(i).name \in DOMAIN Binding /\ HasType(source.sections, Entry(i).type)
        /\ TypeAt(source.sections, Entry(i).type) = Binding[Entry(i).name]
    BY <2>4 DEF ImportsBound
  <2>8. Type(i) = TypeAt(source.sections, Entry(i).type)
    <3> DEFINE a == Types(source.sections)
               b == Types(sections)
               t == Entry(i).type
    <3>1. Len(a) \in Nat /\ Len(b) \in Nat
      BY <2>3, ItemsAreList DEF WellFormed, Types
    <3>2. t \in Nat /\ t < Len(a)
      BY <2>6, <2>7 DEF HasType
    <3>3. Begins(a, b)
      BY <2>2
    <3> HIDE DEF a, b, t
    <3>4. t + 1 \in 1..Len(a)
      BY <3>1, <3>2
    <3>5. b[t + 1] = a[t + 1]
      BY <3>3, <3>4 DEF Begins
    <3> QED
      BY <3>5 DEF TypeAt, a, b, t
  <2> HIDE DEF Type
  <2>9. ASSUME IsInvoke(Entry(i))
        PROVE  Offers(sections, Trampoline(Entry(i).name), Type(i), CallsBack(Type(i)))
    <3> DEFINE name == Entry(i).name
    <3>1. name \in Lists!ToSet(InvokeNames) /\ name \in Answered /\ name \in DOMAIN Signature
      BY <2>9, SourceAssumption DEF SourceAssumption, IsInvoke, Answered
    <3>2. IsEnv(Imports[j]) /\ Imports[j].name = name
      BY <3>1, <2>4, <2>5, <2>9, RenamedEntry DEF IsInvoke
    <3> HIDE DEF name
    <3>3. j \in Invokes(name) /\ IsInvoked(name)
      BY <3>1, <3>2, <2>6 DEF Invokes, IsInvoked, IsInvoke, IsFunction
    <3>4. PICK k \in Invokes(name) : InvokeIndex(name) = Imports[k].type
      BY <3>3, RememberedImport DEF IInv
    <3>5. /\ k \in 1..Len(Imports) /\ IsInvoke(Imports[k]) /\ Imports[k].name = name
      BY <3>4 DEF Invokes
    <3>6. /\ IsEnv(Renamed(Imports[k])) /\ Renamed(Imports[k]).name = name
          /\ IsFunction(Renamed(Imports[k])) /\ Renamed(Imports[k]).type = Imports[k].type
      BY <3>1, <3>5, <2>5, RenamedEntry DEF IsInvoke, IsFunction
    <3>7. name # "_gmtime_js"
      BY DEF name
    <3>8. TypeAt(source.sections, Imports[k].type) = Binding[name]
      BY <3>5, <3>6, <3>7 DEF ImportsBound
    <3>9. TrampolineType(name) = Type(i)
      BY <3>4, <3>8, <2>7, <2>8 DEF TrampolineType, name
    <3>10. Offered(sections, Trampoline(name), TrampolineType(name), CallsBack(TrampolineType(name)))
      BY <3>1, <3>3, <2>1 DEF Answers, TrampolinesStand
    <3> QED
      BY <3>9, <3>10 DEF Offered, name
  <2>10. ASSUME Entry(i).name = "emscripten_resize_heap"
         PROVE  Offers(sections, ResizeWrapper, Type(i), ResizeBody[1])
    <3>1. IsEnv(Imports[j]) /\ Imports[j].name = "emscripten_resize_heap"
      BY <2>4, <2>5, <2>10, RenamedEntry DEF Answered
    <3>2. resizes
      BY <3>1, <2>2, <2>6 DEF ImportsResize, IsFunction
    <3>3. Binding["emscripten_resize_heap"] = Func(I32s(1), I32s(1))
      BY DEF Binding
    <3>4. Offered(sections, ResizeWrapper, Func(I32s(1), I32s(1)), ResizeBody[1])
      BY <3>2, <2>1 DEF Answers, ResizeStands
    <3> QED
      BY <3>3, <3>4, <2>7, <2>8, <2>10 DEF Offered
  <2> QED
    BY <2>7, <2>8, <2>9, <2>10
<1> QED
  BY <1>1, Invariance, AnswersInvariance, PTL

\* Numbers go through the transformer unchanged, whatever their width and however
\* long their encoding (NumbersKept): readU32 refuses what denotes no number and
\* nothing else, what it reads is what the bytes denote, and appendU32 and
\* appendS32 write bytes that denote it again.
THEOREM KeepsNumbers == Spec => []NumbersKept
<1>1. NumberRead => NumbersKept
  <2> SUFFICES ASSUME NumberRead PROVE NumbersKept
    OBVIOUS
  <2> DEFINE r == ReadU32(source.number)
  <2>1. CodecAssumption /\ source.number \in Seq(Byte)
    BY CodecAssumption DEF NumberRead
  <2>2. /\ r.value # Invalid.value =>
             /\ r.size \in 1..Len(source.number) /\ r.value \in 0..(TwoTo[Bits] - 1)
             /\ DenotesU(SubSeq(source.number, 1, r.size), r.value)
        /\ r.value = Invalid.value =>
             \A n \in 1..Len(source.number), v \in Nat :
                ~DenotesU(SubSeq(source.number, 1, n), v)
    BY <2>1, ReadIsExact
  <2> HIDE DEF r
  <2>3. ASSUME At("failed"), number = Invalid.value
        PROVE  \A n \in 1..Len(source.number), v \in 0..(TwoTo[Bits] - 1) :
                  ~DenotesU(SubSeq(source.number, 1, n), v)
    <3>1. r.value = Invalid.value
      BY <2>3 DEF NumberRead, Decoded, At, r
    <3>2. TwoTo[Bits] \in Nat
      BY <2>1, Halves
    <3>3. \A v \in 0..(TwoTo[Bits] - 1) : v \in Nat
      BY <3>2
    <3> QED
      BY <2>2, <3>1, <3>3
  <2>4. ASSUME At("imports")
        PROVE  /\ DenotesU(SubSeq(source.number, 1, r.size), number)
               /\ DenotesU(AppendU32(number), number)
               /\ DenotesS(AppendS32(Int32(number)), Int32(number))
    <3>1. number = r.value /\ number # Invalid.value
      BY <2>4 DEF NumberRead, Decoded, At, r
    <3>2. /\ DenotesU(SubSeq(source.number, 1, r.size), number)
          /\ number \in 0..(TwoTo[Bits] - 1)
      BY <2>2, <3>1
    <3>3. DenotesU(AppendU32(number), number)
      BY <2>1, <3>2, WrittenIsExact
    <3>4. Int32(number) \in (-TwoTo[Bits - 1])..(TwoTo[Bits - 1] - 1)
      BY <2>1, <3>2, Signed
    <3>5. DenotesS(AppendS32(Int32(number)), Int32(number))
      BY <2>1, <3>4, WrittenSignedIsExact
    <3> QED
      BY <3>2, <3>3, <3>5
  <2> QED
    BY <2>3, <2>4 DEF NumbersKept, r
<1> QED
  BY <1>1, NumberInvariance, PTL

\* The strings that are configured are those main finds (ArgumentsReadBack): the
\* launcher lays them out only if they fit, and GoArgumentsRead and
\* EmscriptenArgumentsRead say what is found in what it lays out.
THEOREM ArgumentsAreRead == Spec => []ArgumentsReadBack
<1>1. NamesStand /\ StartAdded => ArgumentsReadBack
  <2> SUFFICES ASSUME NamesStand, StartAdded, Transformed, ~HasStart(source.sections)
               PROVE  /\ kind = "gojs" =>
                           /\ ListAt(GoArgv(GoArguments), 1) = GoArguments
                           /\ Fits(GoArgv(GoArguments), 8)
                      /\ kind = "emscripten" /\ UseArgv(sections) =>
                           LET layout == EmscriptenArgv(source.args, source.environment) IN
                           /\ ListAt(layout, 1) = source.args
                           /\ ListAt(layout, Len(source.args) + 2) = source.environment
                           /\ Fits(layout, 4)
    BY DEF ArgumentsReadBack
  <2>1. PICK ss : LaunchedFrom(ss)
    BY DEF StartAdded, Transformed, At
  <2>2. /\ Formed(ss) /\ ~HasStart(ss) /\ ~LauncherError(ss)
        /\ sections = IF kind = "emscripten" THEN AddEmscriptenLauncher(ss) ELSE AddStartLauncher(ss)
        /\ functionCount \in Nat /\ CodecAssumption
    BY <2>1, CodecAssumption DEF LaunchedFrom, NamesStand
  <2>3. ASSUME kind = "gojs"
        PROVE  /\ ListAt(GoArgv(GoArguments), 1) = GoArguments
               /\ Fits(GoArgv(GoArguments), 8)
    <3>1. ~GoArgvError(GoArguments)
      BY <2>2, <2>3 DEF LauncherError, StartLauncherError
    <3>2. GoArguments \in Seq(Seq(Nat))
      BY DEF NamesStand, GoArguments
    <3> QED
      BY <3>1, <3>2, <2>2, GoArgumentsRead
  <2>4. ASSUME kind = "emscripten", UseArgv(sections)
        PROVE  LET layout == EmscriptenArgv(source.args, source.environment) IN
               /\ ListAt(layout, 1) = source.args
               /\ ListAt(layout, Len(source.args) + 2) = source.environment
               /\ Fits(layout, 4)
    <3>1. MainFits(ss)
      BY <2>2, <2>4 DEF LauncherError, EmscriptenLauncherError
    <3>2. Formed(sections) /\ Keeps(ss, sections, StartName)
      BY <2>1, <2>2, LaunchedKeeps
    <3>3. UseArgv(ss)
      BY <3>1, <3>2, <2>2, <2>4, LaunchedUses DEF Formed
    <3>4. ~EmscriptenArgvError(source.args, source.environment)
      BY <3>1, <3>3, <2>2, <2>4 DEF LauncherError, EmscriptenLauncherError
    <3>5. source.args \in Seq(Seq(Nat)) /\ source.environment \in Seq(Seq(Nat))
      BY DEF NamesStand
    <3> QED
      BY <3>4, <3>5, <2>2, EmscriptenArgumentsRead
  <2> QED
    BY <2>3, <2>4
<1> QED
  BY <1>1, NamesInvariance, StartInvariance, PTL

\* A _start that is added runs the program (StartRunsProgram), if the module is
\* valid and the functions that the launcher calls without a look at their type
\* have it: NamesStand says that indexes have not moved, StartAdded what the
\* launcher wrote, and the types that each call finds its arguments.
THEOREM StartRunsTheProgram ==
    Spec => [](Asked /\ Conventional => StartRunsProgram)
<1>1. NamesStand /\ IInv /\ CountStands /\ StartAdded /\ Asked /\ Conventional => StartRunsProgram
  <2> DEFINE d == Defined(sections, ExportOf(sections, "_start"))
             body == Items(sections, CodeId)[d]
             Own == {i \in 1..Len(body) : body[i].op = "call" /\ body[i].n \in Lists!ToSet(Program)}
             stack == {ExportOf(sections, n) : n \in
                         {m \in {StackCurrent, StackAlloc, StackRestore} : Exports(sections, m)}}
  <2> SUFFICES ASSUME NamesStand, IInv, CountStands, StartAdded, Asked, Conventional,
                      Transformed, ~HasStart(source.sections)
               PROVE  /\ TypeAt(sections, Items(sections, FunctionId)[d]) = NoArguments
                      /\ \E at \in [1..Len(Program) -> Own] :
                           /\ \A k \in 1..Len(Program) : body[at[k]].n = Program[k]
                           /\ \A j, k \in 1..Len(Program) : j < k => at[j] < at[k]
                           /\ Own = {at[k] : k \in 1..Len(Program)}
                      /\ \A i \in 1..Len(body) : body[i].op = "call" =>
                           body[i].n \in Lists!ToSet(Program) \cup stack
                      /\ Heights(body)[Len(body)] = 0
    BY DEF StartRunsProgram
  <2>1. stage = "done"
    BY DEF Transformed, At
  <2>2. PICK ss : LaunchedFrom(ss) /\ Sound(ss, functionCount)
    BY <2>1 DEF StartAdded, Asked
  <2>3. Behind(sections, "_start", NoArguments, StartBody(ss))
    BY <2>2, SoundLaunched DEF LaunchedFrom
  <2>4. body = StartBody(ss) /\ TypeAt(sections, Items(sections, FunctionId)[d]) = NoArguments
    BY <2>3 DEF Behind
  <2>5. Program = Run(ss)
    BY <2>1, <2>2, ProgramIsRun
  <2>6. PICK S : /\ Runs(StartBody(ss), Run(ss), S, 0, 0) /\ S \cap Lists!ToSet(Run(ss)) = {}
                 /\ \A x \in S : \E name \in {StackCurrent, StackAlloc, StackRestore} :
                      Exports(ss, name) /\ x = ExportOf(ss, name)
    BY <2>1, <2>2, ProgramRuns
  <2>7. S \subseteq stack
    <3>1. \A name \in {StackCurrent, StackAlloc, StackRestore} : name \in Called
      BY DEF Called
    <3>2. \A name \in Called : Exports(ss, name) =>
             Exports(sections, name) /\ ExportOf(sections, name) = ExportOf(ss, name)
      BY <2>1, <2>2, CalledTypes
    <3> QED
      BY <3>1, <3>2, <2>6
  <2> HIDE DEF body, stack, d
  <2>8. Runs(body, Program, S, 0, 0) /\ S \cap Lists!ToSet(Program) = {}
    BY <2>4, <2>5, <2>6
  <2>9. /\ \E at \in [1..Len(Program) -> Own] :
             /\ \A k \in 1..Len(Program) : body[at[k]].n = Program[k]
             /\ \A j, k \in 1..Len(Program) : j < k => at[j] < at[k]
             /\ Own = {at[k] : k \in 1..Len(Program)}
        /\ \A i \in 1..Len(body) :
             body[i].op = "call" => body[i].n \in Lists!ToSet(Program) \cup S
        /\ Heights(body)[Len(body)] = 0
    BY <2>8, RunsMeans, Zenon
  <2> HIDE DEF Own
  <2> QED
    BY <2>4, <2>7, <2>9
<1> QED
  BY <1>1, NamesInvariance, Invariance, CountInvariance, StartInvariance, PTL
=============================================================================
