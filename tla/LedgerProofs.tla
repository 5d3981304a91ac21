---------------------------- MODULE LedgerProofs ----------------------------
(***************************************************************************)
(* The arithmetic of totals, and the ledger's own promise.                  *)
(***************************************************************************)
EXTENDS Ledger, FiniteSetTheorems, TLAPS

\* The cells of one object are as many as its size.
LEMMA ColumnCardinality ==
    ASSUME NEW f, NEW n \in Nat
    PROVE  IsFiniteSet({f} \X (1..n)) /\ Cardinality({f} \X (1..n)) = n
<1>1. IsFiniteSet({f}) /\ Cardinality({f}) = 1
  BY FS_Singleton
<1>2. IsFiniteSet(1..n) /\ Cardinality(1..n) = n
  BY FS_Interval
<1>3. Cardinality({f} \X (1..n)) = 1 * n
  BY <1>1, <1>2, FS_Product
<1> QED
  BY <1>1, <1>2, <1>3, FS_Product

\* Cells are finite in number, and a total is a natural number.
LEMMA TotalIsNat ==
    ASSUME LedgerAssumption, NEW s \in Sizes
    PROVE  IsFiniteSet(Cells(s)) /\ Total(s) \in Nat
<1>1. IsFiniteSet(1..Quota)
  BY FS_Interval DEF LedgerAssumption
<1>2. IsFiniteSet(File \X (1..Quota))
  BY <1>1, FS_Product DEF LedgerAssumption
<1>3. Cells(s) \in SUBSET (File \X (1..Quota))
  BY DEF Cells
<1>4. IsFiniteSet(Cells(s))
  BY <1>2, <1>3, FS_Subset
<1> QED
  BY <1>4, FS_CardinalityType DEF Total

\* The cells of all objects but f.
Others(s, f) == {c \in Cells(s) : c[1] # f}

\* The total is what f holds and what the others hold.
LEMMA TotalSplit ==
    ASSUME LedgerAssumption, NEW s \in Sizes, NEW f \in File
    PROVE  IsFiniteSet(Others(s, f)) /\ Total(s) = Cardinality(Others(s, f)) + s[f]
<1> DEFINE Column == {f} \X (1..s[f])
<1>1. s[f] \in 0..Quota
  BY DEF Sizes
<1>2. IsFiniteSet(Column) /\ Cardinality(Column) = s[f]
  <2>1. s[f] \in Nat
    BY <1>1 DEF LedgerAssumption
  <2> QED
    BY ONLY <2>1, ColumnCardinality, Zenon
<1>3. Others(s, f) \in SUBSET Cells(s)
  BY DEF Others
<1>4. IsFiniteSet(Others(s, f))
  BY <1>3, TotalIsNat, FS_Subset
<1>5. Cells(s) = Others(s, f) \cup Column
  <2>1. ASSUME NEW c \in Cells(s) PROVE c \in Others(s, f) \cup Column
    BY <1>1, <2>1 DEF Cells, Others, LedgerAssumption
  <2>2. ASSUME NEW c \in Column PROVE c \in Cells(s)
    BY <1>1, <2>2 DEF Cells, LedgerAssumption
  <2> QED
    BY <1>3, <2>1, <2>2
<1>6. Others(s, f) \cap Column = {}
  BY DEF Others
<1>7. Cardinality(Others(s, f) \cap Column) = 0
  BY <1>6, FS_EmptySet
<1>8. Cardinality(Others(s, f)) \in Nat
  BY <1>4, FS_CardinalityType
<1>9. Cardinality(Cells(s)) = Cardinality(Others(s, f)) + Cardinality(Column)
                              - Cardinality(Others(s, f) \cap Column)
  BY <1>2, <1>4, <1>5, FS_Union
<1> QED
  BY <1>1, <1>2, <1>4, <1>7, <1>8, <1>9 DEF Total, LedgerAssumption

\* Giving one object another size changes the total by the difference.
LEMMA TotalUpdate ==
    ASSUME LedgerAssumption, NEW s \in Sizes, NEW f \in File, NEW n \in 0..Quota
    PROVE  /\ [s EXCEPT ![f] = n] \in Sizes
           /\ Total([s EXCEPT ![f] = n]) = Total(s) - s[f] + n
<1> DEFINE t == [s EXCEPT ![f] = n]
<1>1. t \in Sizes
  BY DEF Sizes
<1>2. Others(t, f) = Others(s, f)
  <2>1. ASSUME NEW c \in File \X (1..Quota), c[1] # f PROVE t[c[1]] = s[c[1]]
    BY <2>1 DEF Sizes
  <2> QED
    BY <2>1 DEF Others, Cells
<1>3. t[f] = n /\ s[f] \in 0..Quota
  BY DEF Sizes
<1>4. Cardinality(Others(s, f)) \in Nat
  BY TotalSplit, FS_CardinalityType
<1>5. Total(t) = Cardinality(Others(s, f)) + n
  BY <1>1, <1>2, <1>3, TotalSplit
<1>6. Total(s) = Cardinality(Others(s, f)) + s[f]
  BY TotalSplit
<1> QED
  BY <1>1, <1>3, <1>4, <1>5, <1>6 DEF LedgerAssumption

\* Nothing held: nothing counted.
LEMMA TotalOfNothing ==
    ASSUME LedgerAssumption
    PROVE  /\ [f \in File |-> 0] \in Sizes
           /\ Total([f \in File |-> 0]) = 0
<1>1. Cells([f \in File |-> 0]) = {}
  BY DEF Cells
<1>2. Total([f \in File |-> 0]) = 0
  BY <1>1, FS_EmptySet DEF Total
<1> QED
  BY <1>2 DEF Sizes, LedgerAssumption
=============================================================================
