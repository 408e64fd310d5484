--------------------------- MODULE Witness_proofs ---------------------------
(***************************************************************************)
(* Theorems about the witness program.  The first part is arithmetic       *)
(* modulo a prime.  The second is about the field elements, for every odd  *)
(* prime q, Montgomery radix R that q does not divide, and width of the    *)
(* machine integers: an operation on representations is the operation on   *)
(* the numbers they stand for.  The third is about the circuit, for every  *)
(* such prime and all round constants: each component runs once, on inputs *)
(* that are all written, no signal is written twice, and what the 147      *)
(* components compute together is Poseidon.  The fourth is about the       *)
(* program, for every set of documents and every hash map whose entries    *)
(* are inputs of main: loading a document hands the circuit each input     *)
(* once, so the program implements the circuit's contract, and the witness *)
(* it writes satisfies the circuit.                                        *)
(***************************************************************************)
EXTENDS FieldElement, WitnessCalc, FiniteSetTheorems, WellFoundedInduction,
        NaturalsInduction, TLAPS

\* Congruence modulo q.
Cong(a, b) == \E k \in Int : a = b + k * q

LEMMA CongRefl == ASSUME NEW a \in Int PROVE Cong(a, a)
<1>1. q \in Int /\ a = a + 0 * q
  BY OrderAssumption
<1>2. QED
  BY <1>1 DEF Cong

LEMMA CongSym == ASSUME NEW a \in Int, NEW b \in Int, Cong(a, b) PROVE Cong(b, a)
<1> q \in Int
  BY OrderAssumption
<1>1. PICK k \in Int : a = b + k * q
  BY DEF Cong
<1>2. b = a + (0 - k) * q
  BY <1>1
<1>3. QED
  BY <1>2 DEF Cong

LEMMA CongTrans ==
  ASSUME NEW a \in Int, NEW b \in Int, NEW c \in Int, Cong(a, b), Cong(b, c)
  PROVE  Cong(a, c)
<1> q \in Int
  BY OrderAssumption
<1>1. PICK k \in Int : a = b + k * q
  BY DEF Cong
<1>2. PICK l \in Int : b = c + l * q
  BY DEF Cong
<1>3. a = c + (k + l) * q /\ k + l \in Int
  BY <1>1, <1>2
<1>4. QED
  BY <1>3 DEF Cong

LEMMA CongAdd ==
  ASSUME NEW a \in Int, NEW b \in Int, NEW c \in Int, NEW d \in Int,
         Cong(a, b), Cong(c, d)
  PROVE  Cong(a + c, b + d) /\ Cong(a - c, b - d)
<1> q \in Int
  BY OrderAssumption
<1>1. PICK k \in Int : a = b + k * q
  BY DEF Cong
<1>2. PICK l \in Int : c = d + l * q
  BY DEF Cong
<1>3. /\ a + c = (b + d) + (k + l) * q /\ k + l \in Int
      /\ a - c = (b - d) + (k - l) * q /\ k - l \in Int
  BY <1>1, <1>2
<1>4. QED
  BY <1>3 DEF Cong

LEMMA CongMul ==
  ASSUME NEW a \in Int, NEW b \in Int, NEW c \in Int, NEW d \in Int,
         Cong(a, b), Cong(c, d)
  PROVE  Cong(a * c, b * d)
<1> q \in Int
  BY OrderAssumption
<1>1. PICK k \in Int : a = b + k * q
  BY DEF Cong
<1>2. PICK l \in Int : c = d + l * q
  BY DEF Cong
<1> DEFINE m == b * l + k * d + k * l * q
<1>3. m \in Int /\ a * c = b * d + m * q
  BY <1>1, <1>2
<1>4. QED
  BY <1>3 DEF Cong

\* A number is congruent to its remainder, and the only one of the field.
LEMMA ModCong ==
  ASSUME NEW n \in Int
  PROVE  n % q \in Field /\ n % q \in Int /\ Cong(n % q, n) /\ Cong(n, n % q)
<1>1. q \in Nat /\ q > 2
  BY OrderAssumption
<1>2. /\ n = q * (n \div q) + (n % q)
      /\ n \div q \in Int /\ n % q \in 0 .. q - 1
  BY <1>1
<1>3. n % q = n + (0 - (n \div q)) * q
  BY <1>1, <1>2
<1>4. Cong(n % q, n)
  BY <1>2, <1>3 DEF Cong
<1>5. QED
  BY <1>2, <1>4, CongSym DEF Field

LEMMA FieldInt == ASSUME NEW a \in Field PROVE a \in Int /\ a \in Nat /\ q \in Nat
BY OrderAssumption DEF Field

LEMMA FieldCong ==
  ASSUME NEW a \in Field, NEW b \in Field, Cong(a, b)
  PROVE  a = b
<1> q \in Int /\ q > 2 /\ a \in 0 .. q - 1 /\ b \in 0 .. q - 1
  BY OrderAssumption DEF Field
<1>1. PICK k \in Int : a = b + k * q
  BY DEF Cong
<1>2. CASE k > 0
  <2>1. k * q >= q
    BY <1>2
  <2>2. QED
    BY <2>1, <1>1
<1>3. CASE k < 0
  <2>1. k * q <= 0 - q
    BY <1>3
  <2>2. QED
    BY <2>1, <1>1
<1>4. QED
  BY <1>1, <1>2, <1>3

LEMMA ModIs ==
  ASSUME NEW a \in Field, NEW n \in Int, Cong(a, n)
  PROVE  a = n % q
BY ModCong, FieldInt, CongTrans, FieldCong

\* Congruent numbers have the same remainder.
LEMMA ModEq ==
  ASSUME NEW m \in Int, NEW n \in Int
  PROVE  Cong(m, n) <=> m % q = n % q
<1>1. ASSUME Cong(m, n) PROVE m % q = n % q
  BY <1>1, ModCong, CongTrans, ModIs
<1>2. ASSUME m % q = n % q PROVE Cong(m, n)
  BY <1>2, ModCong, CongTrans
<1>3. QED
  BY <1>1, <1>2

LEMMA ModSmall == ASSUME NEW a \in Field PROVE a % q = a
BY FieldInt, CongRefl, ModIs

-----------------------------------------------------------------------------
\* A nonempty set of natural numbers has a least one.
LEMMA Least ==
  ASSUME NEW N \in SUBSET Nat, N # {}
  PROVE  \E n \in N : \A m \in N : n <= m
<1>1. IsWellFoundedOn({p \in Nat \X Nat : p[1] < p[2]}, Nat)
  BY NatLessThanWellFounded DEF OpToRel
<1>2. PICK n \in N :
        \A m \in N : ~ (<<m, n>> \in {p \in Nat \X Nat : p[1] < p[2]})
  BY <1>1, WFMin
<1>3. \A m \in N : ~ (m < n)
  BY <1>2
<1>4. QED
  BY <1>3

\* Modulo a prime, the radix has an inverse: the least positive remainder of
\* its multiples divides q, for what remains of q is another such remainder.
LEMMA RadixInverse == RInv \in Field /\ RInv \in Int /\ Cong(RInv * R, 1)
<1> DEFINE N == {d \in 1 .. q - 1 : \E v \in Int : Cong(v * R, d)}
<1>0. q \in Nat /\ q > 2 /\ R \in Nat /\ R % q # 0
  BY OrderAssumption, WidthAssumption
<1>1. R % q \in N
  <2>1. R % q \in 1 .. q - 1
    BY <1>0
  <2>2. 1 * R = R /\ 1 \in Int
    BY <1>0
  <2>3. Cong(1 * R, R % q)
    BY <1>0, <2>2, ModCong
  <2>4. QED
    BY <2>1, <2>3
<1>2. PICK d \in N : \A m \in N : d <= m
  <2>1. N \subseteq 1 .. q - 1
    OBVIOUS
  <2> HIDE DEF N
  <2>2. N \in SUBSET Nat /\ N # {}
    BY <1>0, <1>1, <2>1
  <2>3. QED
    BY <2>2, Least
<1>3. PICK v \in Int : Cong(v * R, d)
  OBVIOUS
<1>4. d = 1
  <2>1. SUFFICES ASSUME d # 1 PROVE FALSE
    OBVIOUS
  <2> DEFINE e == q \div d
             s == q % d
  <2>2. d \in 2 .. q - 1 /\ s # 0
    BY <2>1, <1>0, OrderAssumption
  <2>3. e \in Int /\ s \in 1 .. d - 1 /\ q = d * e + s
    BY <2>2, <1>0
  <2>4. s \in 1 .. q - 1 /\ s < d
    BY <2>2, <2>3
  <2>5. PICK k \in Int : v * R = d + k * q
    BY <1>3 DEF Cong
  <2> HIDE DEF e, s
  <2>6. (0 - v * e) * R = s + (0 - (1 + k * e)) * q
    <3>1. (0 - v * e) * R = (0 - e) * (v * R)
      BY <1>0, <2>3
    <3>2. (0 - e) * (v * R) = (0 - e) * d + ((0 - e) * k) * q
      BY <1>0, <2>2, <2>3, <2>5
    <3>3. QED
      BY <1>0, <2>2, <2>3, <3>1, <3>2
  <2>7. Cong((0 - v * e) * R, s) /\ 0 - v * e \in Int
    <3>1. 0 - (1 + k * e) \in Int /\ 0 - v * e \in Int
      BY <2>3
    <3>2. QED
      BY <2>6, <3>1 DEF Cong
  <2>8. s \in N
    BY <2>4, <2>7
  <2> HIDE DEF N
  <2>9. d <= s
    BY <1>2, <2>8
  <2>10. QED
    BY <2>2, <2>4, <2>9
<1>5. \E w \in Field : (w * R) % q = 1
  <2> DEFINE w == v % q
  <2>1. w \in Field /\ w \in Int /\ Cong(w, v)
    BY ModCong
  <2> HIDE DEF w
  <2>2. Cong(w * R, v * R)
    <3>1. Cong(R, R) /\ R \in Int
      BY <1>0, CongRefl
    <3>2. QED
      BY <2>1, <3>1, CongMul
  <2>3. Cong(w * R, 1)
    BY <1>0, <1>3, <1>4, <2>1, <2>2, CongTrans
  <2>4. 1 \in Field /\ w * R \in Int
    BY <1>0, <2>1 DEF Field
  <2>5. 1 = (w * R) % q
    BY <2>3, <2>4, CongSym, ModIs
  <2>6. QED
    BY <2>1, <2>5
<1>6. RInv \in Field /\ (RInv * R) % q = 1
  BY <1>5 DEF RInv
<1>7. RInv * R \in Int /\ RInv \in Int
  BY <1>0, <1>6, FieldInt
<1>8. QED
  BY <1>6, <1>7, ModCong

LEMMA CancelRadix ==
  ASSUME NEW m \in Int, NEW n \in Int, Cong(m * R, n * R)
  PROVE  Cong(m, n)
<1>0. R \in Int /\ RInv \in Int /\ Cong(RInv * R, 1)
  BY RadixInverse, OrderAssumption, WidthAssumption
<1>1. ASSUME NEW k \in Int PROVE Cong((k * R) * RInv, k)
  <2>1. (k * R) * RInv = k * (RInv * R) /\ k * 1 = k
    BY <1>0
  <2>2. RInv * R \in Int /\ Cong(k, k)
    BY <1>0, CongRefl
  <2>3. Cong(k * (RInv * R), k * 1)
    BY <1>0, <2>2, CongMul
  <2>4. QED
    BY <2>1, <2>3
<1>2. m * R \in Int /\ n * R \in Int /\ Cong(RInv, RInv)
  BY <1>0, CongRefl
<1>3. Cong((m * R) * RInv, (n * R) * RInv)
  BY <1>0, <1>2, CongMul
<1>4. /\ (m * R) * RInv \in Int /\ (n * R) * RInv \in Int
      /\ Cong(m, (m * R) * RInv) /\ Cong((n * R) * RInv, n)
  BY <1>0, <1>1, CongSym
<1>5. QED
  BY <1>3, <1>4, CongTrans

\* Every number is the Montgomery form of some number.
LEMMA MontgomeryOf ==
  ASSUME NEW n \in Int
  PROVE  n * RInv \in Int /\ Cong(n, (n * RInv) * R)
<1>0. R \in Int /\ RInv \in Int /\ Cong(RInv * R, 1)
  BY RadixInverse, OrderAssumption, WidthAssumption
<1>1. RInv * R \in Int /\ n * (RInv * R) \in Int /\ n * 1 = n /\ Cong(n, n)
  BY <1>0, CongRefl
<1>2. Cong(n * (RInv * R), n)
  <2>1. Cong(n * (RInv * R), n * 1)
    BY <1>0, <1>1, CongMul
  <2>2. QED
    BY <1>1, <2>1
<1>3. (n * RInv) * R = n * (RInv * R)
  BY <1>0
<1>4. QED
  BY <1>0, <1>1, <1>2, <1>3, CongSym

\* A Montgomery product with one factor in Montgomery form is the product of
\* the two numbers.
LEMMA MontgomeryProduct ==
  ASSUME NEW a \in Int, NEW b \in Int, NEW v \in Int, NEW w \in Int,
         Cong(a, v * R), Cong(b, w)
  PROVE  /\ Fr_rawMMul(a, b) \in Field /\ Fr_rawMMul(a, b) \in Int
         /\ Fr_rawMMul(a, b) = Fr_rawMMul(b, a)
         /\ Cong(Fr_rawMMul(a, b), v * w)
<1>0. R \in Int /\ RInv \in Int /\ Cong(RInv * R, 1)
  BY RadixInverse, OrderAssumption, WidthAssumption
<1>1. a * b * RInv \in Int /\ a * b * RInv = b * a * RInv
  BY <1>0
<1>2. /\ Fr_rawMMul(a, b) \in Field /\ Fr_rawMMul(a, b) \in Int
      /\ Fr_rawMMul(a, b) = Fr_rawMMul(b, a)
      /\ Cong(Fr_rawMMul(a, b), a * b * RInv)
  BY <1>1, ModCong DEF Fr_rawMMul
<1>3. Cong((a * b) * RInv, ((v * R) * w) * RInv)
  <2>1. v * R \in Int /\ a * b \in Int /\ (v * R) * w \in Int
    BY <1>0
  <2>2. Cong(a * b, (v * R) * w) /\ Cong(RInv, RInv)
    BY <1>0, <2>1, CongMul, CongRefl
  <2>3. QED
    BY <1>0, <2>1, <2>2, CongMul
<1>4. Cong(((v * R) * w) * RInv, v * w)
  <2>1. v * w \in Int /\ RInv * R \in Int /\ (v * w) * 1 = v * w
    BY <1>0
  <2>2. Cong((v * w) * (RInv * R), (v * w) * 1)
    BY <1>0, <2>1, CongMul, CongRefl
  <2>3. ((v * R) * w) * RInv = (v * w) * (RInv * R)
    BY <1>0
  <2>4. QED
    BY <2>1, <2>2, <2>3
<1>5. /\ (a * b) * RInv \in Int /\ ((v * R) * w) * RInv \in Int
      /\ v * w \in Int
  BY <1>0
<1>6. Cong((a * b) * RInv, v * w)
  BY <1>3, <1>4, <1>5, CongTrans
<1>7. QED
  BY <1>2, <1>5, <1>6, CongTrans

LEMMA MontgomeryShortProduct ==
  ASSUME NEW a \in Int, NEW s \in Int, NEW v \in Int, Cong(a, v * R)
  PROVE  /\ MMulShort(a, s) \in Field /\ MMulShort(a, s) \in Int
         /\ Cong(MMulShort(a, s), v * s)
<1>1. CASE s < 0
  <2> DEFINE p == Fr_rawMMul(a, 0 - s)
  <2>1. 0 - s \in Int /\ Cong(0 - s, 0 - s)
    BY CongRefl
  <2>2. p \in Int /\ Cong(p, v * (0 - s))
    BY <2>1, MontgomeryProduct
  <2>3. MMulShort(a, s) = (0 - p) % q
    BY <1>1 DEF MMulShort
  <2> HIDE DEF p
  <2>4. /\ v * (0 - s) \in Int /\ v * s \in Int /\ 0 - p \in Int
        /\ 0 - v * (0 - s) = v * s /\ Cong(0, 0)
    BY <2>2, CongRefl
  <2>5. Cong(0 - p, v * s)
    BY <2>2, <2>4, CongAdd
  <2>6. /\ (0 - p) % q \in Field /\ (0 - p) % q \in Int
        /\ Cong((0 - p) % q, 0 - p)
    BY <2>4, ModCong
  <2>7. QED
    BY <2>3, <2>4, <2>5, <2>6, CongTrans
<1>2. CASE ~ (s < 0)
  BY <1>2, CongRefl, MontgomeryProduct DEF MMulShort
<1>3. QED
  BY <1>1, <1>2

\* The constants of the conversions.
LEMMA RadixPowers ==
  /\ R2 \in Field /\ R2 \in Int /\ Cong(R2, R * R)
  /\ R3 \in Field /\ R3 \in Int /\ Cong(R3, (R * R) * R)
  /\ R \in Int /\ R * R \in Int
<1>1. R \in Int /\ R * R \in Int /\ R * R * R \in Int
      /\ R * R * R = (R * R) * R
  BY OrderAssumption, WidthAssumption
<1>2. QED
  BY <1>1, ModCong DEF R2, R3

-----------------------------------------------------------------------------
(***************************************************************************)
(* Elements and the numbers they stand for.                                *)
(***************************************************************************)
\* An element as the operations leave it: FrTypeOK, of one element.
WellFormed(e) ==
  /\ e \in Element
  /\ e.type = "SHORTMONTGOMERY" => e.longVal = (e.shortVal * R) % q

\* The element e represents the number v.
Represents(e, v) ==
  CASE e.type = "LONG" -> Cong(e.longVal, v)
    [] e.type = "LONGMONTGOMERY" -> Cong(e.longVal, v * R)
    [] OTHER -> Cong(e.shortVal, v)

LEMMA ElementParts ==
  ASSUME NEW e, WellFormed(e)
  PROVE  /\ e.type \in Types /\ e.shortVal \in Shorts /\ e.longVal \in Field
         /\ e.shortVal \in Int /\ e.longVal \in Int /\ q \in Nat
         /\ e = [type |-> e.type, shortVal |-> e.shortVal,
                 longVal |-> e.longVal]
<1>1. ShortMax \in Int /\ q \in Nat
  BY OrderAssumption, WidthAssumption
<1>2. e \in Element
  BY DEF WellFormed
<1>3. /\ e.type \in Types /\ e.shortVal \in Shorts /\ e.longVal \in Field
      /\ e = [type |-> e.type, shortVal |-> e.shortVal,
              longVal |-> e.longVal]
  BY <1>2 DEF Element
<1>4. QED
  BY <1>1, <1>3 DEF Shorts, ShortMin, Field

\* The number an element represents is its value, and no other of the field.
LEMMA ValueRepresented ==
  ASSUME NEW e, WellFormed(e)
  PROVE  /\ Value(e) \in Field /\ Value(e) \in Int
         /\ Represents(e, Value(e))
         /\ \A v \in Int : Represents(e, v) => Value(e) = v % q
<1>0. R \in Int /\ RInv \in Int
  BY RadixInverse, OrderAssumption, WidthAssumption
<1>1. /\ e.type \in Types /\ e.longVal \in Field /\ e.longVal \in Int
      /\ e.shortVal \in Int
  BY ElementParts
<1>2. CASE e.type = "LONG"
  <2>1. Value(e) = e.longVal
    BY <1>2 DEF Value
  <2>2. \A v : Represents(e, v) <=> Cong(e.longVal, v)
    BY <1>2 DEF Represents
  <2>3. QED
    BY <1>1, <2>1, <2>2, CongRefl, ModIs
<1>3. CASE e.type = "LONGMONTGOMERY"
  <2>1. Value(e) = (e.longVal * RInv) % q /\ e.longVal * RInv \in Int
    BY <1>0, <1>1, <1>3 DEF Value
  <2>2. \A v : Represents(e, v) <=> Cong(e.longVal, v * R)
    BY <1>3 DEF Represents
  <2>3. /\ Value(e) \in Field /\ Value(e) \in Int
        /\ Cong(e.longVal * RInv, Value(e))
    BY <2>1, ModCong
  <2>4. Cong(e.longVal, Value(e) * R)
    <3>1. /\ Cong(e.longVal, (e.longVal * RInv) * R)
          /\ (e.longVal * RInv) * R \in Int /\ Value(e) * R \in Int
      BY <1>0, <1>1, <2>1, <2>3, MontgomeryOf
    <3>2. Cong((e.longVal * RInv) * R, Value(e) * R)
      BY <1>0, <2>1, <2>3, CongRefl, CongMul
    <3>3. QED
      BY <1>1, <3>1, <3>2, CongTrans
  <2>5. ASSUME NEW v \in Int, Cong(e.longVal, v * R) PROVE Value(e) = v % q
    <3>1. v * R \in Int /\ Value(e) * R \in Int
      BY <1>0, <2>3
    <3>2. Cong(Value(e) * R, v * R)
      BY <1>1, <2>4, <2>5, <3>1, CongSym, CongTrans
    <3>3. QED
      BY <2>3, <3>2, CancelRadix, ModIs
  <2>6. QED
    BY <2>2, <2>3, <2>4, <2>5
<1>4. CASE e.type \notin {"LONG", "LONGMONTGOMERY"}
  <2>1. Value(e) = e.shortVal % q
    BY <1>4 DEF Value
  <2>2. \A v : Represents(e, v) <=> Cong(e.shortVal, v)
    BY <1>4 DEF Represents
  <2>3. QED
    BY <1>1, <2>1, <2>2, ModCong, ModEq
<1>5. QED
  BY <1>2, <1>3, <1>4

\* The long number of an element in Montgomery form, and the machine integer
\* of a short one.
LEMMA MontgomeryPart ==
  ASSUME NEW e, WellFormed(e), IsMont(e)
  PROVE  Cong(e.longVal, Value(e) * R)
<1>0. R \in Int
  BY OrderAssumption, WidthAssumption
<1>1. /\ Value(e) \in Int /\ Represents(e, Value(e))
      /\ e.longVal \in Int /\ e.shortVal \in Int
  BY ValueRepresented, ElementParts
<1>2. CASE e.type = "LONGMONTGOMERY"
  BY <1>1, <1>2 DEF Represents
<1>3. CASE e.type = "SHORTMONTGOMERY"
  <2>1. Cong(e.shortVal, Value(e))
    BY <1>1, <1>3 DEF Represents
  <2>2. /\ Cong(e.longVal, e.shortVal * R)
        /\ e.shortVal * R \in Int /\ Value(e) * R \in Int
    BY <1>0, <1>1, <1>3, ModCong DEF WellFormed
  <2>3. Cong(e.shortVal * R, Value(e) * R)
    BY <1>0, <1>1, <2>1, CongRefl, CongMul
  <2>4. QED
    BY <1>1, <2>2, <2>3, CongTrans
<1>4. QED
  BY <1>2, <1>3 DEF IsMont

LEMMA ShortPart ==
  ASSUME NEW e, WellFormed(e), ~ IsLong(e)
  PROVE  Cong(e.shortVal, Value(e)) /\ Value(e) = e.shortVal % q
<1>1. e.type \in Types
  BY ElementParts
<1>2. Represents(e, Value(e))
  BY ValueRepresented
<1>3. QED
  BY <1>1, <1>2 DEF Represents, IsLong, Types, Value

\* Elements made by writing over others.
LEMMA ShortMade ==
  ASSUME NEW junk \in Element, NEW n \in Shorts
  PROVE  /\ WellFormed(ShortOver(junk, n))
         /\ Value(ShortOver(junk, n)) = n % q
         /\ ShortOver(junk, n) \in Element
BY DEF ShortOver, Element, Types, WellFormed, Value

LEMMA LongMade ==
  ASSUME NEW junk \in Element, NEW n \in Field
  PROVE  /\ WellFormed(LongOver(junk, n))
         /\ Value(LongOver(junk, n)) = n
         /\ LongOver(junk, n).type = "LONG" /\ LongOver(junk, n).longVal = n
BY DEF LongOver, Element, Types, WellFormed, Value

LEMMA MontgomeryMade ==
  ASSUME NEW junk \in Element, NEW n \in Field, NEW v \in Int, Cong(n, v * R)
  PROVE  /\ WellFormed(MontOver(junk, n))
         /\ Value(MontOver(junk, n)) = v % q
         /\ MontOver(junk, n).type = "LONGMONTGOMERY"
         /\ MontOver(junk, n).longVal = n
<1> DEFINE e == MontOver(junk, n)
<1>1. e \in Element /\ e.type = "LONGMONTGOMERY" /\ e.longVal = n
  BY DEF MontOver, Element, Types
<1>2. WellFormed(e)
  BY <1>1 DEF WellFormed
<1> HIDE DEF e
<1>3. Represents(e, v)
  BY <1>1 DEF Represents
<1>4. Value(e) = v % q
  BY <1>2, <1>3, ValueRepresented
<1>5. QED
  BY <1>1, <1>2, <1>4 DEF e

LEMMA CopyMade ==
  ASSUME NEW n \in Int, 0 - q < n, n < q
  PROVE  /\ WellFormed(rawCopyS2L(n))
         /\ Value(rawCopyS2L(n)) = n % q
         /\ rawCopyS2L(n).type = "LONG" /\ rawCopyS2L(n).longVal = n % q
<1>0. q \in Nat /\ ShortMax \in Nat
  BY OrderAssumption, WidthAssumption
<1> DEFINE l == IF n < 0 THEN n + q ELSE n
<1>1. l \in Field
  BY <1>0 DEF Field
<1>2. Cong(l, n)
  <2>1. l = n + 1 * q \/ l = n + 0 * q
    BY <1>0
  <2>2. QED
    BY <2>1 DEF Cong
<1>3. l = n % q
  BY <1>1, <1>2, ModIs
<1> HIDE DEF l
<1>4. rawCopyS2L(n) = [type |-> "LONG", shortVal |-> 0, longVal |-> l]
  BY DEF rawCopyS2L, l
<1>5. 0 \in Shorts
  BY <1>0 DEF Shorts, ShortMin
<1>6. QED
  BY <1>1, <1>3, <1>4, <1>5 DEF WellFormed, Element, Types, Value

\* The machine integers, their negations, sums and products fit the field, and
\* each of them is the signed number of its remainder.
LEMMA ShortBounds ==
  ASSUME NEW m \in Shorts, NEW n \in Shorts
  PROVE  /\ m \in Int /\ m + n \in Int /\ m - n \in Int /\ m * n \in Int
         /\ 0 - q < m /\ m < q /\ 0 - q < 0 - m /\ 0 - m < q
         /\ 0 - q < 2 * m /\ 2 * m < q
         /\ 0 - q < m + n /\ m + n < q /\ 0 - q < m - n /\ m - n < q
         /\ 0 - q < m * n /\ m * n < q
<1> DEFINE s == ShortMax + 1
<1>0. /\ q \in Int /\ s \in Int /\ s > 0 /\ s * s < q /\ 2 * s < q
      /\ m \in Int /\ n \in Int
      /\ 0 - s <= m /\ m < s /\ 0 - s <= n /\ n < s
  BY OrderAssumption, WidthAssumption DEF Shorts, ShortMin
<1> HIDE DEF s
<1>1. 0 - s * s <= m * n /\ m * n <= s * s
  <2>1. ASSUME NEW a \in Int, NEW b \in Int, 0 <= a, a <= s, 0 <= b, b <= s
        PROVE  0 <= a * b /\ a * b <= s * s
    <3>1. 0 <= a * b /\ a * b <= a * s /\ a * s <= s * s
      BY <1>0, <2>1
    <3>2. QED
      BY <1>0, <2>1, <3>1
  <2>2. CASE m >= 0 /\ n >= 0
    BY <1>0, <2>1, <2>2
  <2>3. CASE m >= 0 /\ n < 0
    <3>1. 0 <= m * (0 - n) /\ m * (0 - n) <= s * s
      BY <1>0, <2>1, <2>3
    <3>2. QED
      BY <1>0, <3>1
  <2>4. CASE m < 0 /\ n >= 0
    <3>1. 0 <= (0 - m) * n /\ (0 - m) * n <= s * s
      BY <1>0, <2>1, <2>4
    <3>2. QED
      BY <1>0, <3>1
  <2>5. CASE m < 0 /\ n < 0
    <3>1. 0 <= (0 - m) * (0 - n) /\ (0 - m) * (0 - n) <= s * s
      BY <1>0, <2>1, <2>5
    <3>2. QED
      BY <1>0, <3>1
  <2>6. QED
    BY <1>0, <2>2, <2>3, <2>4, <2>5
<1>2. 0 - q < m * n /\ m * n < q /\ m * n \in Int
  BY <1>0, <1>1
<1>3. QED
  BY <1>0, <1>2

LEMMA ShortMod ==
  ASSUME NEW n \in Shorts
  PROVE  n % q = IF n < 0 THEN n + q ELSE n
<1>1. /\ n \in Int /\ 0 - q < n /\ n < q
  BY ShortBounds
<1>2. rawCopyS2L(n).longVal = n % q
  BY <1>1, CopyMade
<1>3. QED
  BY <1>2 DEF rawCopyS2L

-----------------------------------------------------------------------------
(***************************************************************************)
(* Conversions keep the number.                                            *)
(***************************************************************************)
LEMMA ToMontgomeryKeeps ==
  ASSUME NEW junk \in Element, NEW e, WellFormed(e)
  PROVE  /\ WellFormed(Fr_toMontgomery(junk, e))
         /\ IsMont(Fr_toMontgomery(junk, e))
         /\ Value(Fr_toMontgomery(junk, e)) = Value(e)
<1>0. /\ e.type \in Types /\ e.shortVal \in Shorts /\ e.shortVal \in Int
      /\ e.longVal \in Int /\ R \in Int
      /\ R2 \in Int /\ Cong(R2, R * R)
  BY ElementParts, RadixPowers
<1>1. CASE IsMont(e)
  <2>1. Fr_toMontgomery(junk, e) = e
    BY <1>1 DEF Fr_toMontgomery, IsMont
  <2>2. QED
    BY <1>1, <2>1
<1>2. CASE e.type = "LONG"
  <2> DEFINE n == Fr_rawMMul(e.longVal, R2)
             m == MontOver(junk, n)
  <2>1. Cong(e.longVal, Value(e)) /\ Value(e) \in Int /\ Value(e) \in Field
    BY <1>2, ValueRepresented DEF Represents
  <2>2. /\ n = Fr_rawMMul(R2, e.longVal)
        /\ n \in Field /\ Cong(n, R * Value(e))
    BY <1>0, <2>1, MontgomeryProduct
  <2>3. R * Value(e) = Value(e) * R
    BY <1>0, <2>1
  <2>4. WellFormed(m) /\ Value(m) = Value(e) /\ m.type = "LONGMONTGOMERY"
    BY <2>1, <2>2, <2>3, MontgomeryMade, ModSmall
  <2> HIDE DEF m
  <2>5. Fr_toMontgomery(junk, e) = [m EXCEPT !.shortVal = e.shortVal]
    BY <1>2 DEF Fr_toMontgomery, IsMont, m
  <2>6. /\ Fr_toMontgomery(junk, e) \in Element
        /\ Fr_toMontgomery(junk, e).type = "LONGMONTGOMERY"
        /\ Fr_toMontgomery(junk, e).longVal = m.longVal
    BY <1>0, <2>4, <2>5 DEF WellFormed, Element
  <2>7. QED
    BY <2>4, <2>6 DEF WellFormed, Value, IsMont
<1>3. CASE e.type = "SHORT"
  <2> DEFINE n == MMulShort(R2, e.shortVal)
  <2>1. n \in Field /\ Cong(n, R * e.shortVal)
    BY <1>0, MontgomeryShortProduct
  <2> HIDE DEF n
  <2>2. n = (e.shortVal * R) % q
    <3>1. R * e.shortVal = e.shortVal * R /\ e.shortVal * R \in Int
      BY <1>0
    <3>2. QED
      BY <2>1, <3>1, ModIs
  <2>3. Fr_toMontgomery(junk, e) =
          [type |-> "SHORTMONTGOMERY", shortVal |-> e.shortVal, longVal |-> n]
    BY <1>3 DEF Fr_toMontgomery, IsMont, n
  <2>4. QED
    BY <1>0, <1>3, <2>1, <2>2, <2>3
       DEF WellFormed, Element, Types, Value, IsMont
<1>4. QED
  BY <1>0, <1>1, <1>2, <1>3 DEF Types, IsMont

LEMMA ToNormalKeeps ==
  ASSUME NEW junk \in Element, NEW e, WellFormed(e)
  PROVE  /\ WellFormed(Fr_toNormal(junk, e))
         /\ Value(Fr_toNormal(junk, e)) = Value(e)
         /\ IsLong(e) => Fr_toNormal(junk, e).type = "LONG"
         /\ IsLong(e) => Fr_toNormal(junk, e).longVal = Value(e)
         /\ ~ IsLong(e) => Fr_toNormal(junk, e) = e
<1>0. /\ Value(e) \in Int /\ Value(e) \in Field
      /\ e.longVal \in Int /\ 1 \in Int /\ Cong(1, 1)
  BY ElementParts, ValueRepresented, CongRefl
<1>1. CASE e.type = "LONGMONTGOMERY"
  <2> DEFINE n == Fr_rawMMul(e.longVal, 1)
  <2>1. Cong(e.longVal, Value(e) * R)
    BY <1>1, MontgomeryPart DEF IsMont
  <2>2. n \in Field /\ Cong(n, Value(e) * 1)
    BY <1>0, <2>1, MontgomeryProduct
  <2>3. Value(e) * 1 = Value(e)
    BY <1>0
  <2>4. n = Value(e)
    BY <1>0, <2>2, <2>3, FieldCong
  <2>5. Fr_toNormal(junk, e) = LongOver(junk, Value(e))
    BY <1>1, <2>4 DEF Fr_toNormal
  <2>6. QED
    BY <1>0, <1>1, <2>5, LongMade DEF IsLong
<1>2. CASE e.type # "LONGMONTGOMERY"
  BY <1>2 DEF Fr_toNormal, IsLong, Value
<1>3. QED
  BY <1>1, <1>2

LEMMA ToLongNormalKeeps ==
  ASSUME NEW junk \in Element, NEW e, WellFormed(e)
  PROVE  /\ WellFormed(Fr_toLongNormal(junk, e))
         /\ Value(Fr_toLongNormal(junk, e)) = Value(e)
         /\ Fr_toLongNormal(junk, e).longVal = Value(e)
<1>1. CASE e.type = "LONG"
  BY <1>1 DEF Fr_toLongNormal, Value
<1>2. CASE e.type = "LONGMONTGOMERY"
  <2>1. Fr_toLongNormal(junk, e) = Fr_toNormal(junk, e)
    BY <1>2 DEF Fr_toLongNormal, Fr_toNormal
  <2>2. QED
    BY <1>2, <2>1, ToNormalKeeps DEF IsLong
<1>3. CASE ~ IsLong(e)
  <2>1. Fr_toLongNormal(junk, e) = rawCopyS2L(e.shortVal)
    BY <1>3 DEF Fr_toLongNormal, IsLong
  <2>2. e.shortVal \in Int /\ 0 - q < e.shortVal /\ e.shortVal < q
    BY ElementParts, ShortBounds
  <2>3. QED
    BY <1>3, <2>1, <2>2, CopyMade, ShortPart
<1>4. QED
  BY <1>1, <1>2, <1>3 DEF IsLong

-----------------------------------------------------------------------------
(***************************************************************************)
(* Arithmetic on elements is arithmetic modulo q on their values.          *)
(***************************************************************************)
\* A machine integer when it fits, a long number otherwise.
LEMMA FittedMade ==
  ASSUME NEW junk \in Element, NEW n \in Int, NEW v \in Int,
         0 - q < n, n < q, Cong(n, v),
         NEW r,
         r = IF n \in Shorts THEN ShortOver(junk, n) ELSE rawCopyS2L(n)
  PROVE  WellFormed(r) /\ Value(r) = v % q
<1>1. n % q = v % q
  BY ModEq
<1>2. CASE n \in Shorts
  BY <1>1, <1>2, ShortMade
<1>3. CASE n \notin Shorts
  BY <1>1, <1>3, CopyMade
<1>4. QED
  BY <1>2, <1>3

\* A sum of numbers in Montgomery form is the sum in Montgomery form.
LEMMA MontgomerySum ==
  ASSUME NEW l \in Int, NEW m \in Int, NEW v \in Int, NEW w \in Int,
         Cong(l, v * R), Cong(m, w * R)
  PROVE  Cong(l + m, (v + w) * R) /\ Cong(l - m, (v - w) * R)
<1>1. /\ v * R \in Int /\ w * R \in Int
      /\ v * R + w * R = (v + w) * R /\ v * R - w * R = (v - w) * R
  BY OrderAssumption, WidthAssumption
<1>2. Cong(l + m, v * R + w * R) /\ Cong(l - m, v * R - w * R)
  BY <1>1, CongAdd
<1>3. QED
  BY <1>1, <1>2

\* What the three paths of Linear compute.
LEMMA LinearPaths ==
  ASSUME NEW junk \in Element, NEW a, NEW b, WellFormed(a), WellFormed(b)
  PROVE  LET va == Value(a)
             vb == Value(b)
             ma == Fr_toMontgomery(a, a).longVal
             mb == Fr_toMontgomery(b, b).longVal
         IN  /\ va \in Int /\ vb \in Int
             /\ ~ IsLong(a) /\ ~ IsLong(b) =>
                  \A n \in {a.shortVal + b.shortVal, a.shortVal - b.shortVal} :
                    n \in Int /\ 0 - q < n /\ n < q
             /\ ~ IsLong(a) /\ ~ IsLong(b) =>
                  /\ Cong(a.shortVal + b.shortVal, va + vb)
                  /\ Cong(a.shortVal - b.shortVal, va - vb)
             /\ ma \in Int /\ mb \in Int
             /\ Cong(ma + mb, (va + vb) * R)
             /\ Cong(ma - mb, (va - vb) * R)
             /\ Fr_toLongNormal(a, a).longVal = va
             /\ Fr_toLongNormal(b, b).longVal = vb
<1>1. /\ a \in Element /\ b \in Element
      /\ a.shortVal \in Shorts /\ b.shortVal \in Shorts
      /\ a.shortVal \in Int /\ b.shortVal \in Int
      /\ Value(a) \in Int /\ Value(b) \in Int
  BY ElementParts, ValueRepresented DEF WellFormed
<1>2. ASSUME ~ IsLong(a), ~ IsLong(b)
      PROVE  /\ Cong(a.shortVal + b.shortVal, Value(a) + Value(b))
             /\ Cong(a.shortVal - b.shortVal, Value(a) - Value(b))
  BY <1>1, <1>2, ShortPart, CongAdd
<1>3. /\ 0 - q < a.shortVal + b.shortVal /\ a.shortVal + b.shortVal < q
      /\ 0 - q < a.shortVal - b.shortVal /\ a.shortVal - b.shortVal < q
      /\ a.shortVal + b.shortVal \in Int /\ a.shortVal - b.shortVal \in Int
  BY <1>1, ShortBounds
<1> DEFINE ta == Fr_toMontgomery(a, a)
           tb == Fr_toMontgomery(b, b)
<1>4. /\ WellFormed(ta) /\ IsMont(ta) /\ Value(ta) = Value(a)
      /\ WellFormed(tb) /\ IsMont(tb) /\ Value(tb) = Value(b)
  BY <1>1, ToMontgomeryKeeps
<1> HIDE DEF ta, tb
<1>5. /\ ta.longVal \in Int /\ Cong(ta.longVal, Value(a) * R)
      /\ tb.longVal \in Int /\ Cong(tb.longVal, Value(b) * R)
  BY <1>4, ElementParts, MontgomeryPart
<1>6. /\ Cong(ta.longVal + tb.longVal, (Value(a) + Value(b)) * R)
      /\ Cong(ta.longVal - tb.longVal, (Value(a) - Value(b)) * R)
  BY <1>1, <1>5, MontgomerySum
<1>7. /\ Fr_toLongNormal(a, a).longVal = Value(a)
      /\ Fr_toLongNormal(b, b).longVal = Value(b)
  BY <1>1, ToLongNormalKeeps
<1>8. QED
  BY <1>1, <1>2, <1>3, <1>5, <1>6, <1>7 DEF ta, tb

LEMMA MontgomeryModMade ==
  ASSUME NEW junk \in Element, NEW v \in Int, NEW l \in Int, Cong(l, v * R)
  PROVE  /\ WellFormed(MontOver(junk, l % q))
         /\ Value(MontOver(junk, l % q)) = v % q
<1>1. v * R \in Int
  BY OrderAssumption, WidthAssumption
<1>2. l % q \in Field /\ Cong(l % q, v * R)
  BY <1>1, ModCong, CongTrans
<1>3. QED
  BY <1>2, MontgomeryMade

LEMMA AddCorrect ==
  ASSUME NEW junk \in Element, NEW a, NEW b, WellFormed(a), WellFormed(b)
  PROVE  /\ WellFormed(Fr_add(junk, a, b))
         /\ Value(Fr_add(junk, a, b)) = (Value(a) + Value(b)) % q
<1> DEFINE n == a.shortVal + b.shortVal
           l == Fr_toMontgomery(a, a).longVal + Fr_toMontgomery(b, b).longVal
           v == Value(a) + Value(b)
           r == Fr_add(junk, a, b)
<1>1. v \in Int /\ l \in Int /\ Cong(l, v * R)
  BY LinearPaths
<1>2. ASSUME ~ IsLong(a), ~ IsLong(b)
      PROVE  n \in Int /\ 0 - q < n /\ n < q /\ Cong(n, v)
  BY <1>2, LinearPaths
<1>3. Fr_toLongNormal(a, a).longVal + Fr_toLongNormal(b, b).longVal = v
  BY LinearPaths
<1>4. \/ /\ ~ IsLong(a) /\ ~ IsLong(b)
         /\ r = IF n \in Shorts THEN ShortOver(junk, n) ELSE rawCopyS2L(n)
      \/ r = MontOver(junk, l % q)
      \/ r = LongOver(junk, (Fr_toLongNormal(a, a).longVal
                               + Fr_toLongNormal(b, b).longVal) % q)
  BY DEF Fr_add, Linear, IsLong
<1> HIDE DEF n, l, v, r
<1>5. CASE /\ ~ IsLong(a) /\ ~ IsLong(b)
           /\ r = IF n \in Shorts THEN ShortOver(junk, n) ELSE rawCopyS2L(n)
  BY <1>1, <1>2, <1>5, FittedMade DEF r, v
<1>6. CASE r = MontOver(junk, l % q)
  BY <1>1, <1>6, MontgomeryModMade DEF r, v
<1>7. CASE r = LongOver(junk, v % q)
  BY <1>1, <1>7, ModCong, LongMade DEF r, v
<1>8. QED
  BY <1>3, <1>4, <1>5, <1>6, <1>7

LEMMA SubCorrect ==
  ASSUME NEW junk \in Element, NEW a, NEW b, WellFormed(a), WellFormed(b)
  PROVE  /\ WellFormed(Fr_sub(junk, a, b))
         /\ Value(Fr_sub(junk, a, b)) = (Value(a) - Value(b)) % q
<1> DEFINE n == a.shortVal - b.shortVal
           l == Fr_toMontgomery(a, a).longVal - Fr_toMontgomery(b, b).longVal
           v == Value(a) - Value(b)
           r == Fr_sub(junk, a, b)
<1>1. v \in Int /\ l \in Int /\ Cong(l, v * R)
  BY LinearPaths
<1>2. ASSUME ~ IsLong(a), ~ IsLong(b)
      PROVE  n \in Int /\ 0 - q < n /\ n < q /\ Cong(n, v)
  BY <1>2, LinearPaths
<1>3. Fr_toLongNormal(a, a).longVal - Fr_toLongNormal(b, b).longVal = v
  BY LinearPaths
<1>4. \/ /\ ~ IsLong(a) /\ ~ IsLong(b)
         /\ r = IF n \in Shorts THEN ShortOver(junk, n) ELSE rawCopyS2L(n)
      \/ r = MontOver(junk, l % q)
      \/ r = LongOver(junk, (Fr_toLongNormal(a, a).longVal
                               - Fr_toLongNormal(b, b).longVal) % q)
  BY DEF Fr_sub, Linear, IsLong
<1> HIDE DEF n, l, v, r
<1>5. CASE /\ ~ IsLong(a) /\ ~ IsLong(b)
           /\ r = IF n \in Shorts THEN ShortOver(junk, n) ELSE rawCopyS2L(n)
  BY <1>1, <1>2, <1>5, FittedMade DEF r, v
<1>6. CASE r = MontOver(junk, l % q)
  BY <1>1, <1>6, MontgomeryModMade DEF r, v
<1>7. CASE r = LongOver(junk, v % q)
  BY <1>1, <1>7, ModCong, LongMade DEF r, v
<1>8. QED
  BY <1>3, <1>4, <1>5, <1>6, <1>7

LEMMA NegCorrect ==
  ASSUME NEW junk \in Element, NEW a, WellFormed(a)
  PROVE  /\ WellFormed(Fr_neg(junk, a))
         /\ Value(Fr_neg(junk, a)) = (0 - Value(a)) % q
<1>1. /\ a.type \in Types /\ a.shortVal \in Shorts /\ a.shortVal \in Int
      /\ a.longVal \in Int /\ 0 - a.longVal \in Int /\ R \in Int
      /\ Value(a) \in Int /\ 0 - Value(a) \in Int /\ Cong(0, 0)
      /\ Represents(a, Value(a))
  BY ElementParts, ValueRepresented, CongRefl, OrderAssumption, WidthAssumption
<1>2. CASE IsLong(a)
  <2> DEFINE l == (0 - a.longVal) % q
             r == Fr_neg(junk, a)
  <2>1. l \in Field /\ l \in Int /\ Cong(l, 0 - a.longVal)
    BY <1>1, ModCong
  <2>2. r = [junk EXCEPT !.type = a.type, !.shortVal = a.shortVal,
                         !.longVal = l]
    BY <1>2 DEF Fr_neg
  <2> HIDE DEF l, r
  <2>3. r \in Element /\ r.type = a.type /\ r.longVal = l
    BY <1>1, <2>1, <2>2 DEF Element
  <2>4. WellFormed(r)
    BY <1>2, <2>3 DEF WellFormed, IsLong
  <2>5. CASE a.type = "LONG"
    <3>1. Cong(a.longVal, Value(a))
      BY <1>1, <2>5 DEF Represents
    <3>2. Cong(0 - a.longVal, 0 - Value(a))
      BY <1>1, <3>1, CongAdd
    <3>3. Cong(l, 0 - Value(a))
      BY <1>1, <2>1, <3>2, CongTrans
    <3>4. Represents(r, 0 - Value(a))
      BY <2>3, <2>5, <3>3 DEF Represents
    <3>5. QED
      BY <1>1, <2>4, <3>4, ValueRepresented DEF r
  <2>6. CASE a.type = "LONGMONTGOMERY"
    <3>1. Cong(a.longVal, Value(a) * R)
      BY <1>1, <2>6 DEF Represents
    <3>2. /\ Value(a) * R \in Int /\ 0 - Value(a) * R \in Int
          /\ 0 - Value(a) * R = (0 - Value(a)) * R
      BY <1>1
    <3>3. Cong(0 - a.longVal, 0 - Value(a) * R)
      BY <1>1, <3>1, <3>2, CongAdd
    <3>4. Cong(l, 0 - Value(a) * R)
      BY <1>1, <2>1, <3>2, <3>3, CongTrans
    <3>5. Represents(r, 0 - Value(a))
      BY <2>3, <2>6, <3>2, <3>4 DEF Represents
    <3>6. QED
      BY <1>1, <2>4, <3>5, ValueRepresented DEF r
  <2>7. QED
    BY <1>2, <2>5, <2>6 DEF IsLong
<1>3. CASE ~ IsLong(a)
  <2> DEFINE n == 0 - a.shortVal
  <2>1. Cong(n, 0 - Value(a))
    BY <1>1, <1>3, ShortPart, CongAdd
  <2>2. n \in Int /\ 0 - q < n /\ n < q
    BY <1>1, ShortBounds
  <2>3. Fr_neg(junk, a) =
          IF n \in Shorts THEN ShortOver(junk, n) ELSE rawCopyS2L(n)
    BY <1>3 DEF Fr_neg
  <2> HIDE DEF n
  <2>4. QED
    BY <1>1, <2>1, <2>2, <2>3, FittedMade
<1>4. QED
  BY <1>2, <1>3

\* A product of two numbers, one of them divided by R, is made whole again by
\* a product with R cubed.
LEMMA ScaledProduct ==
  ASSUME NEW n \in Int, NEW l \in Int, NEW m \in Int, NEW v \in Int,
         Cong(n, (l * RInv) * m), Cong(l * m, v)
  PROVE  /\ Fr_rawMMul(n, R3) \in Field
         /\ Cong(Fr_rawMMul(n, R3), v * R)
<1>0. R \in Int /\ RInv \in Int /\ Cong(RInv * R, 1) /\ RInv * R \in Int
  BY RadixInverse, OrderAssumption, WidthAssumption
<1>1. /\ R3 \in Int /\ Cong(R3, (R * R) * R) /\ R * R \in Int
      /\ Cong(n, n)
  BY RadixPowers, CongRefl
<1>2. /\ Fr_rawMMul(n, R3) \in Field /\ Fr_rawMMul(n, R3) \in Int
      /\ Cong(Fr_rawMMul(n, R3), (R * R) * n)
  BY <1>1, MontgomeryProduct
<1>3. Cong((R * R) * n, v * R)
  <2>1. /\ (l * RInv) * m \in Int /\ l * m \in Int /\ v * R \in Int
        /\ (R * R) * n \in Int /\ (R * R) * ((l * RInv) * m) \in Int
        /\ (l * m) * R \in Int
    BY <1>0, <1>1
  <2>2. Cong((R * R) * n, (R * R) * ((l * RInv) * m))
    BY <1>1, <2>1, CongRefl, CongMul
  <2>3. (R * R) * ((l * RInv) * m) = (RInv * R) * ((l * m) * R)
    BY <1>0
  <2>4. Cong((RInv * R) * ((l * m) * R), 1 * ((l * m) * R))
    BY <1>0, <2>1, CongRefl, CongMul
  <2>5. 1 * ((l * m) * R) = (l * m) * R
    BY <2>1
  <2>6. Cong((l * m) * R, v * R)
    BY <1>0, <2>1, CongRefl, CongMul
  <2>7. QED
    BY <2>1, <2>2, <2>3, <2>4, <2>5, <2>6, CongTrans
<1>4. (R * R) * n \in Int /\ v * R \in Int
  BY <1>0, <1>1
<1>5. QED
  BY <1>2, <1>3, <1>4, CongTrans

\* A long number times an element that is not in Montgomery form.
LEMMA ProductBy ==
  ASSUME NEW l \in Int, NEW v \in Int, Cong(l, v * R),
         NEW e, WellFormed(e), ~ IsMont(e)
  PROVE  /\ MMulBy(l, e) \in Field /\ MMulBy(l, e) \in Int
         /\ Cong(MMulBy(l, e), v * Value(e))
<1>1. /\ e.shortVal \in Int /\ e.longVal \in Int /\ e.type \in Types
      /\ Value(e) \in Int /\ v * Value(e) \in Int
  BY ElementParts, ValueRepresented
<1>2. CASE IsLong(e)
  <2>1. Cong(e.longVal, Value(e))
    BY <1>1, <1>2, ValueRepresented DEF IsLong, IsMont, Represents
  <2>2. MMulBy(l, e) = Fr_rawMMul(l, e.longVal)
    BY <1>2 DEF MMulBy
  <2>3. QED
    BY <1>1, <2>1, <2>2, MontgomeryProduct
<1>3. CASE ~ IsLong(e)
  <2>1. MMulBy(l, e) = MMulShort(l, e.shortVal)
    BY <1>3 DEF MMulBy
  <2>2. /\ MMulBy(l, e) \in Field /\ MMulBy(l, e) \in Int
        /\ Cong(MMulBy(l, e), v * e.shortVal)
    BY <1>1, <2>1, MontgomeryShortProduct
  <2>3. Cong(v * e.shortVal, v * Value(e)) /\ v * e.shortVal \in Int
    <3> DEFINE s == e.shortVal
               w == Value(e)
    <3>1. s \in Int /\ w \in Int /\ Cong(s, w) /\ Cong(v, v)
      BY <1>1, <1>3, ShortPart, CongRefl
    <3> HIDE DEF s, w
    <3>2. v * s \in Int /\ Cong(v * s, v * w)
      BY <3>1, CongMul
    <3>3. QED
      BY <3>2 DEF s, w
  <2>4. QED
    BY <1>1, <2>2, <2>3, CongTrans
<1>4. QED
  BY <1>2, <1>3

\* The product of a number in Montgomery form and one that is not.
LEMMA MixedMade ==
  ASSUME NEW junk \in Element, NEW a, NEW b, WellFormed(a), WellFormed(b),
         IsMont(a), ~ IsMont(b)
  PROVE  /\ WellFormed(LongOver(junk, MMulBy(a.longVal, b)))
         /\ Value(LongOver(junk, MMulBy(a.longVal, b)))
              = (Value(a) * Value(b)) % q
<1> DEFINE n == MMulBy(a.longVal, b)
<1>1. /\ a.longVal \in Int /\ Value(a) \in Int /\ Value(b) \in Int
      /\ Value(a) * Value(b) \in Int /\ Cong(a.longVal, Value(a) * R)
  BY ElementParts, ValueRepresented, MontgomeryPart
<1>2. n \in Field /\ n \in Int /\ Cong(n, Value(a) * Value(b))
  BY <1>1, ProductBy
<1>3. n = (Value(a) * Value(b)) % q
  BY <1>1, <1>2, ModIs
<1> HIDE DEF n
<1>4. WellFormed(LongOver(junk, n)) /\ Value(LongOver(junk, n)) = n
  BY <1>2, LongMade
<1>5. QED
  BY <1>3, <1>4 DEF n

\* The product of two numbers that are not, the first of them long.
LEMMA ScaledMade ==
  ASSUME NEW junk \in Element, NEW a, NEW b, WellFormed(a), WellFormed(b),
         a.type = "LONG", ~ IsMont(b)
  PROVE  LET r == MontOver(junk, Fr_rawMMul(MMulBy(a.longVal, b), R3))
         IN  WellFormed(r) /\ Value(r) = (Value(a) * Value(b)) % q
<1> DEFINE n == MMulBy(a.longVal, b)
           l == a.longVal
           v == Value(a)
           w == Value(b)
<1>1. l \in Int /\ v \in Int /\ w \in Int /\ l = v
  BY ElementParts, ValueRepresented DEF Value
<1> HIDE DEF l, v, w
<1>2. v * w \in Int /\ l * RInv \in Int /\ Cong(l, (l * RInv) * R)
  BY <1>1, MontgomeryOf
<1>3. n \in Int /\ Cong(n, (l * RInv) * w)
  BY <1>2, <1>1, ProductBy DEF l, w
<1>4. Cong(l * w, v * w)
  BY <1>1, <1>2, CongRefl
<1> HIDE DEF n
<1>5. /\ Fr_rawMMul(n, R3) \in Field
      /\ Cong(Fr_rawMMul(n, R3), (v * w) * R)
  BY <1>1, <1>2, <1>3, <1>4, ScaledProduct
<1>6. /\ WellFormed(MontOver(junk, Fr_rawMMul(n, R3)))
      /\ Value(MontOver(junk, Fr_rawMMul(n, R3))) = (v * w) % q
  BY <1>2, <1>5, MontgomeryMade
<1>7. QED
  BY <1>6 DEF n, l, v, w

\* The product of two numbers in Montgomery form.
LEMMA MontgomeryProductMade ==
  ASSUME NEW junk \in Element, NEW a, NEW b, WellFormed(a), WellFormed(b),
         IsMont(a), IsMont(b)
  PROVE  LET r == MontOver(junk, Fr_rawMMul(a.longVal, b.longVal))
         IN  WellFormed(r) /\ Value(r) = (Value(a) * Value(b)) % q
<1> DEFINE v == Value(a)
           w == Value(b)
           n == Fr_rawMMul(a.longVal, b.longVal)
<1>1. /\ a.longVal \in Int /\ b.longVal \in Int /\ v \in Int /\ w \in Int
      /\ Cong(a.longVal, v * R) /\ Cong(b.longVal, w * R)
  BY ElementParts, ValueRepresented, MontgomeryPart
<1> HIDE DEF v, w
<1>2. w * R \in Int /\ v * w \in Int /\ v * (w * R) = (v * w) * R
  BY <1>1, OrderAssumption, WidthAssumption
<1>3. n \in Field /\ Cong(n, v * (w * R))
  BY <1>1, <1>2, MontgomeryProduct
<1> HIDE DEF n
<1>4. WellFormed(MontOver(junk, n)) /\ Value(MontOver(junk, n)) = (v * w) % q
  BY <1>2, <1>3, MontgomeryMade
<1>5. QED
  BY <1>4 DEF v, w, n

\* The product of two machine integers.
LEMMA ShortProductMade ==
  ASSUME NEW a, NEW b, WellFormed(a), WellFormed(b),
         ~ IsLong(a), ~ IsLong(b)
  PROVE  /\ WellFormed(rawCopyS2L(a.shortVal * b.shortVal))
         /\ Value(rawCopyS2L(a.shortVal * b.shortVal))
              = (Value(a) * Value(b)) % q
<1>1. /\ a.shortVal \in Shorts /\ b.shortVal \in Shorts
      /\ a.shortVal \in Int /\ b.shortVal \in Int
      /\ Value(a) \in Int /\ Value(b) \in Int /\ Value(a) * Value(b) \in Int
  BY ElementParts, ValueRepresented
<1> DEFINE n == a.shortVal * b.shortVal
<1>2. Cong(n, Value(a) * Value(b))
  BY <1>1, ShortPart, CongMul
<1>3. n \in Int /\ 0 - q < n /\ n < q
  BY <1>1, ShortBounds
<1> HIDE DEF n
<1>4. n % q = (Value(a) * Value(b)) % q
  BY <1>1, <1>2, <1>3, ModEq
<1>5. QED
  BY <1>3, <1>4, CopyMade DEF n

LEMMA MulCorrect ==
  ASSUME NEW junk \in Element, NEW a, NEW b, WellFormed(a), WellFormed(b)
  PROVE  /\ WellFormed(Fr_mul(junk, a, b))
         /\ Value(Fr_mul(junk, a, b)) = (Value(a) * Value(b)) % q
<1>1. a.type \in Types /\ b.type \in Types
  BY ElementParts
<1>2. CASE ~ IsLong(a) /\ ~ IsLong(b)
  BY <1>2, ShortProductMade DEF Fr_mul
<1>3. CASE (IsLong(a) \/ IsLong(b)) /\ IsMont(a) /\ IsMont(b)
  BY <1>3, MontgomeryProductMade DEF Fr_mul
<1>4. CASE (IsLong(a) \/ IsLong(b)) /\ IsMont(a) /\ ~ IsMont(b)
  BY <1>4, MixedMade DEF Fr_mul
<1>5. CASE (IsLong(a) \/ IsLong(b)) /\ IsMont(b) /\ ~ IsMont(a)
  <2>1. Fr_mul(junk, a, b) = LongOver(junk, MMulBy(b.longVal, a))
    BY <1>5 DEF Fr_mul
  <2>2. Value(b) * Value(a) = Value(a) * Value(b)
    BY ValueRepresented
  <2>3. QED
    BY <1>5, <2>1, <2>2, MixedMade
<1>6. CASE (IsLong(a) \/ IsLong(b)) /\ ~ IsMont(b) /\ ~ IsMont(a)
  <2>1. CASE IsLong(b)
    <3>1. Fr_mul(junk, a, b)
            = MontOver(junk, Fr_rawMMul(MMulBy(b.longVal, a), R3))
      BY <1>6, <2>1 DEF Fr_mul
    <3>2. Value(b) * Value(a) = Value(a) * Value(b)
      BY ValueRepresented
    <3>3. b.type = "LONG"
      BY <1>6, <2>1 DEF IsLong, IsMont
    <3>4. QED
      BY <1>6, <3>1, <3>2, <3>3, ScaledMade
  <2>2. CASE ~ IsLong(b)
    <3>1. Fr_mul(junk, a, b)
            = MontOver(junk, Fr_rawMMul(MMulBy(a.longVal, b), R3))
      BY <1>6, <2>2 DEF Fr_mul
    <3>2. a.type = "LONG"
      BY <1>6, <2>2 DEF IsLong, IsMont
    <3>3. QED
      BY <1>6, <3>1, <3>2, ScaledMade
  <2>3. QED
    BY <2>1, <2>2
<1>7. QED
  BY <1>2, <1>3, <1>4, <1>5, <1>6

\* A square is the product with itself: its paths are paths of the product.
LEMMA SquareCorrect ==
  ASSUME NEW junk \in Element, NEW a, WellFormed(a)
  PROVE  /\ WellFormed(Fr_square(junk, a))
         /\ Value(Fr_square(junk, a)) = (Value(a) * Value(a)) % q
<1>1. CASE ~ IsLong(a)
  <2>1. Fr_square(junk, a) = rawCopyS2L(a.shortVal * a.shortVal)
    BY <1>1 DEF Fr_square, IsLong
  <2>2. QED
    BY <1>1, <2>1, ShortProductMade
<1>2. CASE a.type = "LONG"
  <2>1. Fr_square(junk, a)
          = MontOver(junk, Fr_rawMMul(MMulBy(a.longVal, a), R3))
    BY <1>2 DEF Fr_square, IsLong, MMulBy
  <2>2. ~ IsMont(a)
    BY <1>2 DEF IsMont
  <2>3. QED
    BY <1>2, <2>1, <2>2, ScaledMade
<1>3. CASE a.type = "LONGMONTGOMERY"
  <2>1. Fr_square(junk, a) = MontOver(junk, Fr_rawMMul(a.longVal, a.longVal))
    BY <1>3 DEF Fr_square, IsLong
  <2>2. QED
    BY <1>3, <2>1, MontgomeryProductMade DEF IsMont
<1>4. QED
  BY <1>1, <1>2, <1>3 DEF IsLong

-----------------------------------------------------------------------------
(***************************************************************************)
(* Readers, comparisons, and the operations that go through mpz.           *)
(***************************************************************************)
\* The number printed, given to gmp, and tested for zero.
LEMMA ReadersCorrect ==
  ASSUME NEW e, WellFormed(e)
  PROVE  /\ Fr_element2str(e) = Value(e)
         /\ Fr_toMpz(e) = Value(e)
         /\ Fr_toLongNormal(e, e).longVal = Value(e)
         /\ Fr_isTrue(e) = (Value(e) # 0)
<1>0. /\ e \in Element /\ e.type \in Types /\ e.shortVal \in Shorts
      /\ e.shortVal \in Int /\ e.longVal \in Field /\ e.longVal \in Int
      /\ Value(e) \in Int /\ Value(e) \in Field /\ q \in Nat /\ q > 2
      /\ R \in Int
  BY ElementParts, ValueRepresented, OrderAssumption, WidthAssumption DEF WellFormed
<1>1. Fr_toLongNormal(e, e).longVal = Value(e)
  BY <1>0, ToLongNormalKeeps
<1>2. CASE IsLong(e)
  <2>1. /\ Fr_toNormal(e, e).longVal = Value(e)
        /\ Fr_toNormal(e, e).type = "LONG"
    BY <1>0, <1>2, ToNormalKeeps
  <2>2. Fr_element2str(e) = Value(e) /\ Fr_toMpz(e) = Value(e)
    BY <1>2, <2>1 DEF Fr_element2str, Fr_toMpz, IsLong
  <2>3. Value(e) = 0 <=> e.longVal = 0
    <3>1. CASE e.type = "LONG"
      BY <3>1 DEF Value
    <3>2. CASE e.type = "LONGMONTGOMERY"
      <4>1. Cong(e.longVal, Value(e) * R)
        BY <3>2, MontgomeryPart DEF IsMont
      <4>2. 0 \in Field /\ 0 \in Int /\ 0 * R = 0 /\ Cong(0, 0)
        BY <1>0, CongRefl DEF Field
      <4>3. ASSUME Value(e) = 0 PROVE e.longVal = 0
        BY <1>0, <4>1, <4>2, <4>3, FieldCong
      <4>4. ASSUME e.longVal = 0 PROVE Value(e) = 0
        <5>1. Represents(e, 0)
          BY <3>2, <4>2, <4>4 DEF Represents
        <5>2. QED
          BY <4>2, <5>1, ValueRepresented, ModSmall
      <4>5. QED
        BY <4>3, <4>4
    <3>3. QED
      BY <1>2, <3>1, <3>2 DEF IsLong
  <2>4. QED
    BY <1>1, <1>2, <2>2, <2>3 DEF Fr_isTrue
<1>3. CASE ~ IsLong(e)
  <2>1. Value(e) = IF e.shortVal < 0 THEN e.shortVal + q ELSE e.shortVal
    BY <1>0, <1>3, ShortPart, ShortMod
  <2>2. Fr_toNormal(e, e) = e
    BY <1>0, <1>3, ToNormalKeeps
  <2>3. Fr_element2str(e) = Value(e) /\ Fr_toMpz(e) = Value(e)
    BY <1>0, <1>3, <2>1, <2>2 DEF Fr_element2str, Fr_toMpz
  <2>4. 0 - q < e.shortVal
    BY <1>0, ShortBounds
  <2>5. Value(e) = 0 <=> e.shortVal = 0
    BY <1>0, <2>1, <2>4
  <2>6. QED
    BY <1>1, <1>3, <2>3, <2>5 DEF Fr_isTrue
<1>4. QED
  BY <1>2, <1>3

\* Machine integers are told apart by their remainders.
LEMMA ShortUnique ==
  ASSUME NEW m \in Shorts, NEW n \in Shorts, m % q = n % q
  PROVE  m = n
<1>1. /\ m \in Int /\ n \in Int /\ q \in Nat
      /\ 0 - q < 2 * m /\ 2 * m < q /\ 0 - q < 2 * n /\ 2 * n < q
  BY ShortBounds, OrderAssumption
<1>2. /\ m % q = IF m < 0 THEN m + q ELSE m
      /\ n % q = IF n < 0 THEN n + q ELSE n
  BY ShortMod
<1>3. QED
  BY <1>1, <1>2

\* An index is the machine integer with the remainder, if there is one.
LEMMA IndexCorrect ==
  ASSUME NEW e, WellFormed(e)
  PROVE  Fr_toInt(e) = IF \E n \in Shorts : n % q = Value(e)
                       THEN CHOOSE n \in Shorts : n % q = Value(e) ELSE Fail
<1>0. /\ e \in Element /\ e.shortVal \in Shorts /\ q \in Nat
      /\ Value(e) \in 0 .. q - 1
  BY ElementParts, ValueRepresented DEF WellFormed, Field
<1>1. ASSUME NEW s \in Shorts, s % q = Value(e)
      PROVE  s = CHOOSE n \in Shorts : n % q = Value(e)
  BY <1>1, ShortUnique
<1>2. CASE ~ IsLong(e)
  <2>1. e.shortVal % q = Value(e) /\ Fr_toInt(e) = e.shortVal
    BY <1>2, ShortPart DEF Fr_toInt
  <2>2. QED
    BY <1>0, <1>1, <2>1
<1>3. CASE IsLong(e)
  <2> DEFINE v == Value(e)
  <2>1. Fr_toNormal(e, e).longVal = v
    BY <1>0, <1>3, ToNormalKeeps
  <2>2. Fr_toInt(e) = CASE v <= ShortMax -> v
                        [] v - q >= ShortMin -> v - q
                        [] OTHER -> Fail
    BY <1>3, <2>1 DEF Fr_toInt
  <2> HIDE DEF v
  <2>3. /\ ShortMax \in Int /\ ShortMin \in Int /\ ShortMin = 0 - ShortMax - 1
        /\ ShortMax \in Nat /\ 0 - 2 * ShortMin < q /\ v \in 0 .. q - 1
    BY <1>0, OrderAssumption, WidthAssumption DEF ShortMin, v
  <2>4. CASE v <= ShortMax
    <3>1. v \in Shorts /\ v % q = v /\ ~ (v - q >= ShortMin)
      BY <1>0, <2>3, <2>4, ModSmall DEF Shorts, Field
    <3>2. Fr_toInt(e) = v
      BY <2>2, <2>4, <3>1
    <3>3. QED
      BY <1>1, <3>1, <3>2 DEF v
  <2>5. CASE v - q >= ShortMin
    <3>1. v - q \in Shorts /\ v - q < 0 /\ ~ (v <= ShortMax)
      BY <1>0, <2>3, <2>5 DEF Shorts
    <3>2. (v - q) % q = v
      <4>1. (v - q) % q = (v - q) + q
        BY <3>1, ShortMod
      <4>2. QED
        BY <1>0, <2>3, <4>1
    <3>3. Fr_toInt(e) = v - q
      BY <2>2, <2>5, <3>1
    <3>4. QED
      BY <1>1, <3>1, <3>2, <3>3 DEF v
  <2>6. CASE ~ (v <= ShortMax) /\ ~ (v - q >= ShortMin)
    <3>1. ASSUME NEW n \in Shorts, n % q = v PROVE FALSE
      <4>1. n \in Int /\ v = IF n < 0 THEN n + q ELSE n
        BY <3>1, ShortMod, ShortBounds
      <4>2. ShortMin <= n /\ n <= ShortMax
        BY <2>3 DEF Shorts
      <4>3. QED
        BY <1>0, <2>3, <2>6, <4>1, <4>2
    <3>2. Fr_toInt(e) = Fail
      BY <2>2, <2>6
    <3>3. QED
      BY <3>1, <3>2 DEF v
  <2>7. QED
    BY <2>4, <2>5, <2>6
<1>4. QED
  BY <1>2, <1>3

-----------------------------------------------------------------------------
LEMMA EqualCorrect ==
  ASSUME NEW a, NEW b, WellFormed(a), WellFormed(b)
  PROVE  Fr_req(a, b) = (Value(a) = Value(b))
<1>0. /\ a \in Element /\ b \in Element /\ R \in Int
      /\ a.shortVal \in Shorts /\ b.shortVal \in Shorts
      /\ Value(a) \in Field /\ Value(b) \in Field
      /\ Value(a) \in Int /\ Value(b) \in Int
  BY ElementParts, ValueRepresented, OrderAssumption, WidthAssumption DEF WellFormed
<1>1. CASE ~ IsLong(a) /\ ~ IsLong(b)
  <2>1. Fr_req(a, b) = (a.shortVal = b.shortVal)
    BY <1>1 DEF Fr_req, IsLong
  <2>2. Value(a) = a.shortVal % q /\ Value(b) = b.shortVal % q
    BY <1>1, ShortPart
  <2>3. QED
    BY <1>0, <2>1, <2>2, ShortUnique
<1>2. CASE a.type = "LONGMONTGOMERY" \/ b.type = "LONGMONTGOMERY"
  <2> DEFINE m == Fr_toMontgomery(a, a)
             n == Fr_toMontgomery(b, b)
  <2>1. Fr_req(a, b) = (m.longVal = n.longVal)
    BY <1>2 DEF Fr_req, IsLong
  <2>2. /\ WellFormed(m) /\ IsMont(m) /\ Value(m) = Value(a)
        /\ WellFormed(n) /\ IsMont(n) /\ Value(n) = Value(b)
    BY <1>0, ToMontgomeryKeeps
  <2> HIDE DEF m, n
  <2>3. /\ m.longVal \in Field /\ m.longVal \in Int
        /\ n.longVal \in Field /\ n.longVal \in Int
        /\ Value(a) * R \in Int /\ Value(b) * R \in Int
        /\ Cong(m.longVal, Value(a) * R) /\ Cong(n.longVal, Value(b) * R)
    BY <1>0, <2>2, ElementParts, MontgomeryPart
  <2>4. ASSUME Value(a) = Value(b) PROVE m.longVal = n.longVal
    BY <2>3, <2>4, CongSym, CongTrans, FieldCong
  <2>5. ASSUME m.longVal = n.longVal PROVE Value(a) = Value(b)
    <3>1. Cong(Value(a) * R, Value(b) * R)
      BY <2>3, <2>5, CongSym, CongTrans
    <3>2. QED
      BY <1>0, <3>1, CancelRadix, FieldCong
  <2>6. QED
    BY <2>1, <2>4, <2>5
<1>3. CASE /\ IsLong(a) \/ IsLong(b)
           /\ a.type # "LONGMONTGOMERY" /\ b.type # "LONGMONTGOMERY"
  <2>1. Fr_req(a, b) = (Fr_toLongNormal(a, a).longVal
                          = Fr_toLongNormal(b, b).longVal)
    BY <1>3 DEF Fr_req
  <2>2. QED
    BY <1>0, <2>1, ToLongNormalKeeps
<1>4. QED
  BY <1>1, <1>2, <1>3

Signed(v) == IF v > Half THEN v - q ELSE v

LEMMA LessCorrect ==
  ASSUME NEW a, NEW b, WellFormed(a), WellFormed(b)
  PROVE  Fr_rlt(a, b) = (Signed(Value(a)) < Signed(Value(b)))
<1>0. /\ a \in Element /\ b \in Element /\ q \in Nat /\ q > 2
      /\ a.shortVal \in Shorts /\ b.shortVal \in Shorts
      /\ Value(a) \in 0 .. q - 1 /\ Value(b) \in 0 .. q - 1
  BY ElementParts, ValueRepresented, OrderAssumption DEF WellFormed, Field
<1>1. Half \in Int /\ 2 * Half <= q - 1 /\ q - 2 <= 2 * Half
  BY <1>0 DEF Half
<1>2. CASE ~ IsLong(a) /\ ~ IsLong(b)
  <2>1. ASSUME NEW n \in Shorts PROVE Signed(n % q) = n
    <3>1. n % q = IF n < 0 THEN n + q ELSE n
      BY ShortMod
    <3>2. n \in Int /\ 0 - q < 2 * n /\ 2 * n < q
      BY ShortBounds
    <3>3. QED
      BY <1>0, <1>1, <3>1, <3>2 DEF Signed
  <2>2. Value(a) = a.shortVal % q /\ Value(b) = b.shortVal % q
    BY <1>2, ShortPart
  <2>3. Fr_rlt(a, b) = (a.shortVal < b.shortVal)
    BY <1>2 DEF Fr_rlt
  <2>4. QED
    BY <1>0, <2>1, <2>2, <2>3
<1>3. CASE IsLong(a) \/ IsLong(b)
  <2>1. Fr_rlt(a, b) = Less(Value(a), Value(b))
    BY <1>0, <1>3, ToLongNormalKeeps DEF Fr_rlt
  <2>2. ASSUME NEW m \in 0 .. q - 1, NEW n \in 0 .. q - 1
        PROVE  Less(m, n) = (Signed(m) < Signed(n))
    <3>0. m \in Int /\ n \in Int /\ Half \in Int /\ q \in Int
      BY <1>0, <1>1
    <3>1. CASE m > Half /\ n <= Half
      <4>1. Less(m, n) = TRUE
        BY <3>0, <3>1 DEF Less
      <4>2. m - q < n
        BY <1>0
      <4>3. Signed(m) = m - q /\ Signed(n) = n
        BY <3>0, <3>1 DEF Signed
      <4>4. QED
        BY <4>1, <4>2, <4>3
    <3>2. CASE m <= Half /\ n > Half
      <4>1. Less(m, n) = FALSE
        BY <3>0, <3>2 DEF Less
      <4>2. ~ (m < n - q)
        BY <1>0
      <4>3. Signed(m) = m /\ Signed(n) = n - q
        BY <3>0, <3>2 DEF Signed
      <4>4. (Signed(m) < Signed(n)) = FALSE
        BY <4>2, <4>3
      <4>5. QED
        BY <4>1, <4>4
    <3>3. CASE m > Half <=> n > Half
      <4>0. ~ (m > Half /\ n <= Half) /\ ~ (m <= Half /\ n > Half)
        BY <3>0, <3>3
      <4>1. Less(m, n) = (m < n)
        BY <4>0, Zenon DEF Less
      <4>2. (m < n) <=> (m - q < n - q)
        BY <3>0
      <4>3. \/ Signed(m) = m - q /\ Signed(n) = n - q
            \/ Signed(m) = m /\ Signed(n) = n
        BY <3>3 DEF Signed
      <4>4. QED
        BY <4>1, <4>2, <4>3
    <3>4. QED
      BY <3>0, <3>1, <3>2, <3>3
  <2>3. QED
    BY <1>0, <2>1, <2>2
<1>4. QED
  BY <1>2, <1>3

\* What comes back from mpz.
LEMMA FromMpzMade ==
  ASSUME NEW junk \in Element, NEW v \in Field
  PROVE  WellFormed(Fr_fromMpz(junk, v)) /\ Value(Fr_fromMpz(junk, v)) = v
BY ShortMade, LongMade, ModSmall DEF Fr_fromMpz

LEMMA DivisionInField ==
  ASSUME NEW m \in Field, NEW n \in Field, n # 0
  PROVE  m \div n \in Field /\ m % n \in Field
<1>1. m \in 0 .. q - 1 /\ n \in 1 .. q - 1 /\ q \in Nat
  BY OrderAssumption DEF Field
<1>2. m % n \in 0 .. n - 1 /\ m = n * (m \div n) + (m % n) /\ m \div n \in Int
  BY <1>1
<1>3. m \div n >= 0
  <2>1. SUFFICES ASSUME m \div n <= 0 - 1 PROVE FALSE
    BY <1>2
  <2>2. n * (m \div n) <= 0 - n
    BY <1>1, <1>2, <2>1
  <2>3. QED
    BY <1>1, <1>2, <2>2
<1>4. m \div n <= m
  <2>1. n * (m \div n) >= m \div n
    BY <1>1, <1>2, <1>3
  <2>2. QED
    BY <1>1, <1>2, <2>1
<1>5. QED
  BY <1>1, <1>2, <1>3, <1>4 DEF Field

\* A power is a number of the field: the recursive function it is an element
\* of exists, and all its values are in the field.
Powers(a, b, f) == f = [n \in 0 .. b |-> IF n = 0 THEN 1 ELSE (a * f[n - 1]) % q]

LEMMA PowersExist ==
  ASSUME NEW a, NEW b \in Nat
  PROVE  \E f : Powers(a, b, f)
<1> DEFINE T == {n \in Nat : ~ \E f : Powers(a, n, f)}
<1>1. SUFFICES ASSUME T # {} PROVE FALSE
  OBVIOUS
<1>2. PICK c \in T : \A m \in T : c <= m
  BY <1>1, Least
<1>3. c # 0
  <2>1. Powers(a, 0, [n \in 0 .. 0 |-> 1])
    BY DEF Powers
  <2>2. QED
    BY <2>1
<1>4. c - 1 \in Nat /\ c - 1 \notin T
  <2> HIDE DEF T
  <2>1. c \in Nat
    BY DEF T
  <2>2. QED
    BY <1>2, <1>3, <2>1
<1>5. PICK f : Powers(a, c - 1, f)
  BY <1>4
<1> DEFINE h == [n \in 0 .. c |-> IF n = 0 THEN 1 ELSE (a * f[n - 1]) % q]
<1>6. ASSUME NEW n \in 0 .. c - 1 PROVE h[n] = f[n]
  <2>1. n \in 0 .. c
    BY <1>4
  <2>2. h[n] = IF n = 0 THEN 1 ELSE (a * f[n - 1]) % q
    BY <2>1
  <2>3. f[n] = IF n = 0 THEN 1 ELSE (a * f[n - 1]) % q
    BY <1>5 DEF Powers
  <2>4. QED
    BY <2>2, <2>3
<1>7. h = [n \in 0 .. c |-> IF n = 0 THEN 1 ELSE (a * h[n - 1]) % q]
  <2>1. ASSUME NEW n \in 0 .. c
        PROVE  h[n] = IF n = 0 THEN 1 ELSE (a * h[n - 1]) % q
    <3>1. CASE n = 0
      BY <3>1
    <3>2. CASE n # 0
      <4>1. n - 1 \in 0 .. c - 1
        BY <3>2, <1>4
      <4>2. h[n - 1] = f[n - 1]
        BY <1>6, <4>1
      <4>3. QED
        BY <3>2, <4>2
    <3>3. QED
      BY <3>1, <3>2
  <2>2. QED
    BY <2>1
<1> HIDE DEF h
<1>8. Powers(a, c, h)
  BY <1>7 DEF Powers
<1>9. QED
  BY <1>8

LEMMA PowersInField ==
  ASSUME NEW a \in Field, NEW b \in Nat, NEW f, Powers(a, b, f)
  PROVE  f[b] \in Field
<1> DEFINE T == {n \in 0 .. b : f[n] \notin Field}
<1>1. SUFFICES ASSUME T # {} PROVE FALSE
  OBVIOUS
<1>2. PICK c \in T : \A m \in T : c <= m
  <2>1. T \in SUBSET Nat
    OBVIOUS
  <2> HIDE DEF T
  <2>2. QED
    BY <1>1, <2>1, Least
<1>3. c \in 0 .. b /\ f[c] \notin Field
  OBVIOUS
<1>4. f[c] = IF c = 0 THEN 1 ELSE (a * f[c - 1]) % q
  BY <1>3 DEF Powers
<1>5. c # 0
  BY <1>3, <1>4, OrderAssumption DEF Field
<1>6. c - 1 \in 0 .. b /\ ~ (c <= c - 1)
  BY <1>3, <1>5
<1>7. f[c - 1] \in Field
  BY <1>2, <1>6
<1>8. a * f[c - 1] \in Int
  BY <1>7, FieldInt
<1>9. QED
  BY <1>3, <1>4, <1>5, <1>8, ModCong

LEMMA PowerInField ==
  ASSUME NEW a \in Field, NEW b \in Field
  PROVE  PowerMod(a, b) \in Field
<1>1. b \in Nat
  BY FieldInt
<1> DEFINE f == CHOOSE f : Powers(a, b, f)
<1>2. PowerMod(a, b) = f[b]
  BY DEF PowerMod, Powers
<1>3. Powers(a, b, f)
  BY <1>1, PowersExist
<1> HIDE DEF f
<1>4. QED
  BY <1>1, <1>2, <1>3, PowersInField

-----------------------------------------------------------------------------
(***************************************************************************)
(* An operation on elements is the operation of PrimeField on their        *)
(* values, whatever it is written over.                                    *)
(***************************************************************************)
LEMMA SameDefinitions ==
  /\ Numbers!Field = Field /\ Numbers!Ops = Ops /\ Numbers!NoInstr = NoInstr
  /\ \A a, b : Numbers!PowerMod(a, b) = PowerMod(a, b)
  /\ \A b \in BOOLEAN : Numbers!Bit(b) = Bit(b)
  /\ \A v : Numbers!Signed(v) = Signed(v)
  /\ \A a : Numbers!Inverses(a) = {v \in Field : (a * v) % q = 1}
<1>1. /\ Numbers!Field = Field /\ Numbers!Ops = Ops
      /\ Numbers!NoInstr = NoInstr
  BY DEF Numbers!Field, Field, Numbers!Ops, Ops, Numbers!NoInstr, NoInstr
<1>2. \A a, b : Numbers!PowerMod(a, b) = PowerMod(a, b)
  BY DEF Numbers!PowerMod, PowerMod
<1>3. \A b \in BOOLEAN : Numbers!Bit(b) = Bit(b)
  BY DEF Numbers!Bit, Bit
<1>4. \A v : Numbers!Signed(v) = Signed(v)
  BY DEF Numbers!Signed, Signed, Half
<1>5. \A a : Numbers!Inverses(a) = {v \in Field : (a * v) % q = 1}
  BY <1>1 DEF Numbers!Inverses
<1>6. QED
  BY <1>1, <1>2, <1>3, <1>4, <1>5

LEMMA JunkElement == Junk \subseteq Element
BY OrderAssumption, WidthAssumption DEF Junk, Element, Types, Field

LEMMA BitMade ==
  ASSUME NEW junk \in Element, NEW b \in BOOLEAN
  PROVE  /\ WellFormed(ShortOver(junk, Bit(b)))
         /\ Value(ShortOver(junk, Bit(b))) = Bit(b)
<1>1. 0 \in Field /\ 1 \in Field /\ 0 \in Shorts /\ 1 \in Shorts
  BY OrderAssumption, WidthAssumption DEF Field, Shorts, ShortMin
<1>2. Bit(b) \in Shorts /\ Bit(b) \in Field
  BY <1>1 DEF Bit
<1>3. QED
  BY <1>2, ShortMade, ModSmall

\* What holds of an outcome e of the operation op on a and b, and of the
\* numbers r it may give.
Matches(results, numbers) ==
  /\ \A e \in results : WellFormed(e) /\ Value(e) \in numbers
  /\ results = {} <=> numbers = {}

LEMMA OneMatches ==
  ASSUME NEW e, NEW v, WellFormed(e), Value(e) = v
  PROVE  Matches({e}, {v})
BY DEF Matches

LEMMA OutcomesCorrect ==
  ASSUME NEW junk \in Junk, NEW op \in Ops,
         NEW a, NEW b, WellFormed(a), WellFormed(b)
  PROVE  Matches(Outcomes(op, junk, a, b),
                 Numbers!Results(op, Value(a), Value(b)))
<1> DEFINE v == Value(a)
           w == Value(b)
           results == Outcomes(op, junk, a, b)
           numbers == Numbers!Results(op, v, w)
<1>0. /\ junk \in Element /\ v \in Field /\ w \in Field
      /\ Fr_toMpz(a) = v /\ Fr_toMpz(b) = w
  BY JunkElement, ValueRepresented, ReadersCorrect
<1>1. CASE op = "add"
  <2>1. results = {Fr_add(junk, a, b)} /\ numbers = {(v + w) % q}
    BY <1>1 DEF Outcomes, Numbers!Results
  <2>2. QED
    BY <1>0, <2>1, AddCorrect, OneMatches
<1>2. CASE op = "sub"
  <2>1. results = {Fr_sub(junk, a, b)} /\ numbers = {(v - w) % q}
    BY <1>2 DEF Outcomes, Numbers!Results
  <2>2. QED
    BY <1>0, <2>1, SubCorrect, OneMatches
<1>3. CASE op = "mul"
  <2>1. results = {Fr_mul(junk, a, b)} /\ numbers = {(v * w) % q}
    BY <1>3 DEF Outcomes, Numbers!Results
  <2>2. QED
    BY <1>0, <2>1, MulCorrect, OneMatches
<1>4. CASE op = "neg"
  <2>1. results = {Fr_neg(junk, a)} /\ numbers = {(0 - v) % q}
    BY <1>4 DEF Outcomes, Numbers!Results
  <2>2. QED
    BY <1>0, <2>1, NegCorrect, OneMatches
<1>5. CASE op = "square"
  <2>1. results = {Fr_square(junk, a)} /\ numbers = {(v * v) % q}
    BY <1>5 DEF Outcomes, Numbers!Results
  <2>2. QED
    BY <1>0, <2>1, SquareCorrect, OneMatches
<1>6. CASE op = "eq"
  <2> DEFINE p == (v = w)
  <2>1. /\ results = {ShortOver(junk, Bit(Fr_req(a, b)))}
        /\ numbers = {Numbers!Bit(p)}
    BY <1>6 DEF Outcomes, Numbers!Results
  <2>2. Fr_req(a, b) = p
    BY EqualCorrect
  <2>3. p \in BOOLEAN
    OBVIOUS
  <2> HIDE DEF p
  <2>4. Numbers!Bit(p) = Bit(p)
    BY <2>3, SameDefinitions
  <2>5. results = {ShortOver(junk, Bit(p))} /\ numbers = {Bit(p)}
    BY <2>1, <2>2, <2>4
  <2>6. WellFormed(ShortOver(junk, Bit(p))) /\ Value(ShortOver(junk, Bit(p))) = Bit(p)
    BY <1>0, <2>3, BitMade
  <2> HIDE DEF results, numbers
  <2>7. Matches(results, numbers)
    BY <2>5, <2>6, OneMatches
  <2>8. QED
    BY <2>7 DEF results, numbers
<1>7. CASE op = "lt"
  <2> DEFINE p == Signed(v) < Signed(w)
  <2>1. /\ results = {ShortOver(junk, Bit(Fr_rlt(a, b)))}
        /\ numbers = {Numbers!Bit(Numbers!Signed(v) < Numbers!Signed(w))}
    BY <1>7 DEF Outcomes, Numbers!Results
  <2>2. Fr_rlt(a, b) = p
    BY LessCorrect
  <2>3. Signed(v) \in Int /\ Signed(w) \in Int
    BY <1>0, OrderAssumption DEF Signed, Field
  <2>4. p \in BOOLEAN
    BY <2>3
  <2>5. (Numbers!Signed(v) < Numbers!Signed(w)) = p
    BY SameDefinitions
  <2> HIDE DEF p
  <2>6. Numbers!Bit(p) = Bit(p)
    BY <2>4, SameDefinitions
  <2>7. results = {ShortOver(junk, Bit(p))} /\ numbers = {Bit(p)}
    BY <2>1, <2>2, <2>5, <2>6
  <2>8. WellFormed(ShortOver(junk, Bit(p))) /\ Value(ShortOver(junk, Bit(p))) = Bit(p)
    BY <1>0, <2>4, BitMade
  <2> HIDE DEF results, numbers
  <2>9. Matches(results, numbers)
    BY <2>7, <2>8, OneMatches
  <2>10. QED
    BY <2>9 DEF results, numbers
<1>8. CASE op \in {"idiv", "mod"}
  <2>1. CASE w = 0
    <3>1. results = {} /\ numbers = {}
      BY <1>0, <1>8, <2>1 DEF Outcomes, Numbers!Results
    <3>2. QED
      BY <3>1 DEF Matches
  <2>2. CASE w # 0
    <3> DEFINE n == IF op = "idiv" THEN v \div w ELSE v % w
    <3>1. results = {Fr_fromMpz(junk, n)} /\ numbers = {n}
      BY <1>0, <1>8, <2>2 DEF Outcomes, Numbers!Results
    <3>2. n \in Field
      BY <1>0, <2>2, DivisionInField
    <3> HIDE DEF n
    <3>3. QED
      BY <1>0, <3>1, <3>2, FromMpzMade, OneMatches
  <2>3. QED
    BY <2>1, <2>2
<1>9. CASE op = "pow"
  <2>1. /\ results = {Fr_fromMpz(junk, PowerMod(v, w))}
        /\ numbers = {PowerMod(v, w)}
    BY <1>0, <1>9, SameDefinitions DEF Outcomes, Numbers!Results
  <2>2. QED
    BY <1>0, <2>1, PowerInField, FromMpzMade, OneMatches
<1>10. CASE op = "inv"
  <2>1. /\ results = {Fr_fromMpz(junk, u) : u \in InverseOf(v)}
        /\ numbers = InverseOf(v) /\ InverseOf(v) \subseteq Field
    BY <1>0, <1>10, SameDefinitions DEF Outcomes, Numbers!Results, InverseOf
  <2>2. \A u \in InverseOf(v) : /\ WellFormed(Fr_fromMpz(junk, u))
                                /\ Value(Fr_fromMpz(junk, u)) = u
    BY <1>0, <2>1, FromMpzMade
  <2>3. QED
    BY <2>1, <2>2 DEF Matches
<1>11. CASE op = "div"
  <2>1. /\ results = {Fr_mul(junk, a, Fr_fromMpz(junk, u)) : u \in InverseOf(w)}
        /\ numbers = {(v * u) % q : u \in InverseOf(w)}
        /\ InverseOf(w) \subseteq Field
    BY <1>0, <1>11, SameDefinitions DEF Outcomes, Numbers!Results, InverseOf
  <2>2. \A u \in InverseOf(w) :
          /\ WellFormed(Fr_mul(junk, a, Fr_fromMpz(junk, u)))
          /\ Value(Fr_mul(junk, a, Fr_fromMpz(junk, u))) = (v * u) % q
    <3> SUFFICES ASSUME NEW u \in InverseOf(w)
                 PROVE  /\ WellFormed(Fr_mul(junk, a, Fr_fromMpz(junk, u)))
                        /\ Value(Fr_mul(junk, a, Fr_fromMpz(junk, u)))
                             = (v * u) % q
      OBVIOUS
    <3> DEFINE f == Fr_fromMpz(junk, u)
    <3>1. u \in Field
      BY <2>1
    <3>2. WellFormed(f) /\ Value(f) = u
      BY <1>0, <3>1, FromMpzMade
    <3> HIDE DEF f
    <3>3. WellFormed(Fr_mul(junk, a, f))
      BY <1>0, <3>2, MulCorrect
    <3>4. Value(Fr_mul(junk, a, f)) = (Value(a) * Value(f)) % q
      BY <1>0, <3>2, MulCorrect
    <3>5. QED
      BY <3>2, <3>3, <3>4 DEF f
  <2>3. QED
    BY <2>1, <2>2 DEF Matches
<1>12. CASE op \in {"toMontgomery", "toNormal", "toLongNormal"}
  <2> DEFINE e == CASE op = "toMontgomery" -> Fr_toMontgomery(junk, a)
                    [] op = "toNormal"     -> Fr_toNormal(junk, a)
                    [] op = "toLongNormal" -> Fr_toLongNormal(junk, a)
  <2>1. results = {e} /\ numbers = {v}
    BY <1>12 DEF Outcomes, Numbers!Results
  <2>2. WellFormed(e) /\ Value(e) = v
    BY <1>0, <1>12, ToMontgomeryKeeps, ToNormalKeeps, ToLongNormalKeeps
  <2> HIDE DEF e
  <2>3. QED
    BY <2>1, <2>2, OneMatches
<1>13. QED
  BY <1>1, <1>2, <1>3, <1>4, <1>5, <1>6, <1>7, <1>8, <1>9, <1>10, <1>11, <1>12
     DEF Ops

-----------------------------------------------------------------------------
\* The inductive invariant: FrTypeOK, and an instruction that has been fetched.
FrInv ==
  /\ FrTypeOK
  /\ instr.n \in Int
  /\ instr.second \in {"x", "y"}

LEMMA FrTypeOKOfBoth == FrTypeOK <=> WellFormed(x) /\ WellFormed(y)
BY DEF FrTypeOK, WellFormed

\* What is read is a number of the field.
LEMMA ReadMade ==
  ASSUME NEW junk \in Junk, NEW n \in Int
  PROVE  /\ WellFormed(Fr_str2element(junk, n))
         /\ Value(Fr_str2element(junk, n)) = n % q
<1>1. n % q \in Field /\ junk \in Element
  BY ModCong, JunkElement
<1>2. QED
  BY <1>1, FromMpzMade DEF Fr_str2element

LEMMA FrInitCorrect == FrInit => FrInv /\ Numbers!Init
<1> SUFFICES ASSUME FrInit PROVE FrInv /\ Numbers!Init
  OBVIOUS
<1>1. PICK junk \in Junk, m \in Numerals, n \in Numerals :
        x = Fr_str2element(junk, m) /\ y = Fr_str2element(junk, n)
  BY DEF FrInit
<1>2. m \in Int /\ n \in Int
  BY OrderAssumption, WidthAssumption
<1>3. WellFormed(x) /\ WellFormed(y) /\ Value(x) \in Field /\ Value(y) \in Field
  BY <1>1, <1>2, ReadMade, ModCong
<1>4. instr = NoInstr /\ aborted = FALSE
  BY DEF FrInit
<1>5. QED
  BY <1>3, <1>4, FrTypeOKOfBoth, SameDefinitions
     DEF FrInv, Numbers!Init, NoInstr

LEMMA FrStepCorrect ==
  ASSUME FrInv, [FrNext]_frVars
  PROVE  FrInv' /\ [Numbers!Next]_(Numbers!vars)
<1>0. /\ WellFormed(x) /\ WellFormed(y)
      /\ instr.n \in Int /\ instr.second \in {"x", "y"}
  BY FrTypeOKOfBoth DEF FrInv
<1>1. WellFormed(x') /\ WellFormed(y') => FrTypeOK'
  BY DEF FrTypeOK, WellFormed
<1>2. CASE UNCHANGED frVars
  <2>1. UNCHANGED Numbers!vars
    BY <1>2 DEF frVars, Numbers!vars
  <2>2. QED
    BY <1>2, <2>1, <1>0, <1>1 DEF frVars, FrInv
<1>3. CASE ~ aborted /\ Fetch
  <2>1. /\ UNCHANGED <<Value(x), Value(y), aborted>>
        /\ x' = x /\ y' = y
    BY <1>3 DEF Fetch
  <2>2. instr'.n \in Int /\ instr'.second \in {"x", "y"}
    <3>1. CASE \E n \in Numerals :
                 instr' = [NoInstr EXCEPT !.op = "read", !.n = n]
      <4>1. PICK n \in Numerals :
              instr' = [op |-> "read", second |-> "x", n |-> n]
        BY <3>1 DEF NoInstr
      <4>2. n \in Int
        BY OrderAssumption, WidthAssumption
      <4>3. QED
        BY <4>1, <4>2
    <3>2. CASE \E op \in Ops, second \in {"x", "y"} :
                 instr' = [NoInstr EXCEPT !.op = op, !.second = second]
      <4>1. PICK op \in Ops, second \in {"x", "y"} :
              instr' = [op |-> op, second |-> second, n |-> 0]
        BY <3>2 DEF NoInstr
      <4>2. QED
        BY <4>1
    <3>3. CASE instr' = [NoInstr EXCEPT !.op = "swap"]
      <4>1. instr' = [op |-> "swap", second |-> "x", n |-> 0]
        BY <3>3 DEF NoInstr
      <4>2. QED
        BY <4>1
    <3>4. QED
      BY <1>3, <3>1, <3>2, <3>3 DEF Fetch
  <2>3. Numbers!Fetch
    BY <1>3, <2>1, SameDefinitions DEF Fetch, Numbers!Fetch
  <2>4. QED
    BY <1>0, <1>1, <1>3, <2>1, <2>2, <2>3 DEF FrInv, Numbers!Next
<1>4. ASSUME ~ aborted, instr' = NoInstr, WellFormed(x'), WellFormed(y'),
             Numbers!Read \/ Numbers!Operate \/ Numbers!Swap
      PROVE  FrInv' /\ Numbers!Next
  <2>1. instr'.n \in Int /\ instr'.second \in {"x", "y"}
    BY <1>4 DEF NoInstr
  <2>2. Numbers!Next
    BY <1>4, SameDefinitions DEF Numbers!Next
  <2>3. QED
    BY <1>1, <1>4, <2>1, <2>2 DEF FrInv
<1>5. CASE ~ aborted /\ Read /\ instr' = NoInstr
  <2>1. PICK junk \in Junk : x' = Fr_str2element(junk, instr.n)
    BY <1>5 DEF Read
  <2>2. WellFormed(x') /\ Value(x') = instr.n % q
    BY <1>0, <2>1, ReadMade
  <2>3. Value(x)' = Value(x') /\ Value(y)' = Value(y) /\ y' = y
    BY <1>5 DEF Read, Value
  <2>4. Numbers!Read
    BY <1>5, <2>2, <2>3 DEF Read, Numbers!Read
  <2>5. QED
    BY <1>0, <1>4, <1>5, <2>2, <2>3, <2>4
<1>6. CASE ~ aborted /\ Operate /\ instr' = NoInstr
  <2> DEFINE b == IF instr.second = "x" THEN x ELSE y
  <2>1. instr.op \in Ops /\ y' = y
    BY <1>6 DEF Operate
  <2>2. PICK junk \in Junk :
          LET results == Outcomes(instr.op, junk, x, b)
          IN  IF results = {} THEN aborted' = TRUE /\ UNCHANGED x
              ELSE x' \in results /\ UNCHANGED aborted
    BY <1>6 DEF Operate
  <2>3. /\ WellFormed(b)
        /\ Value(b) = IF instr.second = "x" THEN Value(x) ELSE Value(y)
    BY <1>0
  <2> HIDE DEF b
  <2>4. Matches(Outcomes(instr.op, junk, x, b),
                Numbers!Results(instr.op, Value(x), Value(b)))
    BY <1>0, <2>1, <2>3, OutcomesCorrect
  <2>5. /\ WellFormed(x')
        /\ IF Numbers!Results(instr.op, Value(x), Value(b)) = {}
           THEN aborted' = TRUE /\ x' = x
           ELSE /\ Value(x') \in Numbers!Results(instr.op, Value(x), Value(b))
                /\ aborted' = aborted
    BY <1>0, <2>2, <2>4 DEF Matches
  <2>6. Value(x)' = Value(x') /\ Value(y)' = Value(y)
    BY <2>1 DEF Value
  <2>7. Numbers!Operate
    BY <2>1, <2>3, <2>5, <2>6, SameDefinitions DEF Numbers!Operate
  <2>8. QED
    BY <1>0, <1>4, <1>6, <2>1, <2>5, <2>7
<1>7. CASE ~ aborted /\ Swap /\ instr' = NoInstr
  <2>1. x' = y /\ y' = x /\ aborted' = aborted
    BY <1>7 DEF Swap
  <2>2. Value(x)' = Value(y) /\ Value(y)' = Value(x)
    BY <2>1 DEF Value
  <2>3. Numbers!Swap
    BY <1>7, <2>1, <2>2 DEF Swap, Numbers!Swap
  <2>4. QED
    BY <1>0, <1>4, <1>7, <2>1, <2>3
<1>8. QED
  BY <1>2, <1>3, <1>5, <1>6, <1>7 DEF FrNext

-----------------------------------------------------------------------------
LEMMA FrInvHolds == FrSpec => []FrInv
<1>1. FrInit => FrInv
  BY FrInitCorrect
<1>2. FrInv /\ [FrNext]_frVars => FrInv'
  BY FrStepCorrect
<1>3. QED
  BY <1>1, <1>2, PTL DEF FrSpec

\* Every operation, on operands of any types and over any junk, leaves an
\* element whose parts are in range, and whose two numbers agree when its type
\* says that both count.
THEOREM FrTypeCorrect == FrSpec => []FrTypeOK
<1>1. FrInv => FrTypeOK
  BY DEF FrInv
<1>2. QED
  BY <1>1, FrInvHolds, PTL

\* The text, the integer given to gmp, the long number of the witness file, the
\* truth value and the index read from an element are always of one number.
THEOREM ReadersAlwaysAgree == FrSpec => []ReadersAgree
<1>1. FrInv => ReadersAgree
  <2> SUFFICES ASSUME FrInv, NEW e \in {x, y}
               PROVE  /\ Fr_element2str(e) = Value(e)
                      /\ Fr_toMpz(e) = Value(e)
                      /\ Fr_toLongNormal(e, e).longVal = Value(e)
                      /\ Fr_isTrue(e) = (Value(e) # 0)
                      /\ Fr_toInt(e) = IF \E n \in Shorts : n % q = Value(e)
                                       THEN CHOOSE n \in Shorts : n % q = Value(e)
                                       ELSE Fail
    BY DEF ReadersAgree
  <2>1. WellFormed(e)
    BY FrTypeOKOfBoth DEF FrInv
  <2>2. QED
    BY <2>1, ReadersCorrect, IndexCorrect
<1>2. QED
  BY <1>1, FrInvHolds, PTL

\* Whatever operations are executed, on representations of any types and over
\* any junk, the numbers behave as in the field of q elements.
THEOREM FieldImplemented == FrSpec => ImplementsPrimeField
<1>1. FrInit => Numbers!Init
  BY FrInitCorrect
<1>2. FrInv /\ [FrNext]_frVars => [Numbers!Next]_(Numbers!vars)
  BY FrStepCorrect
<1>3. QED
  BY <1>1, <1>2, FrInvHolds, PTL DEF FrSpec, ImplementsPrimeField, Numbers!Spec

-----------------------------------------------------------------------------
(***************************************************************************)
(* The circuit.                                                            *)
(***************************************************************************)
\* The layout: the components of the permutation are numbered from 3 to 146, in
\* families, and each has its place in the array.
LEMMA Families ==
  /\ Arks = 3 .. 10 /\ Mixes = 11 .. 17 /\ MixLast = 18 /\ MixSs = 19 .. 74
  /\ Sigmas = 75 .. 146
  /\ SubComponents = 3 .. 146
  /\ Components = 0 .. 146
<1>1. Arks = 3 .. 10
  <2>1. \A c \in 3 .. 10 : c - 3 \in 0 .. 7 /\ c = Ark(c - 3)
    BY DEF Ark
  <2>2. QED
    BY <2>1 DEF Arks, Ark
<1>2. Mixes = 11 .. 17
  <2>1. \A c \in 11 .. 17 : c - 11 \in 0 .. 6 /\ c = Mix(c - 11)
    BY DEF Mix
  <2>2. QED
    BY <2>1 DEF Mixes, Mix
<1>3. MixSs = 19 .. 74
  <2>1. \A c \in 19 .. 74 : c - 19 \in 0 .. 55 /\ c = MixS(c - 19)
    BY DEF MixS
  <2>2. QED
    BY <2>1 DEF MixSs, MixS
<1>4. {SigmaF(r, j) : r \in 0 .. 7, j \in 0 .. 1} = 75 .. 90
  <2>1. ASSUME NEW c \in 75 .. 90
        PROVE  \E r \in 0 .. 7, j \in 0 .. 1 : c = SigmaF(r, j)
    <3>1. /\ (c - 75) \div 2 \in 0 .. 7 /\ (c - 75) % 2 \in 0 .. 1
          /\ c = 75 + 2 * ((c - 75) \div 2) + ((c - 75) % 2)
      OBVIOUS
    <3>2. QED
      BY <3>1 DEF SigmaF
  <2>2. QED
    BY <2>1 DEF SigmaF
<1>5. {SigmaP(r) : r \in 0 .. 55} = 91 .. 146
  <2>1. \A c \in 91 .. 146 : c - 91 \in 0 .. 55 /\ c = SigmaP(c - 91)
    BY DEF SigmaP
  <2>2. QED
    BY <2>1 DEF SigmaP
<1>6. Sigmas = 75 .. 146
  BY <1>4, <1>5 DEF Sigmas
<1>7. SubComponents = 3 .. 146
  BY <1>1, <1>2, <1>3, <1>6 DEF SubComponents, MixLast
<1>8. Components = 0 .. 146
  BY <1>7 DEF Components, Main, Poseidon, PoseidonEx
<1>9. QED
  BY <1>1, <1>2, <1>3, <1>6, <1>7, <1>8 DEF MixLast

\* Where the signals of a component of the permutation begin, and where those
\* of the three above it do.
LEMMA Layout ==
  /\ \A c \in SubComponents :
       signalStart[c] = IF c <= 18 THEN 4 * c - 2 ELSE 4 * c - 3
  /\ signalStart[Main] = 1 /\ signalStart[Poseidon] = 5
  /\ signalStart[PoseidonEx] = 7
<1>1. ASSUME NEW c \in 3 .. 146
      PROVE  signalStart[c] = IF c <= 18 THEN 4 * c - 2 ELSE 4 * c - 3
  <2>1. signalStart[c] = CASE c = Main       -> 1
                           [] c = Poseidon   -> 1 + 4
                           [] c = PoseidonEx -> 5 + 2
                           [] c \in 3 .. 10  -> 7 + 3 + 4 * (c - 3)
                           [] c \in 11 .. 17 -> 7 + 35 + 4 * (c - 11)
                           [] c = 18         -> 7 + 63
                           [] c \in 19 .. 74 -> 7 + 66 + 4 * (c - 19)
                           [] c \in 75 .. 146 /\ c < 91 -> 7 + 290 + 4 * (c - 75)
                           [] OTHER          -> 7 + 354 + 4 * (c - 91)
    BY <1>1, Families
       DEF signalStart, Ark, Mix, MixS, SigmaF, SigmaP
  <2>2. QED
    BY <2>1 DEF Main, Poseidon, PoseidonEx
<1>2. signalStart[Main] = 1 /\ signalStart[Poseidon] = 5 /\ signalStart[PoseidonEx] = 7
  BY Families DEF signalStart, Main, Poseidon, PoseidonEx
<1>3. QED
  BY <1>1, <1>2, Families

\* The signals a component writes: its own, but for its inputs.
Outs(c) == SignalsOf(c) \ {In(c, k) : k \in 0 .. Inputs(c) - 1}

LEMMA Placed ==
  ASSUME NEW c \in SubComponents
  PROVE  /\ c \in 3 .. 146
         /\ signalStart[c] = IF c <= 18 THEN 4 * c - 2 ELSE 4 * c - 3
         /\ signalStart[c] \in 10 .. 581
         /\ SignalsOf(c) = signalStart[c] .. signalStart[c]
                             + (IF c = 18 THEN 2 ELSE 3)
<1>1. c \in 3 .. 146 /\ signalStart[c] = IF c <= 18 THEN 4 * c - 2 ELSE 4 * c - 3
  BY Families, Layout
<1>2. SignalsOf(c) = signalStart[c] .. signalStart[c] + (IF c = 18 THEN 2 ELSE 3)
  BY <1>1, Families DEF SignalsOf, Poseidon, PoseidonEx
<1>3. signalStart[c] \in 10 .. 581
  BY <1>1
<1>4. QED
  BY <1>1, <1>2, <1>3

\* Two outputs, then two inputs.
LEMMA PlacedTwo ==
  ASSUME NEW c \in SubComponents, c <= 74, c # 18
  PROVE  /\ Inputs(c) = 2
         /\ In(c, 0) = signalStart[c] + 2 /\ In(c, 1) = signalStart[c] + 3
         /\ Out(c, 0) = signalStart[c] /\ Out(c, 1) = signalStart[c] + 1
         /\ SignalsOf(c) = {signalStart[c], signalStart[c] + 1,
                             signalStart[c] + 2, signalStart[c] + 3}
         /\ Outs(c) = {signalStart[c], signalStart[c] + 1}
<1> DEFINE start == signalStart[c]
           ins == {In(c, k) : k \in 0 .. Inputs(c) - 1}
<1>1. c \in 3 .. 146 /\ start \in 10 .. 581 /\ SignalsOf(c) = start .. start + 3
  BY Placed
<1>0. start \in Int
  <2>1. start \in 10 .. 581
    BY <1>1
  <2> HIDE DEF start
  <2>2. QED
    BY <2>1
<1>2. Inputs(c) = 2 /\ InputOffset(c) = 2
  BY <1>1, Families DEF Inputs, InputOffset, Poseidon, Main
<1>3. In(c, 0) = start + 2 /\ In(c, 1) = start + 3
  BY <1>0, <1>2 DEF In
<1>4. Out(c, 0) = start /\ Out(c, 1) = start + 1
  BY <1>0 DEF Out
<1>5. SignalsOf(c) = {start, start + 1, start + 2, start + 3}
  <2> HIDE DEF start
  <2>1. start .. start + 3 = {start, start + 1, start + 2, start + 3}
    BY <1>0
  <2>2. QED
    BY <1>1, <2>1
<1>6. ins = {start + 2, start + 3}
  BY <1>2, <1>3
<1>7. Outs(c) = SignalsOf(c) \ ins
  BY DEF Outs
<1> HIDE DEF start, ins
<1>8. Outs(c) = {start, start + 1}
  BY <1>1, <1>5, <1>6, <1>7
<1>9. QED
  BY <1>2, <1>3, <1>4, <1>5, <1>8 DEF start

\* One output, one input, and two signals in between the powers of the S-box.
LEMMA PlacedSigma ==
  ASSUME NEW c \in SubComponents, c >= 75
  PROVE  /\ Inputs(c) = 1
         /\ In(c, 0) = signalStart[c] + 1
         /\ Out(c, 0) = signalStart[c]
         /\ Out(c, 2) = signalStart[c] + 2 /\ Out(c, 3) = signalStart[c] + 3
         /\ SignalsOf(c) = {signalStart[c], signalStart[c] + 1,
                             signalStart[c] + 2, signalStart[c] + 3}
         /\ Outs(c) = {signalStart[c], signalStart[c] + 2, signalStart[c] + 3}
<1> DEFINE start == signalStart[c]
           ins == {In(c, k) : k \in 0 .. Inputs(c) - 1}
<1>1. c \in 3 .. 146 /\ start \in 10 .. 581 /\ SignalsOf(c) = start .. start + 3
  BY Placed
<1>0. start \in Int
  <2>1. start \in 10 .. 581
    BY <1>1
  <2> HIDE DEF start
  <2>2. QED
    BY <2>1
<1>2. Inputs(c) = 1 /\ InputOffset(c) = 1
  BY <1>1, Families DEF Inputs, InputOffset, Poseidon, Main
<1>3. In(c, 0) = start + 1
  BY <1>0, <1>2 DEF In
<1>4. Out(c, 0) = start /\ Out(c, 2) = start + 2 /\ Out(c, 3) = start + 3
  BY <1>0 DEF Out
<1>5. SignalsOf(c) = {start, start + 1, start + 2, start + 3}
  <2> HIDE DEF start
  <2>1. start .. start + 3 = {start, start + 1, start + 2, start + 3}
    BY <1>0
  <2>2. QED
    BY <1>1, <2>1
<1>6. ins = {start + 1}
  BY <1>2, <1>3
<1>7. Outs(c) = SignalsOf(c) \ ins
  BY DEF Outs
<1> HIDE DEF start, ins
<1>8. Outs(c) = {start, start + 2, start + 3}
  BY <1>1, <1>5, <1>6, <1>7
<1>9. QED
  BY <1>2, <1>3, <1>4, <1>5, <1>8 DEF start

\* One output, then two inputs.
LEMMA PlacedLast ==
  /\ MixLast \in SubComponents /\ Inputs(MixLast) = 2
  /\ signalStart[MixLast] = 70
  /\ In(MixLast, 0) = 71 /\ In(MixLast, 1) = 72 /\ Out(MixLast, 0) = 70
  /\ SignalsOf(MixLast) = {70, 71, 72} /\ Outs(MixLast) = {70}
<1> DEFINE ins == {In(MixLast, k) : k \in 0 .. Inputs(MixLast) - 1}
<1>1. MixLast = 18 /\ MixLast \in SubComponents
  BY Families
<1>2. signalStart[MixLast] = 70 /\ SignalsOf(MixLast) = 70 .. 72
  BY <1>1, Placed
<1>3. Inputs(MixLast) = 2 /\ InputOffset(MixLast) = 1
  BY <1>1, Families DEF Inputs, InputOffset, Poseidon, Main
<1>4. In(MixLast, 0) = 71 /\ In(MixLast, 1) = 72 /\ Out(MixLast, 0) = 70
  BY <1>2, <1>3 DEF In, Out
<1>5. SignalsOf(MixLast) = {70, 71, 72} /\ ins = {71, 72}
  BY <1>2, <1>3, <1>4
<1>6. Outs(MixLast) = SignalsOf(MixLast) \ ins
  BY DEF Outs
<1> HIDE DEF ins
<1>7. Outs(MixLast) = {70}
  BY <1>5, <1>6
<1>8. QED
  BY <1>1, <1>2, <1>3, <1>4, <1>5, <1>7

LEMMA PlacedInArray ==
  ASSUME NEW c \in SubComponents
  PROVE  /\ SignalsOf(c) \subseteq 10 .. 584 /\ SignalsOf(c) \subseteq Signals
         /\ Inputs(c) \in 1 .. 2
         /\ \A k \in 0 .. Inputs(c) - 1 : In(c, k) \in SignalsOf(c) \ Outs(c)
         /\ Outs(c) \subseteq SignalsOf(c)
         /\ Out(c, 0) \in Outs(c)
<1>1. c \in 3 .. 146 /\ signalStart[c] \in 10 .. 581
  BY Placed
<1>2. SignalsOf(c) \subseteq 10 .. 584
  <2> DEFINE start == signalStart[c]
             end == start + (IF c = 18 THEN 2 ELSE 3)
  <2>1. SignalsOf(c) = start .. end
    BY Placed
  <2>2. start >= 10 /\ start \in Int /\ end \in Int /\ end <= 584
    BY <1>1
  <2> HIDE DEF start, end
  <2>3. start .. end \subseteq 10 .. 584
    BY <2>2
  <2>4. QED
    BY <2>1, <2>3
<1>3. SignalsOf(c) \subseteq Signals
  BY <1>2 DEF Signals
<1>4. Inputs(c) \in 1 .. 2
  BY <1>1, Families DEF Inputs, Main, Poseidon
<1>5. \A k \in 0 .. Inputs(c) - 1 : In(c, k) \in SignalsOf(c) \ Outs(c)
  <2>1. CASE c = 18
    BY <2>1, Families, PlacedLast
  <2>2. CASE c <= 74 /\ c # 18
    BY <1>1, <2>2, PlacedTwo
  <2>3. CASE c >= 75
    BY <1>1, <2>3, PlacedSigma
  <2>4. QED
    BY <1>1, <2>1, <2>2, <2>3
<1>6. Outs(c) \subseteq SignalsOf(c)
  BY DEF Outs
<1>7. Out(c, 0) \in Outs(c)
  <2>1. CASE c = 18
    BY <2>1, Families, PlacedLast
  <2>2. CASE c <= 74 /\ c # 18
    BY <2>2, PlacedTwo
  <2>3. CASE c >= 75
    BY <2>3, PlacedSigma
  <2>4. QED
    BY <1>1, <2>1, <2>2, <2>3
<1>8. QED
  BY <1>2, <1>3, <1>4, <1>5, <1>6, <1>7

\* No two components share a signal, and none has one of those above them.
LEMMA Disjoint ==
  ASSUME NEW c \in SubComponents, NEW d \in SubComponents, c # d
  PROVE  SignalsOf(c) \cap SignalsOf(d) = {}
<1>1. /\ c \in 3 .. 146 /\ d \in 3 .. 146
      /\ signalStart[c] = IF c <= 18 THEN 4 * c - 2 ELSE 4 * c - 3
      /\ signalStart[d] = IF d <= 18 THEN 4 * d - 2 ELSE 4 * d - 3
  BY Families, Layout
<1>2. /\ SignalsOf(c) = signalStart[c] .. signalStart[c]
                             + (IF c = 18 THEN 2 ELSE 3)
      /\ SignalsOf(d) = signalStart[d] .. signalStart[d]
                             + (IF d = 18 THEN 2 ELSE 3)
  BY Placed
<1>3. QED
  BY <1>1, <1>2

Cell == Field \cup {Undef}

LEMMA Arithmetic ==
  /\ q \in Nat /\ q > 2 /\ Undef \notin Field /\ Field \subseteq Int
  /\ \A a, b \in Field : /\ Add(a, b) \in Field /\ Add(a, b) = (a + b) % q
                         /\ Mul(a, b) \in Field /\ Mul(a, b) = (a * b) % q
  /\ \A b : Add(Undef, b) = Undef
<1>1. q \in Nat /\ q > 2 /\ Undef \notin Field /\ Field \subseteq Int
  BY OrderAssumption DEF Field, Undef
<1>2. ASSUME NEW a \in Field, NEW b \in Field
      PROVE  /\ Add(a, b) \in Field /\ Add(a, b) = (a + b) % q
             /\ Mul(a, b) \in Field /\ Mul(a, b) = (a * b) % q
  <2>1. Add(a, b) = (a + b) % q /\ Mul(a, b) = (a * b) % q
    BY <1>1 DEF Add, Mul
  <2>2. a + b \in Int /\ a * b \in Int
    BY <1>1
  <2>3. \A n \in Int : n % q \in Field
    BY <1>1 DEF Field
  <2>4. QED
    BY <2>1, <2>2, <2>3
<1>3. \A b : Add(Undef, b) = Undef
  BY DEF Add
<1>4. QED
  BY <1>1, <1>2, <1>3

\* The equations of a component that has run.
Computes(sv, c) ==
  /\ \A s \in SignalsOf(c) : sv[s] \in Field
  /\ c \in Arks =>
       \A j \in 0 .. 1 : sv[Out(c, j)] = Add(sv[In(c, j)],
                                             C[ArkConstant[c - Ark(0)] + j])
  /\ c \in Sigmas =>
       /\ sv[Out(c, 2)] = Mul(sv[In(c, 0)], sv[In(c, 0)])
       /\ sv[Out(c, 3)] = Mul(sv[Out(c, 2)], sv[Out(c, 2)])
       /\ sv[Out(c, 0)] = Mul(sv[Out(c, 3)], sv[In(c, 0)])
  /\ c \in Mixes =>
       \A j \in 0 .. 1 : sv[Out(c, j)] = Row(IF c = Mix(3) THEN P ELSE M, j,
                                             sv[In(c, 0)], sv[In(c, 1)])
  /\ c \in MixSs =>
       LET r == c - MixS(0)
       IN  /\ sv[Out(c, 0)] = Add(Mul(S[3 * r], sv[In(c, 0)]),
                                  Mul(S[3 * r + 1], sv[In(c, 1)]))
           /\ sv[Out(c, 1)] = Add(sv[In(c, 1)],
                                  Mul(sv[In(c, 0)], S[3 * r + 2]))
  /\ c = MixLast => sv[Out(c, 0)] = Row(M, 0, sv[In(c, 0)], sv[In(c, 1)])

LEMMA ConstantsInField ==
  /\ \A i \in 0 .. 7, j \in 0 .. 1 : C[ArkConstant[i] + j] \in Field
  /\ \A r \in 0 .. 55 : /\ C[10 + r] \in Field
                        /\ \A i \in 0 .. 2 : S[3 * r + i] \in Field
  /\ \A m \in {M, P} : \A i, j \in 0 .. 1 : m[i][j] \in Field
<1>1. \A i \in 0 .. 7, j \in 0 .. 1 : C[ArkConstant[i] + j] \in Field
  <2>1. \A i \in 0 .. 7 : ArkConstant[i] \in 0 .. 70
    BY DEF ArkConstant
  <2>2. \A i \in 0 .. 7, j \in 0 .. 1 : ArkConstant[i] + j \in 0 .. 71
    BY <2>1
  <2>3. QED
    BY <2>2, ConstantsAssumption
<1>2. ASSUME NEW r \in 0 .. 55
      PROVE  C[10 + r] \in Field /\ \A i \in 0 .. 2 : S[3 * r + i] \in Field
  <2>1. 10 + r \in 0 .. 71 /\ \A i \in 0 .. 2 : 3 * r + i \in 0 .. 167
    OBVIOUS
  <2>2. QED
    BY <2>1, ConstantsAssumption
<1>3. \A m \in {M, P} : \A i, j \in 0 .. 1 : m[i][j] \in Field
  BY ConstantsAssumption
<1>4. QED
  BY <1>1, <1>2, <1>3

LEMMA RowInField ==
  ASSUME NEW m \in {M, P}, NEW i \in 0 .. 1, NEW a \in Field, NEW b \in Field
  PROVE  Row(m, i, a, b) \in Field
<1>1. m[0][i] \in Field /\ m[1][i] \in Field
  BY ConstantsInField
<1>2. Mul(m[0][i], a) \in Field /\ Mul(m[1][i], b) \in Field
  BY <1>1, Arithmetic
<1>3. QED
  BY <1>2, Arithmetic DEF Row

\* What running a component does to the signals: its outputs are written, as
\* its template says, and nothing else.
Runs(c, sv) ==
  /\ Run(c, sv) \in [Signals -> Cell]
  /\ \A s \in Signals \ Outs(c) : Run(c, sv)[s] = sv[s]
  /\ Computes(Run(c, sv), c)

InputsThere(c, sv) == /\ sv \in [Signals -> Cell]
                      /\ \A k \in 0 .. Inputs(c) - 1 : sv[In(c, k)] \in Field

LEMMA InArray ==
  ASSUME NEW start \in 10 .. 581
  PROVE  /\ start \in Signals /\ start + 1 \in Signals
         /\ start + 2 \in Signals /\ start + 3 \in Signals
BY DEF Signals

WriteTwo(sv, start, u, v) ==
  [s \in Signals |-> IF s = start THEN u ELSE IF s = start + 1 THEN v ELSE sv[s]]

TwoNew(sv, start, u, v, next) ==
  /\ next \in [Signals -> Cell]
  /\ \A s \in Signals \ {start, start + 1} : next[s] = sv[s]
  /\ next[start] = u /\ next[start + 1] = v
  /\ next[start + 2] = sv[start + 2] /\ next[start + 3] = sv[start + 3]
  /\ \A s \in {start, start + 1, start + 2, start + 3} : next[s] \in Field

LEMMA TwoWritten ==
  ASSUME NEW sv \in [Signals -> Cell], NEW start \in 10 .. 581,
         NEW u \in Field, NEW v \in Field,
         sv[start + 2] \in Field, sv[start + 3] \in Field,
         NEW next, next = WriteTwo(sv, start, u, v)
  PROVE  TwoNew(sv, start, u, v, next)
<1> SUFFICES /\ next \in [Signals -> Cell]
             /\ \A s \in Signals \ {start, start + 1} : next[s] = sv[s]
             /\ next[start] = u /\ next[start + 1] = v
             /\ next[start + 2] = sv[start + 2]
             /\ next[start + 3] = sv[start + 3]
  <2>1. next[start + 2] \in Field /\ next[start + 3] \in Field
    OBVIOUS
  <2>2. QED
    BY <2>1 DEF TwoNew
<1>1. next \in [Signals -> Cell]
  BY DEF Cell, WriteTwo
<1>2. \A s \in Signals \ {start, start + 1} : next[s] = sv[s]
  BY DEF WriteTwo
<1>3. /\ start \in Signals /\ start + 1 \in Signals
      /\ start + 2 \in Signals /\ start + 3 \in Signals
  BY InArray
<1>4. next[start] = u /\ next[start + 1] = v
  BY <1>3 DEF WriteTwo
<1>5. next[start + 2] = sv[start + 2] /\ next[start + 3] = sv[start + 3]
  BY <1>3 DEF WriteTwo
<1>6. QED
  BY <1>1, <1>2, <1>4, <1>5

LEMMA ArkRuns ==
  ASSUME NEW c \in Arks, NEW sv, InputsThere(c, sv)
  PROVE  Runs(c, sv)
<1> DEFINE start == signalStart[c]
           next == Run(c, sv)
           value(j) == Add(sv[start + 2 + j], C[ArkConstant[c - 3] + j])
           f == [s \in {start, start + 1} |-> value(s - start)]
<1>1. c \in 3 .. 10 /\ c \in SubComponents /\ c <= 74 /\ c # 18
  BY Families
<1>2. /\ Inputs(c) = 2 /\ In(c, 0) = start + 2 /\ In(c, 1) = start + 3
      /\ Out(c, 0) = start /\ Out(c, 1) = start + 1
      /\ SignalsOf(c) = {start, start + 1, start + 2, start + 3}
      /\ Outs(c) = {start, start + 1}
  BY <1>1, PlacedTwo
<1>3. start \in 10 .. 581
  BY <1>1, Placed
<1> HIDE DEF start
<1>4. /\ sv \in [Signals -> Cell]
      /\ sv[start + 2] \in Field /\ sv[start + 3] \in Field
  BY <1>2 DEF InputsThere
<1>5. next = RunArk(c, sv)
  BY Families DEF Run
<1> HIDE DEF next
<1>6. next = WriteAll(sv, f)
  <2>1. ASSUME NEW s \in {start, start + 1}
        PROVE  Add(sv[In(c, s - start)], C[ArkConstant[c - 3] + (s - start)])
                 = f[s]
    <3>1. In(c, s - start) = start + 2 + (s - start)
      BY <1>2, <1>3
    <3>2. QED
      BY <3>1
  <2>2. next = WriteAll(sv, [s \in {Out(c, 0), Out(c, 1)} |->
                  Add(sv[In(c, s - Out(c, 0))],
                      C[ArkConstant[c - 3] + (s - Out(c, 0))])])
    BY <1>5 DEF RunArk, Ark
  <2>3. [s \in {Out(c, 0), Out(c, 1)} |->
                  Add(sv[In(c, s - Out(c, 0))],
                      C[ArkConstant[c - 3] + (s - Out(c, 0))])] = f
    BY <1>2, <2>1
  <2> HIDE DEF f
  <2>4. QED
    BY <2>2, <2>3
<1>7. value(0) = Add(sv[start + 2], C[ArkConstant[c - 3]])
      /\ value(1) = Add(sv[start + 3], C[ArkConstant[c - 3] + 1])
  <2>1. ArkConstant[c - 3] \in Int
    BY <1>1 DEF ArkConstant
  <2>2. QED
    BY <1>3, <2>1
<1>8. C[ArkConstant[c - 3]] \in Field /\ C[ArkConstant[c - 3] + 1] \in Field
  <2>1. ArkConstant[c - 3] \in 0 .. 70
    BY <1>1 DEF ArkConstant
  <2>2. QED
    BY <2>1, ConstantsAssumption
<1>9. value(0) \in Field /\ value(1) \in Field
  BY <1>4, <1>7, <1>8, Arithmetic
<1>10. f[start] = value(0) /\ f[start + 1] = value(1)
       /\ DOMAIN f = {start, start + 1}
  BY <1>3
<1> HIDE DEF f, value
<1>11. next = WriteTwo(sv, start, value(0), value(1))
  BY <1>6, <1>10 DEF WriteAll, WriteTwo
<1>12. /\ next \in [Signals -> Cell]
       /\ \A s \in Signals \ {start, start + 1} : next[s] = sv[s]
       /\ next[start] = value(0) /\ next[start + 1] = value(1)
       /\ next[start + 2] = sv[start + 2] /\ next[start + 3] = sv[start + 3]
       /\ \A s \in {start, start + 1, start + 2, start + 3} : next[s] \in Field
  <2>1. TwoNew(sv, start, value(0), value(1), next)
    BY <1>3, <1>4, <1>9, <1>11, TwoWritten
  <2>2. QED
    BY <2>1 DEF TwoNew
<1>13. \A j \in 0 .. 1 : next[Out(c, j)] = Add(next[In(c, j)],
                                               C[ArkConstant[c - Ark(0)] + j])
  <2>1. Ark(0) = 3 /\ ArkConstant[c - 3] \in Int
    BY <1>1 DEF Ark, ArkConstant
  <2>2. /\ next[Out(c, 0)] = Add(next[In(c, 0)], C[ArkConstant[c - 3] + 0])
        /\ next[Out(c, 1)] = Add(next[In(c, 1)], C[ArkConstant[c - 3] + 1])
    BY <1>2, <1>7, <1>12, <2>1
  <2>3. QED
    BY <2>1, <2>2
<1>14. Computes(next, c)
  BY <1>1, <1>2, <1>12, <1>13, Families DEF Computes
<1>15. QED
  BY <1>2, <1>12, <1>14 DEF Runs, next

LEMMA MixRuns ==
  ASSUME NEW c \in Mixes, NEW sv, InputsThere(c, sv)
  PROVE  Runs(c, sv)
<1> DEFINE start == signalStart[c]
           next == Run(c, sv)
           m == IF c = Mix(3) THEN P ELSE M
           a == sv[start + 2]
           b == sv[start + 3]
           f == [s \in {start, start + 1} |-> Row(m, s - start, a, b)]
<1>1. c \in 11 .. 17 /\ c \in SubComponents /\ c <= 74 /\ c # 18
  BY Families
<1>2. /\ Inputs(c) = 2 /\ In(c, 0) = start + 2 /\ In(c, 1) = start + 3
      /\ Out(c, 0) = start /\ Out(c, 1) = start + 1
      /\ SignalsOf(c) = {start, start + 1, start + 2, start + 3}
      /\ Outs(c) = {start, start + 1}
  BY <1>1, PlacedTwo
<1>3. start \in 10 .. 581
  BY <1>1, Placed
<1> HIDE DEF start
<1>4. sv \in [Signals -> Cell] /\ a \in Field /\ b \in Field
  BY <1>2 DEF InputsThere
<1>5. next = RunMix(c, sv)
  BY Families DEF Run
<1> HIDE DEF next
<1>6. next = WriteAll(sv, [s \in {Out(c, 0), Out(c, 1)} |->
                  Row(m, s - Out(c, 0), sv[In(c, 0)], sv[In(c, 1)])])
  BY <1>5 DEF RunMix
<1> HIDE DEF m
<1>7. next = WriteAll(sv, f)
  BY <1>2, <1>6
<1>8. Row(m, 0, a, b) \in Field /\ Row(m, 1, a, b) \in Field
  BY <1>4, RowInField DEF m
<1>9. f[start] = Row(m, 0, a, b) /\ f[start + 1] = Row(m, 1, a, b)
       /\ DOMAIN f = {start, start + 1}
  BY <1>3
<1> HIDE DEF f
<1>10. next = WriteTwo(sv, start, Row(m, 0, a, b), Row(m, 1, a, b))
  BY <1>7, <1>9 DEF WriteAll, WriteTwo
<1>11. /\ next \in [Signals -> Cell]
       /\ \A s \in Signals \ {start, start + 1} : next[s] = sv[s]
       /\ next[start] = Row(m, 0, a, b) /\ next[start + 1] = Row(m, 1, a, b)
       /\ next[start + 2] = sv[start + 2] /\ next[start + 3] = sv[start + 3]
       /\ \A s \in {start, start + 1, start + 2, start + 3} : next[s] \in Field
  <2>1. TwoNew(sv, start, Row(m, 0, a, b), Row(m, 1, a, b), next)
    BY <1>3, <1>4, <1>8, <1>10, TwoWritten
  <2>2. QED
    BY <2>1 DEF TwoNew
<1>12. \A j \in 0 .. 1 : next[Out(c, j)] = Row(m, j, next[In(c, 0)],
                                                  next[In(c, 1)])
  <2>1. /\ next[Out(c, 0)] = Row(m, 0, next[In(c, 0)], next[In(c, 1)])
        /\ next[Out(c, 1)] = Row(m, 1, next[In(c, 0)], next[In(c, 1)])
    BY <1>2, <1>11
  <2>2. QED
    BY <2>1
<1>13. Computes(next, c)
  BY <1>1, <1>2, <1>11, <1>12, Families DEF Computes, m
<1>14. QED
  BY <1>2, <1>11, <1>13 DEF Runs, next

LEMMA MixSRuns ==
  ASSUME NEW c \in MixSs, NEW sv, InputsThere(c, sv)
  PROVE  Runs(c, sv)
<1> DEFINE start == signalStart[c]
           next == Run(c, sv)
           r == c - MixS(0)
           a == sv[start + 2]
           b == sv[start + 3]
           u == Add(Mul(S[3 * r], a), Mul(S[3 * r + 1], b))
           v == Add(b, Mul(a, S[3 * r + 2]))
<1>1. c \in 19 .. 74 /\ c \in SubComponents /\ c <= 74 /\ c # 18
  BY Families
<1>2. /\ Inputs(c) = 2 /\ In(c, 0) = start + 2 /\ In(c, 1) = start + 3
      /\ Out(c, 0) = start /\ Out(c, 1) = start + 1
      /\ SignalsOf(c) = {start, start + 1, start + 2, start + 3}
      /\ Outs(c) = {start, start + 1}
  BY <1>1, PlacedTwo
<1>3. start \in 10 .. 581
  BY <1>1, Placed
<1> HIDE DEF start
<1>4. sv \in [Signals -> Cell] /\ a \in Field /\ b \in Field
  BY <1>2 DEF InputsThere
<1>5. next = RunMixS(c, sv)
  BY Families DEF Run
<1> HIDE DEF next
<1>6. next = [sv EXCEPT ![start] = u, ![start + 1] = v]
  BY <1>2, <1>5 DEF RunMixS
<1>7. u \in Field /\ v \in Field
  <2>1. r \in 0 .. 55
    BY <1>1 DEF MixS
  <2>2. S[3 * r] \in Field /\ S[3 * r + 1] \in Field /\ S[3 * r + 2] \in Field
    BY <2>1, ConstantsAssumption
  <2> HIDE DEF r
  <2>3. /\ Mul(S[3 * r], a) \in Field /\ Mul(S[3 * r + 1], b) \in Field
        /\ Mul(a, S[3 * r + 2]) \in Field
    BY <1>4, <2>2, Arithmetic
  <2>4. QED
    BY <1>4, <2>3, Arithmetic
<1> HIDE DEF r
<1>8. Computes(next, c) <=>
        /\ \A s \in SignalsOf(c) : next[s] \in Field
        /\ next[Out(c, 0)] = Add(Mul(S[3 * r], next[In(c, 0)]),
                                 Mul(S[3 * r + 1], next[In(c, 1)]))
        /\ next[Out(c, 1)] = Add(next[In(c, 1)],
                                 Mul(next[In(c, 0)], S[3 * r + 2]))
  BY <1>1, Families DEF Computes, r
<1> HIDE DEF u, v
<1>9. next = WriteTwo(sv, start, u, v)
  <2>1. start + 1 # start
    BY <1>3
  <2>2. QED
    BY <1>4, <1>6, <2>1 DEF WriteTwo
<1>10. /\ next \in [Signals -> Cell]
       /\ \A s \in Signals \ {start, start + 1} : next[s] = sv[s]
       /\ next[start] = u /\ next[start + 1] = v
       /\ next[start + 2] = sv[start + 2] /\ next[start + 3] = sv[start + 3]
       /\ \A s \in {start, start + 1, start + 2, start + 3} : next[s] \in Field
  <2>1. TwoNew(sv, start, u, v, next)
    BY <1>3, <1>4, <1>7, <1>9, TwoWritten
  <2>2. QED
    BY <2>1 DEF TwoNew
<1>11. Computes(next, c)
  BY <1>2, <1>8, <1>10 DEF u, v
<1>12. QED
  BY <1>2, <1>10, <1>11 DEF Runs, next

LEMMA SigmaRuns ==
  ASSUME NEW c \in Sigmas, NEW sv, InputsThere(c, sv)
  PROVE  Runs(c, sv)
<1> DEFINE start == signalStart[c]
           next == Run(c, sv)
           a == sv[start + 1]
           in2 == Mul(a, a)
           in4 == Mul(in2, in2)
           out == Mul(in4, a)
<1>1. c \in 75 .. 146 /\ c \in SubComponents /\ c >= 75
  BY Families
<1>2. /\ Inputs(c) = 1 /\ In(c, 0) = start + 1 /\ Out(c, 0) = start
      /\ Out(c, 2) = start + 2 /\ Out(c, 3) = start + 3
      /\ SignalsOf(c) = {start, start + 1, start + 2, start + 3}
      /\ Outs(c) = {start, start + 2, start + 3}
  BY <1>1, PlacedSigma
<1>3. start \in 10 .. 581
  BY <1>1, Placed
<1>4. sv \in [Signals -> Cell] /\ a \in Field
  BY <1>2 DEF InputsThere
<1>5. next = RunSigma(c, sv)
  BY Families DEF Run
<1> HIDE DEF next
<1>6. next = [sv EXCEPT ![start + 2] = in2, ![start + 3] = in4, ![start] = out]
  BY <1>2, <1>5 DEF RunSigma
<1> HIDE DEF start
<1>7. in2 \in Field
  BY <1>4, Arithmetic
<1>8. in4 \in Field
  BY <1>7, Arithmetic
<1>9. out \in Field
  BY <1>4, <1>8, Arithmetic
<1>10. Computes(next, c) <=>
         /\ \A s \in SignalsOf(c) : next[s] \in Field
         /\ next[Out(c, 2)] = Mul(next[In(c, 0)], next[In(c, 0)])
         /\ next[Out(c, 3)] = Mul(next[Out(c, 2)], next[Out(c, 2)])
         /\ next[Out(c, 0)] = Mul(next[Out(c, 3)], next[In(c, 0)])
  BY <1>1, Families DEF Computes
<1>11. /\ start \in Signals /\ start + 1 \in Signals
       /\ start + 2 \in Signals /\ start + 3 \in Signals
  BY <1>3, InArray
<1>12. start \in Int
  BY <1>3
<1>13. next \in [Signals -> Cell]
  BY <1>4, <1>6, <1>7, <1>8, <1>9 DEF Cell
<1> HIDE DEF in2, in4, out
<1>14. \A s \in Signals \ {start, start + 2, start + 3} : next[s] = sv[s]
  BY <1>4, <1>6
<1>15. /\ next[start] = out /\ next[start + 1] = a
       /\ next[start + 2] = in2 /\ next[start + 3] = in4
  BY <1>4, <1>6, <1>11, <1>12
<1>16. Computes(next, c)
  BY <1>2, <1>4, <1>7, <1>8, <1>9, <1>10, <1>15 DEF in2, in4, out
<1>17. QED
  BY <1>2, <1>13, <1>14, <1>16 DEF Runs, next

LEMMA MixLastRuns ==
  ASSUME NEW sv, InputsThere(MixLast, sv)
  PROVE  Runs(MixLast, sv)
<1> DEFINE next == Run(MixLast, sv)
           out == Row(M, 0, sv[71], sv[72])
<1>1. /\ sv \in [Signals -> Cell] /\ sv[71] \in Field /\ sv[72] \in Field
  BY PlacedLast DEF InputsThere
<1>2. next = RunMixLast(MixLast, sv)
  BY Families DEF Run
<1> HIDE DEF next
<1>3. next = [sv EXCEPT ![70] = out]
  BY <1>2, PlacedLast DEF RunMixLast
<1>4. out \in Field
  BY <1>1, RowInField
<1>5. Computes(next, MixLast) <=>
        /\ \A s \in SignalsOf(MixLast) : next[s] \in Field
        /\ next[70] = Row(M, 0, next[71], next[72])
  BY Families, PlacedLast DEF Computes
<1> HIDE DEF out
<1>6. /\ next \in [Signals -> Cell]
      /\ \A s \in Signals \ {70} : next[s] = sv[s]
      /\ next[70] = out /\ next[71] = sv[71] /\ next[72] = sv[72]
  <2>1. 70 \in Signals /\ 71 \in Signals /\ 72 \in Signals
    BY DEF Signals
  <2>2. QED
    BY <1>1, <1>3, <1>4, <2>1 DEF Cell
<1>7. Computes(next, MixLast)
  BY <1>1, <1>4, <1>5, <1>6, PlacedLast DEF out
<1>8. QED
  BY <1>6, <1>7, PlacedLast DEF Runs, next

LEMMA ComponentRuns ==
  ASSUME NEW c \in SubComponents, NEW sv, InputsThere(c, sv)
  PROVE  Runs(c, sv)
BY ArkRuns, MixRuns, MixSRuns, SigmaRuns, MixLastRuns DEF SubComponents

-----------------------------------------------------------------------------
(***************************************************************************)
(* The order of the copies.  Each input is fed by one step of one loop;    *)
(* counting the steps tells which inputs have been fed.                    *)
(***************************************************************************)
\* The number of the step that feeds input k of c.
Due(c, k) ==
  CASE c = Ark(0)                       -> k
    [] c \in Ark(1) .. Ark(3)           -> 4 + 6 * (c - Ark(1)) + k
    [] c = Ark(4)                       -> 22 + k
    [] c \in Ark(5) .. Ark(7)           -> 196 + 6 * (c - Ark(5)) + k
    [] c \in Mix(0) .. Mix(2)           -> 6 + 6 * (c - Mix(0)) + k
    [] c = Mix(3)                       -> 24 + k
    [] c \in Mix(4) .. Mix(6)           -> 198 + 6 * (c - Mix(4)) + k
    [] c = MixLast                      -> 214 + k
    [] c \in MixSs                      -> 27 + 3 * (c - MixS(0)) + k
    [] c \in SigmaF(0, 0) .. SigmaF(2, 1) ->
         2 + 6 * ((c - 75) \div 2) + ((c - 75) % 2)
    [] c \in SigmaF(3, 0) .. SigmaF(3, 1) -> 20 + (c - SigmaF(3, 0))
    [] c \in SigmaF(4, 0) .. SigmaF(6, 1) ->
         194 + 6 * ((c - 83) \div 2) + ((c - 83) % 2)
    [] c \in SigmaF(7, 0) .. SigmaF(7, 1) -> 212 + (c - SigmaF(7, 0))
    [] c \in SigmaP(0) .. SigmaP(55)    -> 26 + 3 * (c - SigmaP(0))

\* The step that runs c.
Last(c) == Due(c, Inputs(c) - 1)

\* The component, and the output of it, that input k of c is a copy of; the
\* first layer is fed by PoseidonEx.
From(c, k) ==
  CASE c \in Arks    -> SigmaF(c - Ark(1), k)
    [] c \in Mixes   -> Ark(c - Mix(0) + 1)
    [] c = MixLast   -> SigmaF(7, k)
    [] c \in MixSs   -> IF k = 0 THEN SigmaP(c - MixS(0))
                        ELSE IF c = MixS(0) THEN Mix(3) ELSE c - 1
    [] c \in SigmaF(0, 0) .. SigmaF(7, 1) ->
         IF c < SigmaF(1, 0) THEN Ark(0)
         ELSE IF c \in SigmaF(4, 0) .. SigmaF(4, 1) THEN MixS(55)
         ELSE Mix((c - 75) \div 2 - 1)
    [] c \in SigmaP(0) .. SigmaP(55) ->
         IF c = SigmaP(0) THEN Mix(3) ELSE MixS(c - SigmaP(1))

FromOut(c, k) == IF c \in Mixes \cup MixSs THEN k
                 ELSE IF c \in SigmaF(0, 0) .. SigmaF(7, 1) THEN (c - 75) % 2
                 ELSE 0

Copied(sv, c, k) ==
  IF c = Ark(0) THEN sv[signalStart[PoseidonEx] + (IF k > 0 THEN 1 ELSE 2)]
  ELSE IF c \in MixSs /\ k = 0
       THEN Add(sv[Out(From(c, k), 0)], C[10 + (c - MixS(0))])
  ELSE sv[Out(From(c, k), FromOut(c, k))]

InputPairs == {p \in SubComponents \X (0 .. 1) : p[2] < Inputs(p[1])}

\* The same in numbers.
DueNumber(c, k) ==
  IF c = 3 THEN k
  ELSE IF c <= 6 THEN 4 + 6 * (c - 4) + k
  ELSE IF c = 7 THEN 22 + k
  ELSE IF c <= 10 THEN 196 + 6 * (c - 8) + k
  ELSE IF c <= 13 THEN 6 + 6 * (c - 11) + k
  ELSE IF c = 14 THEN 24 + k
  ELSE IF c <= 17 THEN 198 + 6 * (c - 15) + k
  ELSE IF c = 18 THEN 214 + k
  ELSE IF c <= 74 THEN 27 + 3 * (c - 19) + k
  ELSE IF c <= 80 THEN 2 + 6 * ((c - 75) \div 2) + ((c - 75) % 2)
  ELSE IF c <= 82 THEN 20 + (c - 81)
  ELSE IF c <= 88 THEN 194 + 6 * ((c - 83) \div 2) + ((c - 83) % 2)
  ELSE IF c <= 90 THEN 212 + (c - 89)
  ELSE 26 + 3 * (c - 91)

LEMMA DueInNumbers ==
  ASSUME NEW c \in SubComponents, NEW k \in 0 .. 1
  PROVE  /\ Due(c, k) = DueNumber(c, k) /\ Due(c, k) \in 0 .. 215
         /\ Last(c) = DueNumber(c, IF c <= 74 THEN 1 ELSE 0)
         /\ k < Inputs(c) => Due(c, k) <= Last(c)
         /\ Inputs(c) = IF c <= 74 THEN 2 ELSE 1
<1>1. c \in 3 .. 146
  BY Families
<1>2. ASSUME NEW l \in 0 .. 1
      PROVE  Due(c, l) = DueNumber(c, l) /\ Due(c, l) \in 0 .. 215
  <2>1. Due(c, l) = DueNumber(c, l)
    BY <1>1, Families
       DEF Due, DueNumber, Ark, Mix, MixS, SigmaF, SigmaP
  <2>2. DueNumber(c, l) \in 0 .. 215
    BY <1>1 DEF DueNumber
  <2>3. QED
    BY <2>1, <2>2
<1>3. Inputs(c) = IF c <= 74 THEN 2 ELSE 1
  BY <1>1, Families, PlacedTwo, PlacedSigma, PlacedLast
<1>4. Last(c) = DueNumber(c, IF c <= 74 THEN 1 ELSE 0)
  BY <1>1, <1>2, <1>3 DEF Last
<1>5. k < Inputs(c) => DueNumber(c, k) <= DueNumber(c, IF c <= 74 THEN 1 ELSE 0)
  BY <1>1, <1>3 DEF DueNumber
<1>6. QED
  BY <1>2, <1>3, <1>4, <1>5

\* The component, and the input of it, that step n feeds.
Fed(n) ==
  LET lap(m, sigma, ark, mix) ==
        LET r == m \div 6
            t == m % 6
        IN  IF t <= 1 THEN <<sigma + 2 * r + t, 0>>
            ELSE IF t <= 3 THEN <<ark + r, t - 2>> ELSE <<mix + r, t - 4>>
      spin(m) == LET r == m \div 3
                     t == m % 3
                 IN  IF t = 0 THEN <<91 + r, 0>> ELSE <<19 + r, t - 1>>
  IN  IF n <= 1 THEN <<3, n>>
      ELSE IF n <= 25 THEN lap(n - 2, 75, 4, 11)
      ELSE IF n <= 193 THEN spin(n - 26)
      ELSE IF n <= 211 THEN lap(n - 194, 83, 8, 15)
      ELSE IF n <= 213 THEN <<89 + (n - 212), 0>>
      ELSE <<18, n - 214>>

\* The two full rounds of a lap of six steps, in either half.
LEMMA FedInLap ==
  ASSUME NEW r \in 0 .. 3, NEW t \in 0 .. 5
  PROVE  /\ Fed(2 + 6 * r + t) = IF t <= 1 THEN <<75 + 2 * r + t, 0>>
                                 ELSE IF t <= 3 THEN <<4 + r, t - 2>>
                                 ELSE <<11 + r, t - 4>>
         /\ r < 3 =>
              Fed(194 + 6 * r + t) = IF t <= 1 THEN <<83 + 2 * r + t, 0>>
                                     ELSE IF t <= 3 THEN <<8 + r, t - 2>>
                                     ELSE <<15 + r, t - 4>>
<1>1. (6 * r + t) \div 6 = r /\ (6 * r + t) % 6 = t
  OBVIOUS
<1> DEFINE n == 2 + 6 * r + t
           m == 194 + 6 * r + t
<1>2. n \in 2 .. 25 /\ n - 2 = 6 * r + t /\ ~ (n <= 1) /\ n <= 25
  OBVIOUS
<1>3. r < 3 => /\ m \in 194 .. 211 /\ m - 194 = 6 * r + t
               /\ ~ (m <= 1) /\ ~ (m <= 25) /\ ~ (m <= 193) /\ m <= 211
  OBVIOUS
<1> HIDE DEF n, m
<1>4. Fed(n) = IF t <= 1 THEN <<75 + 2 * r + t, 0>>
               ELSE IF t <= 3 THEN <<4 + r, t - 2>> ELSE <<11 + r, t - 4>>
  BY <1>1, <1>2 DEF Fed
<1>5. r < 3 => Fed(m) = IF t <= 1 THEN <<83 + 2 * r + t, 0>>
                        ELSE IF t <= 3 THEN <<8 + r, t - 2>> ELSE <<15 + r, t - 4>>
  BY <1>1, <1>3 DEF Fed
<1>6. QED
  BY <1>4, <1>5 DEF n, m

\* Different inputs are fed by different steps.
LEMMA DueBack ==
  ASSUME NEW c \in SubComponents, NEW k \in 0 .. 1, k < Inputs(c)
  PROVE  Fed(Due(c, k)) = <<c, k>>
<1>0. Inputs(c) = IF c <= 74 THEN 2 ELSE 1
  BY DueInNumbers
<1>1. /\ c \in 3 .. 146 /\ Due(c, k) = DueNumber(c, k) /\ (c > 74 => k = 0)
  <2>1. Due(c, k) = DueNumber(c, k)
    BY DueInNumbers
  <2>2. c \in 3 .. 146
    BY Families
  <2>3. QED
    BY <1>0, <2>1, <2>2
<1>2. CASE c <= 18
  <2>1. CASE c \in {3, 18}
    BY <1>1, <2>1 DEF DueNumber, Fed
  <2>2. CASE c \in 4 .. 7
    <3>1. DueNumber(c, k) = 2 + 6 * (c - 4) + (2 + k)
      BY <2>2 DEF DueNumber
    <3>2. c - 4 \in 0 .. 3 /\ 2 + k \in 2 .. 3 /\ 2 + k \in 0 .. 5
      BY <2>2
    <3>3. Fed(2 + 6 * (c - 4) + (2 + k)) = <<4 + (c - 4), (2 + k) - 2>>
      BY <3>2, FedInLap
    <3>4. QED
      BY <1>1, <2>2, <3>1, <3>3
  <2>3. CASE c \in 8 .. 10
    <3>1. DueNumber(c, k) = 194 + 6 * (c - 8) + (2 + k)
      BY <2>3 DEF DueNumber
    <3>2. c - 8 \in 0 .. 3 /\ c - 8 < 3 /\ 2 + k \in 2 .. 3 /\ 2 + k \in 0 .. 5
      BY <2>3
    <3>3. Fed(194 + 6 * (c - 8) + (2 + k)) = <<8 + (c - 8), (2 + k) - 2>>
      BY <3>2, FedInLap
    <3>4. QED
      BY <1>1, <2>3, <3>1, <3>3
  <2>4. CASE c \in 11 .. 14
    <3>1. DueNumber(c, k) = 2 + 6 * (c - 11) + (4 + k)
      BY <2>4 DEF DueNumber
    <3>2. c - 11 \in 0 .. 3 /\ 4 + k \in 4 .. 5 /\ 4 + k \in 0 .. 5
      BY <2>4
    <3>3. Fed(2 + 6 * (c - 11) + (4 + k)) = <<11 + (c - 11), (4 + k) - 4>>
      BY <3>2, FedInLap
    <3>4. QED
      BY <1>1, <2>4, <3>1, <3>3
  <2>5. CASE c \in 15 .. 17
    <3>1. DueNumber(c, k) = 194 + 6 * (c - 15) + (4 + k)
      BY <2>5 DEF DueNumber
    <3>2. c - 15 \in 0 .. 3 /\ c - 15 < 3 /\ 4 + k \in 4 .. 5 /\ 4 + k \in 0 .. 5
      BY <2>5
    <3>3. Fed(194 + 6 * (c - 15) + (4 + k)) = <<15 + (c - 15), (4 + k) - 4>>
      BY <3>2, FedInLap
    <3>4. QED
      BY <1>1, <2>5, <3>1, <3>3
  <2>6. QED
    BY <1>1, <1>2, <2>1, <2>2, <2>3, <2>4, <2>5
<1>3. CASE c \in 19 .. 74
  BY <1>1, <1>3 DEF DueNumber, Fed
<1>4. CASE c \in 75 .. 90
  <2>1. CASE c <= 80
    <3> DEFINE r == (c - 75) \div 2
               t == (c - 75) % 2
    <3>1. DueNumber(c, k) = 2 + 6 * r + t
      BY <1>4, <2>1 DEF DueNumber
    <3>2. r \in 0 .. 3 /\ t \in 0 .. 1 /\ t \in 0 .. 5 /\ c = 75 + 2 * r + t
      BY <1>4, <2>1
    <3> HIDE DEF r, t
    <3>3. Fed(2 + 6 * r + t) = <<75 + 2 * r + t, 0>>
      BY <3>2, FedInLap
    <3>4. k = 0
      BY <1>1, <1>4, <2>1
    <3>5. QED
      BY <1>1, <3>1, <3>2, <3>3, <3>4
  <2>2. CASE c \in 81 .. 82
    BY <1>1, <2>2 DEF DueNumber, Fed
  <2>3. CASE c \in 83 .. 88
    <3> DEFINE r == (c - 83) \div 2
               t == (c - 83) % 2
    <3>1. DueNumber(c, k) = 194 + 6 * r + t
      BY <2>3 DEF DueNumber
    <3>2. r \in 0 .. 3 /\ r < 3 /\ t \in 0 .. 1 /\ t \in 0 .. 5 /\ c = 83 + 2 * r + t
      BY <2>3
    <3> HIDE DEF r, t
    <3>3. Fed(194 + 6 * r + t) = <<83 + 2 * r + t, 0>>
      BY <3>2, FedInLap
    <3>4. k = 0
      BY <1>1, <2>3
    <3>5. QED
      BY <1>1, <3>1, <3>2, <3>3, <3>4
  <2>4. CASE c \in 89 .. 90
    BY <1>1, <2>4 DEF DueNumber, Fed
  <2>5. QED
    BY <1>4, <2>1, <2>2, <2>3, <2>4
<1>5. CASE c \in 91 .. 146
  <2>1. DueNumber(c, k) = 26 + 3 * (c - 91) /\ k = 0
    BY <1>1, <1>5 DEF DueNumber
  <2> DEFINE n == DueNumber(c, k)
  <2>2. n \in 26 .. 193 /\ (n - 26) \div 3 = c - 91 /\ (n - 26) % 3 = 0
    BY <1>5, <2>1
  <2> HIDE DEF n
  <2>3. Fed(n) = <<91 + (c - 91), 0>>
    BY <2>2 DEF Fed
  <2>4. QED
    BY <1>1, <1>5, <2>1, <2>3 DEF n
<1>6. QED
  BY <1>1, <1>2, <1>3, <1>4, <1>5

LEMMA DueOnce ==
  ASSUME NEW c \in SubComponents, NEW k \in 0 .. 1, k < Inputs(c),
         NEW d \in SubComponents, NEW l \in 0 .. 1, l < Inputs(d),
         Due(c, k) = Due(d, l)
  PROVE  c = d /\ k = l
<1>1. Fed(Due(c, k)) = <<c, k>> /\ Fed(Due(d, l)) = <<d, l>>
  BY DueBack
<1>2. QED
  BY <1>1

LEMMA DueOrder ==
  ASSUME NEW c \in SubComponents, Inputs(c) = 2
  PROVE  Due(c, 0) < Due(c, 1) /\ Last(c) = Due(c, 1)
<1>a. Inputs(c) = IF c <= 74 THEN 2 ELSE 1
  BY DueInNumbers
<1>0. c \in 3 .. 146 /\ Inputs(c) = IF c <= 74 THEN 2 ELSE 1
  BY <1>a, Families
<1>1. /\ c \in 3 .. 146 /\ c <= 74
      /\ Due(c, 0) = DueNumber(c, 0) /\ Due(c, 1) = DueNumber(c, 1)
  BY <1>0, DueInNumbers
<1>2. Due(c, 0) < Due(c, 1)
  BY <1>1 DEF DueNumber
<1>3. QED
  BY <1>2 DEF Last

\* From in numbers.
FromNumber(c, k) ==
  IF c <= 10 THEN 75 + 2 * (c - 4) + k
  ELSE IF c <= 17 THEN c - 7
  ELSE IF c = 18 THEN 89 + k
  ELSE IF c <= 74 THEN IF k = 0 THEN c + 72 ELSE IF c = 19 THEN 14 ELSE c - 1
  ELSE IF c <= 76 THEN 3
  ELSE IF c <= 90 THEN IF c \in 83 .. 84 THEN 74 ELSE 10 + ((c - 75) \div 2)
  ELSE IF c = 91 THEN 14 ELSE c - 73

LEMMA FromInNumbers ==
  ASSUME NEW c \in SubComponents, c # 3, NEW k \in 0 .. 1, k < Inputs(c)
  PROVE  /\ From(c, k) = FromNumber(c, k) /\ From(c, k) \in 3 .. 146
         /\ FromOut(c, k) \in 0 .. 1
         /\ From(c, k) > 17 /\ From(c, k) \notin 19 .. 74 => FromOut(c, k) = 0
<1>a. Inputs(c) = IF c <= 74 THEN 2 ELSE 1
  BY DueInNumbers
<1>0. c \in 4 .. 146 /\ Inputs(c) = IF c <= 74 THEN 2 ELSE 1
  BY <1>a, Families
<1>1. c > 74 => k = 0
  BY <1>0
<1>2. From(c, k) = FromNumber(c, k)
  BY <1>0, <1>1, Families
     DEF From, FromNumber, Ark, Mix, MixS, SigmaF, SigmaP
<1>3. FromNumber(c, k) \in 3 .. 146
  BY <1>0, <1>1 DEF FromNumber
<1>4. FromOut(c, k) = IF c \in 11 .. 17 \/ c \in 19 .. 74 THEN k
                      ELSE IF c \in 75 .. 90 THEN (c - 75) % 2 ELSE 0
  BY Families DEF FromOut, SigmaF
<1>5. FromOut(c, k) \in 0 .. 1
  BY <1>0, <1>4
<1>6. FromNumber(c, k) > 17 /\ FromNumber(c, k) \notin 19 .. 74
        => FromOut(c, k) = 0
  BY <1>0, <1>1, <1>4 DEF FromNumber
<1>7. QED
  BY <1>2, <1>3, <1>5, <1>6

\* What an input is a copy of is an output of a component that ran before.
LEMMA FromReady ==
  ASSUME NEW c \in SubComponents, c # 3, NEW k \in 0 .. 1, k < Inputs(c)
  PROVE  /\ From(c, k) \in SubComponents
         /\ Last(From(c, k)) < Due(c, k)
         /\ Out(From(c, k), FromOut(c, k)) \in Outs(From(c, k))
         /\ Out(From(c, k), 0) \in Outs(From(c, k))
<1>a. Inputs(c) = IF c <= 74 THEN 2 ELSE 1
  BY DueInNumbers
<1>0. c \in 4 .. 146 /\ Inputs(c) = IF c <= 74 THEN 2 ELSE 1
  BY <1>a, Families
<1>1. c > 74 => k = 0
  BY <1>0
<1> DEFINE d == From(c, k)
<1>2. d \in SubComponents /\ d \in 3 .. 146
  BY FromInNumbers, Families
<1>3. Last(d) < Due(c, k)
  <2>1. /\ Last(d) = DueNumber(d, IF d <= 74 THEN 1 ELSE 0)
        /\ Due(c, k) = DueNumber(c, k) /\ d = FromNumber(c, k)
    BY <1>2, DueInNumbers, FromInNumbers
  <2>2. CASE c \in 4 .. 18
    BY <1>0, <1>1, <1>2, <2>1, <2>2 DEF DueNumber, FromNumber
  <2>3. CASE c \in 19 .. 74
    BY <1>0, <1>1, <1>2, <2>1, <2>3 DEF DueNumber, FromNumber
  <2>4. CASE c \in 75 .. 90
    BY <1>0, <1>1, <1>2, <2>1, <2>4 DEF DueNumber, FromNumber
  <2>5. CASE c \in 91 .. 146
    BY <1>0, <1>1, <1>2, <2>1, <2>5 DEF DueNumber, FromNumber
  <2>6. QED
    BY <1>0, <2>2, <2>3, <2>4, <2>5
<1>4. Out(d, FromOut(c, k)) \in Outs(d) /\ Out(d, 0) \in Outs(d)
  <2>1. Out(d, 0) \in Outs(d)
    BY <1>2, PlacedInArray
  <2>2. CASE FromOut(c, k) = 0
    BY <2>1, <2>2
  <2>3. CASE FromOut(c, k) = 1
    <3>1. d <= 17 \/ d \in 19 .. 74
      BY <1>2, <2>3, FromInNumbers
    <3>2. d <= 74 /\ d # 18
      BY <1>2, <3>1
    <3>3. Out(d, 1) \in Outs(d)
      BY <1>2, <3>2, PlacedTwo
    <3>4. QED
      BY <2>1, <2>3, <3>3
  <2>4. QED
    BY <2>2, <2>3, FromInNumbers
<1>5. QED
  BY <1>2, <1>3, <1>4

\* What the copies have made of component c after the first n of them.
Ready(c, n, sv, cnt, ru) ==
  /\ \A k \in 0 .. 1 : k < Inputs(c) =>
       IF Due(c, k) < n
       THEN sv[In(c, k)] \in Field /\ sv[In(c, k)] = Copied(sv, c, k)
       ELSE sv[In(c, k)] = Undef
  /\ IF Last(c) < n
     THEN Computes(sv, c) /\ cnt[c] = 0 /\ ru[c] = 1
     ELSE /\ \A s \in Outs(c) : sv[s] = Undef
          /\ cnt[c] = IF Due(c, 0) < n THEN 1 ELSE Inputs(c)
          /\ ru[c] = 0

\* The signals of main and of the two hashers, once main has started.
Started(sv, cnt, ru) ==
  /\ sv \in [Signals -> Cell] /\ cnt \in [Components -> Nat]
  /\ ru \in [Components -> Nat]
  /\ \A s \in 1 .. 3 : sv[s] \in Field
  /\ sv[6] = sv[3] /\ sv[8] = sv[3] /\ sv[9] = 0
  /\ cnt[Main] = 3 /\ cnt[Poseidon] = 0 /\ cnt[PoseidonEx] = 0
  /\ ru[Poseidon] = 1 /\ ru[PoseidonEx] = 1

Filled(n, sv, cnt, ru) == /\ Started(sv, cnt, ru)
                          /\ \A c \in SubComponents : Ready(c, n, sv, cnt, ru)

LEMMA ComputesSame ==
  ASSUME NEW c \in SubComponents, NEW sv, NEW next,
         \A s \in SignalsOf(c) : next[s] = sv[s], Computes(sv, c)
  PROVE  Computes(next, c)
<1>1. c \in 3 .. 146
  BY Families
<1>2. \A s \in SignalsOf(c) : next[s] \in Field
  BY DEF Computes
<1>3. CASE c <= 74 /\ c # 18
  <2>1. /\ next[In(c, 0)] = sv[In(c, 0)] /\ next[In(c, 1)] = sv[In(c, 1)]
        /\ next[Out(c, 0)] = sv[Out(c, 0)] /\ next[Out(c, 1)] = sv[Out(c, 1)]
    BY <1>3, PlacedTwo
  <2>2. \A j \in 0 .. 1 : next[In(c, j)] = sv[In(c, j)]
                          /\ next[Out(c, j)] = sv[Out(c, j)]
    BY <2>1
  <2>3. c \notin Sigmas /\ c # MixLast
    BY <1>1, <1>3, Families
  <2>4. QED
    BY <1>2, <2>1, <2>2, <2>3 DEF Computes
<1>4. CASE c >= 75
  <2>1. /\ next[In(c, 0)] = sv[In(c, 0)] /\ next[Out(c, 0)] = sv[Out(c, 0)]
        /\ next[Out(c, 2)] = sv[Out(c, 2)] /\ next[Out(c, 3)] = sv[Out(c, 3)]
    BY <1>4, PlacedSigma
  <2>2. c \notin Arks /\ c \notin Mixes /\ c \notin MixSs /\ c # MixLast
    BY <1>1, <1>4, Families
  <2>3. QED
    BY <1>2, <2>1, <2>2 DEF Computes
<1>5. CASE c = 18
  <2>1. /\ next[In(c, 0)] = sv[In(c, 0)] /\ next[Out(c, 0)] = sv[Out(c, 0)]
        /\ next[In(c, 1)] = sv[In(c, 1)]
    BY <1>5, Families, PlacedLast
  <2>2. c \notin Arks /\ c \notin Mixes /\ c \notin MixSs /\ c \notin Sigmas
    BY <1>5, Families
  <2>3. QED
    BY <1>2, <2>1, <2>2 DEF Computes
<1>6. QED
  BY <1>1, <1>3, <1>4, <1>5

LEMMA CopiedSame ==
  ASSUME NEW c \in SubComponents, NEW k \in 0 .. 1, k < Inputs(c), NEW sv, NEW next,
         next[8] = sv[8], next[9] = sv[9],
         c # 3 => \A s \in Outs(From(c, k)) : next[s] = sv[s]
  PROVE  Copied(next, c, k) = Copied(sv, c, k)
<1>1. Ark(0) = 3 /\ signalStart[PoseidonEx] = 7
  BY Layout DEF Ark
<1>2. CASE c = 3
  BY <1>1, <1>2 DEF Copied
<1>3. CASE c # 3
  BY <1>1, <1>3, FromReady DEF Copied
<1>4. QED
  BY <1>2, <1>3

\* A copy that is due is of something written.
LEMMA CopiedReady ==
  ASSUME NEW n \in 0 .. 215, NEW sv, NEW cnt, NEW ru, Filled(n, sv, cnt, ru),
         NEW c \in SubComponents, NEW k \in 0 .. 1, k < Inputs(c), Due(c, k) <= n
  PROVE  Copied(sv, c, k) \in Field
<1>1. Ark(0) = 3 /\ signalStart[PoseidonEx] = 7
  BY Layout DEF Ark
<1>2. CASE c = 3
  <2>1. sv[8] \in Field /\ sv[9] \in Field
    BY Arithmetic DEF Filled, Started, Field
  <2>2. QED
    BY <1>1, <1>2, <2>1 DEF Copied
<1>3. CASE c # 3
  <2> DEFINE d == From(c, k)
  <2>1. /\ d \in SubComponents /\ Last(d) < Due(c, k)
        /\ Out(d, FromOut(c, k)) \in Outs(d) /\ Out(d, 0) \in Outs(d)
    BY <1>3, FromReady
  <2>2. Due(c, k) \in 0 .. 215 /\ Last(d) \in Int
    <3>1. Last(d) = DueNumber(d, IF d <= 74 THEN 1 ELSE 0)
          /\ d \in 3 .. 146
      BY <2>1, DueInNumbers, Families
    <3>2. QED
      BY <3>1, DueInNumbers DEF DueNumber
  <2> HIDE DEF d
  <2>3. Last(d) < n
    BY <2>1, <2>2
  <2>4. Computes(sv, d)
    BY <2>1, <2>3 DEF Filled, Ready
  <2>5. sv[Out(d, FromOut(c, k))] \in Field /\ sv[Out(d, 0)] \in Field
    BY <2>1, <2>4, PlacedInArray DEF Computes
  <2>6. c \in MixSs => C[10 + (c - MixS(0))] \in Field
    BY ConstantsInField, Families DEF MixS
  <2>7. c \in MixSs => Add(sv[Out(d, 0)], C[10 + (c - MixS(0))]) \in Field
    BY <2>5, <2>6, Arithmetic
  <2>8. QED
    BY <1>1, <1>3, <2>5, <2>7 DEF Copied, d
<1>4. QED
  BY <1>2, <1>3

LEMMA DueLast ==
  ASSUME NEW c \in SubComponents
  PROVE  /\ Last(c) \in 0 .. 215 /\ Inputs(c) \in 1 .. 2
         /\ \A k \in 0 .. 1 : Due(c, k) \in 0 .. 215
                              /\ (k < Inputs(c) => Due(c, k) <= Last(c))
<1>1. \A k \in 0 .. 1 : Due(c, k) \in 0 .. 215
                        /\ (k < Inputs(c) => Due(c, k) <= Last(c))
  BY DueInNumbers
<1>2. Inputs(c) \in 1 .. 2
  BY PlacedInArray
<1>3. QED
  BY <1>1, <1>2 DEF Last

\* The signals after v is copied to input k of c.
Fill(c, k, v, sv, cnt) ==
  LET new == [sv EXCEPT ![In(c, k)] = v]
  IN  IF cnt[c] = 1 THEN Run(c, new) ELSE new

\* The step that is due writes one input, and the outputs of the component if
\* that was the last; nothing written changes.
Written(n, c, k, sv, cnt, next) ==
  /\ next \in [Signals -> Cell]
  /\ \A s \in Signals \ (Outs(c) \cup {In(c, k)}) : next[s] = sv[s]
  /\ next[In(c, k)] = Copied(sv, c, k)
  /\ \A s \in Outs(c) \cup {In(c, k)} : sv[s] = Undef
  /\ cnt[c] = 1 <=> Last(c) = n
  /\ IF Last(c) = n THEN Computes(next, c)
     ELSE Due(c, 0) = n /\ Inputs(c) = 2 /\ \A s \in Outs(c) : next[s] = sv[s]

LEMMA FillWrites ==
  ASSUME NEW n \in 0 .. 215, NEW sv, NEW cnt, NEW ru, Filled(n, sv, cnt, ru),
         NEW c \in SubComponents, NEW k \in 0 .. 1, k < Inputs(c), Due(c, k) = n,
         NEW next, next = Fill(c, k, Copied(sv, c, k), sv, cnt)
  PROVE  Written(n, c, k, sv, cnt, next)
<1> USE DEF Written
<1> DEFINE v == Copied(sv, c, k)
           new == [sv EXCEPT ![In(c, k)] = v]
           own == Outs(c) \cup {In(c, k)}
<1>1. v \in Field
  BY CopiedReady
<1> HIDE DEF v
<1>2. /\ sv \in [Signals -> Cell] /\ Ready(c, n, sv, cnt, ru)
  BY DEF Filled, Started
<1>3. /\ Last(c) \in 0 .. 215 /\ Inputs(c) \in 1 .. 2 /\ n <= Last(c)
      /\ Due(c, 0) \in 0 .. 215
  BY DueLast
<1>4. /\ In(c, k) \in Signals /\ In(c, k) \notin Outs(c) /\ Outs(c) \subseteq Signals
      /\ \A i \in 0 .. Inputs(c) - 1 : In(c, i) \in Signals /\ In(c, i) \notin Outs(c)
  BY <1>3, PlacedInArray
<1>5. \A s \in own : sv[s] = Undef
  <2>1. sv[In(c, k)] = Undef
    BY <1>2, <1>3 DEF Ready
  <2>2. \A s \in Outs(c) : sv[s] = Undef
    BY <1>2, <1>3 DEF Ready
  <2>3. QED
    BY <2>1, <2>2
<1>6. cnt[c] = IF Due(c, 0) < n THEN 1 ELSE Inputs(c)
  BY <1>2, <1>3 DEF Ready
<1>7. CASE Inputs(c) = 2
  <2>1. Due(c, 0) < Due(c, 1) /\ Last(c) = Due(c, 1)
    BY <1>7, DueOrder
  <2>2. CASE k = 0
    <3>1. Due(c, 0) = n /\ cnt[c] = 2 /\ Last(c) # n
      BY <1>3, <1>6, <1>7, <2>1, <2>2
    <3>2. next = new
      BY <3>1 DEF Fill, v
    <3>3. new \in [Signals -> Cell]
      BY <1>1, <1>2, <1>4 DEF Cell
    <3>4. /\ \A s \in Signals \ own : new[s] = sv[s]
          /\ new[In(c, k)] = v
          /\ \A s \in Outs(c) : new[s] = sv[s]
      BY <1>2, <1>4
    <3> HIDE DEF new
    <3>5. QED
      BY <1>5, <1>7, <3>1, <3>2, <3>3, <3>4 DEF v
  <2>3. CASE k = 1
    <3>1. Due(c, 0) < n /\ cnt[c] = 1 /\ Last(c) = n
      BY <1>3, <1>6, <1>7, <2>1, <2>3
    <3>2. next = Run(c, new)
      BY <3>1 DEF Fill, v
    <3>3. sv[In(c, 0)] \in Field
      BY <1>2, <1>3, <1>7, <3>1 DEF Ready
    <3>4. new \in [Signals -> Cell] /\ new[In(c, 1)] \in Field
          /\ new[In(c, 0)] \in Field
      BY <1>1, <1>2, <1>3, <1>4, <1>7, <2>3, <3>3 DEF Cell
    <3>5. InputsThere(c, new)
      <4>1. \A i \in 0 .. Inputs(c) - 1 : i = 0 \/ i = 1
        BY <1>7
      <4>2. QED
        BY <3>4, <4>1 DEF InputsThere
    <3>6. Runs(c, new)
      BY <3>5, ComponentRuns
    <3>7. new[In(c, k)] = v /\ \A s \in Signals \ {In(c, k)} : new[s] = sv[s]
      BY <1>2, <1>4
    <3> HIDE DEF new
    <3>8. QED
      BY <1>4, <1>5, <3>1, <3>2, <3>6, <3>7 DEF Runs, v
  <2>4. QED
    BY <2>2, <2>3
<1>8. CASE Inputs(c) = 1
  <2>1. k = 0
    BY <1>8
  <2>2. Last(c) = n /\ cnt[c] = 1
    BY <1>3, <1>6, <1>8, <2>1 DEF Last
  <2>3. next = Run(c, new)
    BY <2>2 DEF Fill, v
  <2>4. new \in [Signals -> Cell] /\ new[In(c, 0)] \in Field
    BY <1>1, <1>2, <1>4, <2>1 DEF Cell
  <2>5. InputsThere(c, new)
    <3>1. \A i \in 0 .. Inputs(c) - 1 : i = 0
      BY <1>8
    <3>2. QED
      BY <2>4, <3>1 DEF InputsThere
  <2>6. Runs(c, new)
    BY <2>5, ComponentRuns
  <2>7. new[In(c, k)] = v /\ \A s \in Signals \ {In(c, k)} : new[s] = sv[s]
    BY <1>2, <1>4
  <2> HIDE DEF new
  <2>8. QED
    BY <1>4, <1>5, <2>2, <2>3, <2>6, <2>7 DEF Runs, v
<1>9. QED
  BY <1>3, <1>7, <1>8

\* One copy, as Feed makes it.
Filling(c, k, sv, cnt, ru, next, left, ran) ==
  /\ next = Fill(c, k, Copied(sv, c, k), sv, cnt)
  /\ left = [cnt EXCEPT ![c] = @ - 1]
  /\ ran = [ru EXCEPT ![c] = @ + (IF cnt[c] = 1 THEN 1 ELSE 0)]

\* It makes n + 1 copies of n, and changes nothing that has a value.
Grown(n, sv, next, left, ran) ==
  /\ Filled(n + 1, next, left, ran)
  /\ \A s \in Signals : sv[s] # Undef => next[s] = sv[s]
  /\ \A s \in 0 .. 9 : next[s] = sv[s]

LEMMA FillKeeps ==
  ASSUME NEW n \in 0 .. 215, NEW sv, NEW cnt, NEW ru, Filled(n, sv, cnt, ru),
         NEW c \in SubComponents, NEW k \in 0 .. 1, k < Inputs(c), Due(c, k) = n,
         NEW next, NEW left, NEW ran, Filling(c, k, sv, cnt, ru, next, left, ran)
  PROVE  Grown(n, sv, next, left, ran)
<1> DEFINE own == Outs(c) \cup {In(c, k)}
<1>1. /\ next \in [Signals -> Cell]
      /\ \A s \in Signals \ own : next[s] = sv[s]
      /\ next[In(c, k)] = Copied(sv, c, k)
      /\ \A s \in own : sv[s] = Undef
      /\ cnt[c] = 1 <=> Last(c) = n
      /\ IF Last(c) = n THEN Computes(next, c)
         ELSE Due(c, 0) = n /\ Inputs(c) = 2 /\ \A s \in Outs(c) : next[s] = sv[s]
  <2>1. Written(n, c, k, sv, cnt, next)
    BY FillWrites DEF Filling
  <2>2. QED
    BY <2>1 DEF Written
<1>2. /\ Started(sv, cnt, ru) /\ \A d \in SubComponents : Ready(d, n, sv, cnt, ru)
  BY DEF Filled
<1>3. /\ own \subseteq SignalsOf(c)
      /\ \A d \in SubComponents : SignalsOf(d) \subseteq 10 .. 584
                                  /\ SignalsOf(d) \subseteq Signals
  BY PlacedInArray
<1>4. \A s \in Signals : sv[s] # Undef => next[s] = sv[s]
  BY <1>1
<1>5. \A s \in 0 .. 9 : next[s] = sv[s]
  <2>1. \A s \in 0 .. 9 : s \in Signals /\ s \notin 10 .. 584
    BY DEF Signals
  <2>2. own \subseteq 10 .. 584
    BY <1>3
  <2> HIDE DEF own
  <2>3. QED
    BY <1>1, <2>1, <2>2
<1>6. ASSUME NEW d \in SubComponents, d # c
      PROVE  \A s \in SignalsOf(d) : next[s] = sv[s]
  BY <1>1, <1>3, <1>6, Disjoint
<1>7. /\ Last(c) \in 0 .. 215 /\ Inputs(c) \in 1 .. 2 /\ n <= Last(c)
  BY DueLast
<1>8. ASSUME NEW d \in SubComponents, NEW l \in 0 .. 1, l < Inputs(d),
             Due(d, l) <= n
      PROVE  /\ Copied(next, d, l) = Copied(sv, d, l)
             /\ Copied(sv, d, l) \in Field
  <2>1. Copied(sv, d, l) \in Field
    BY <1>8, CopiedReady
  <2>2. next[8] = sv[8] /\ next[9] = sv[9]
    BY <1>5
  <2>3. d # 3 => \A s \in Outs(From(d, l)) : next[s] = sv[s]
    <3>1. SUFFICES ASSUME d # 3
                   PROVE  \A s \in Outs(From(d, l)) : next[s] = sv[s]
      OBVIOUS
    <3>2. From(d, l) \in SubComponents /\ Last(From(d, l)) < Due(d, l)
      BY <1>8, <3>1, FromReady
    <3>3. Last(From(d, l)) \in 0 .. 215 /\ Due(d, l) \in 0 .. 215
      BY <3>2, DueLast
    <3>4. From(d, l) # c
      BY <1>7, <1>8, <3>2, <3>3
    <3>5. QED
      BY <1>6, <3>2, <3>4, PlacedInArray
  <2>4. QED
    BY <1>8, <2>1, <2>2, <2>3, CopiedSame
<1>9. /\ c \in Components /\ SubComponents \subseteq Components
      /\ cnt \in [Components -> Nat] /\ ru \in [Components -> Nat]
      /\ left \in [Components -> Int] /\ ran \in [Components -> Nat]
      /\ left[c] = cnt[c] - 1 /\ ran[c] = ru[c] + (IF cnt[c] = 1 THEN 1 ELSE 0)
      /\ \A d \in Components : d # c => left[d] = cnt[d] /\ ran[d] = ru[d]
  <2>1. c \in Components /\ SubComponents \subseteq Components
    BY Families
  <2>2. cnt \in [Components -> Nat] /\ ru \in [Components -> Nat]
    BY <1>2 DEF Started
  <2>3. left = [cnt EXCEPT ![c] = cnt[c] - 1]
        /\ ran = [ru EXCEPT ![c] = ru[c] + (IF cnt[c] = 1 THEN 1 ELSE 0)]
    BY DEF Filling
  <2>4. cnt[c] \in Nat /\ ru[c] \in Nat
    BY <2>1, <2>2
  <2>5. QED
    BY <2>1, <2>2, <2>3, <2>4
<1>10. Started(next, left, ran)
  <2>1. c \in 3 .. 146 /\ SubComponents \subseteq Components
    BY Families
  <2>2. cnt[c] # 0 /\ cnt[c] \in Nat /\ ru[c] \in Nat
    <3>1. Ready(c, n, sv, cnt, ru) /\ ~ (Last(c) < n)
      BY <1>2, <1>7
    <3>2. cnt[c] = 1 \/ cnt[c] = Inputs(c)
      BY <3>1 DEF Ready
    <3>3. cnt[c] # 0
      BY <1>7, <3>2
    <3>4. QED
      BY <1>9, <3>3
  <2>3. left \in [Components -> Nat]
    <3>1. \A d \in Components : left[d] \in Nat
      <4>1. left[c] \in Nat
        BY <1>9, <2>2
      <4>2. QED
        BY <1>9, <4>1
    <3>2. QED
      BY <1>9, <3>1
  <2>4. \A d \in Components : d # c => left[d] = cnt[d] /\ ran[d] = ru[d]
    BY <1>9
  <2>5. /\ Main \in Components /\ Poseidon \in Components /\ PoseidonEx \in Components
        /\ Main # c /\ Poseidon # c /\ PoseidonEx # c
    BY <2>1, Families DEF Main, Poseidon, PoseidonEx
  <2>6. QED
    BY <1>1, <1>2, <1>5, <1>9, <2>3, <2>4, <2>5 DEF Started
<1>11. ASSUME NEW d \in SubComponents, d # c
       PROVE  Ready(d, n + 1, next, left, ran)
  <2>1. left[d] = cnt[d] /\ ran[d] = ru[d]
    BY <1>9, <1>11
  <2>2. Ready(d, n, sv, cnt, ru) /\ \A s \in SignalsOf(d) : next[s] = sv[s]
    BY <1>2, <1>6, <1>11
  <2>3. /\ Last(d) \in 0 .. 215 /\ Inputs(d) \in 1 .. 2
        /\ \A l \in 0 .. 1 : Due(d, l) \in 0 .. 215
    BY DueLast
  <2>4. \A l \in 0 .. 1 : l < Inputs(d) => Due(d, l) # n
    BY <1>11, DueOnce
  <2>5. Due(d, 0) # n /\ Last(d) # n
    BY <2>3, <2>4 DEF Last
  <2>6. ASSUME NEW l \in 0 .. 1, l < Inputs(d)
        PROVE  IF Due(d, l) < n + 1
               THEN next[In(d, l)] \in Field /\ next[In(d, l)] = Copied(next, d, l)
               ELSE next[In(d, l)] = Undef
    <3>1. next[In(d, l)] = sv[In(d, l)]
      BY <2>2, <2>3, <2>6, PlacedInArray
    <3>2. Due(d, l) < n + 1 <=> Due(d, l) < n
      BY <2>3, <2>4, <2>6
    <3>3. IF Due(d, l) < n
          THEN sv[In(d, l)] \in Field /\ sv[In(d, l)] = Copied(sv, d, l)
          ELSE sv[In(d, l)] = Undef
      BY <2>2, <2>6 DEF Ready
    <3>4. Due(d, l) < n => Copied(next, d, l) = Copied(sv, d, l)
      BY <1>8, <2>3, <2>6
    <3>5. QED
      BY <3>1, <3>2, <3>3, <3>4
  <2>7. /\ Last(d) < n + 1 <=> Last(d) < n
        /\ Due(d, 0) < n + 1 <=> Due(d, 0) < n
    BY <2>3, <2>5
  <2>8. Last(d) < n => Computes(next, d)
    BY <2>2, ComputesSame DEF Ready
  <2>9. ~ (Last(d) < n) => \A s \in Outs(d) : next[s] = Undef
    BY <2>2, PlacedInArray DEF Ready
  <2>10. QED
    BY <2>1, <2>2, <2>6, <2>7, <2>8, <2>9 DEF Ready
<1>12. Ready(c, n + 1, next, left, ran)
  <2>1. left[c] = cnt[c] - 1 /\ ran[c] = ru[c] + (IF cnt[c] = 1 THEN 1 ELSE 0)
    BY <1>9
  <2>2. /\ \A l \in 0 .. 1 : Due(c, l) \in 0 .. 215
        /\ Ready(c, n, sv, cnt, ru)
    BY <1>2, DueLast
  <2>3. ASSUME NEW l \in 0 .. 1, l < Inputs(c)
        PROVE  IF Due(c, l) < n + 1
               THEN next[In(c, l)] \in Field /\ next[In(c, l)] = Copied(next, c, l)
               ELSE next[In(c, l)] = Undef
    <3>1. CASE l = k
      BY <1>1, <1>8, <3>1, <2>3
    <3>2. CASE l # k
      <4>1. Due(c, l) # n
        BY <2>3, <3>2, DueOnce
      <4>2. Inputs(c) = 2
        BY <1>7, <2>3, <3>2
      <4>3. In(c, l) # In(c, k) /\ In(c, l) \notin Outs(c) /\ In(c, l) \in Signals
        <5>1. In(c, l) \notin Outs(c) /\ In(c, l) \in Signals
          BY <1>7, <2>3, PlacedInArray
        <5>2. signalStart[c] \in 10 .. 581
          BY Placed
        <5>3. InputOffset(c) \in 0 .. 2
          BY DEF InputOffset
        <5>4. In(c, l) # In(c, k)
          BY <5>2, <5>3, <3>2 DEF In
        <5>5. QED
          BY <5>1, <5>4
      <4>4. next[In(c, l)] = sv[In(c, l)]
        BY <1>1, <4>3
      <4>5. IF Due(c, l) < n
            THEN sv[In(c, l)] \in Field /\ sv[In(c, l)] = Copied(sv, c, l)
            ELSE sv[In(c, l)] = Undef
        BY <2>2, <2>3 DEF Ready
      <4>6. Due(c, l) < n + 1 <=> Due(c, l) < n
        BY <2>2, <4>1
      <4>7. Due(c, l) < n => Copied(next, c, l) = Copied(sv, c, l)
        BY <1>8, <2>2, <2>3
      <4>8. QED
        BY <4>4, <4>5, <4>6, <4>7
    <3>3. QED
      BY <3>1, <3>2
  <2>4. ru[c] = 0
    BY <1>7, <2>2 DEF Ready
  <2>5. CASE Last(c) = n
    <3>1. cnt[c] = 1 /\ Computes(next, c)
      BY <1>1, <2>5
    <3>2. left[c] = 0 /\ ran[c] = 1
      BY <2>1, <2>4, <3>1
    <3>3. Last(c) < n + 1
      BY <2>5
    <3>4. QED
      BY <2>3, <3>1, <3>2, <3>3 DEF Ready
  <2>6. CASE Last(c) # n
    <3>1. /\ Due(c, 0) = n /\ Inputs(c) = 2 /\ cnt[c] # 1
          /\ \A s \in Outs(c) : next[s] = Undef
      BY <1>1, <2>6
    <3>2. ~ (Last(c) < n + 1) /\ Due(c, 0) < n + 1
      BY <1>7, <2>6, <3>1
    <3>3. cnt[c] = 2
      <4>1. ~ (Last(c) < n)
        BY <1>7
      <4>2. cnt[c] = IF Due(c, 0) < n THEN 1 ELSE Inputs(c)
        BY <2>2, <4>1, Zenon DEF Ready
      <4>3. QED
        BY <3>1, <4>2
    <3>4. left[c] = 1 /\ ran[c] = 0
      BY <2>1, <2>4, <3>3
    <3>5. QED
      BY <2>3, <3>1, <3>2, <3>4 DEF Ready
  <2>7. QED
    BY <2>5, <2>6
<1>13. QED
  BY <1>4, <1>5, <1>10, <1>11, <1>12 DEF Filled, Grown

-----------------------------------------------------------------------------
(***************************************************************************)
(* The run.  The position of the loops tells how many copies were made.    *)
(***************************************************************************)
\* What the components above the permutation have done after step n: after the
\* 216 copies, each of the three ends.
Ended(n, sv, rel) ==
  /\ sv[7] = IF n > 216 THEN sv[70] ELSE Undef
  /\ sv[5] = IF n > 217 THEN sv[7] ELSE Undef
  /\ IF n > 218 THEN sv[1] = sv[5] /\ sv[4] = Mul(sv[2], sv[2]) ELSE sv[4] = Undef
  /\ rel = (IF n > 216 THEN SubComponents ELSE {})
             \cup (IF n > 217 THEN {PoseidonEx} ELSE {})
             \cup (IF n > 218 THEN {Poseidon} ELSE {})

Running(n) == /\ Filled(n, signalValues, inputCounter, runs)
              /\ Ended(n, signalValues, released)

\* Main waits for its inputs; nothing else has been created.
Waiting == /\ signalValues \in [Signals -> Cell]
           /\ \A s \in 4 .. 584 : signalValues[s] = Undef
           /\ inputCounter = <<>> /\ runs = [c \in Components |-> 0]
           /\ released = {}

Loops == {"idle", "first", "sigma", "ark", "mix", "sigma3", "ark4", "mix3",
          "sigmaP", "mixS", "sigma4", "ark5", "mix4", "sigma7", "mixLast",
          "endEx", "endPoseidon", "endMain", "done", "abort"}

\* The position of the loops after step n; -1 before the first.
Position(p, n) ==
  /\ p \in [loop : Loops, r : 0 .. 55, j : 0 .. 1]
  /\ p.loop \in {"sigma", "ark", "mix", "sigma4", "ark5", "mix4"} => p.r <= 2
  /\ p.loop = "idle"    => n = -1
  /\ p.loop = "first"   => n = p.j
  /\ p.loop = "sigma"   => n = 2 + 6 * p.r + p.j
  /\ p.loop = "ark"     => n = 4 + 6 * p.r + p.j
  /\ p.loop = "mix"     => n = 6 + 6 * p.r + p.j
  /\ p.loop = "sigma3"  => n = 20 + p.j
  /\ p.loop = "ark4"    => n = 22 + p.j
  /\ p.loop = "mix3"    => n = 24 + p.j
  /\ p.loop = "sigmaP"  => n = 26 + 3 * p.r /\ p.j = 0
  /\ p.loop = "mixS"    => n = 27 + 3 * p.r + p.j
  /\ p.loop = "sigma4"  => n = 194 + 6 * p.r + p.j
  /\ p.loop = "ark5"    => n = 196 + 6 * p.r + p.j
  /\ p.loop = "mix4"    => n = 198 + 6 * p.r + p.j
  /\ p.loop = "sigma7"  => n = 212 + p.j
  /\ p.loop = "mixLast" => n = 214 + p.j
  /\ p.loop = "endEx"       => n = 216
  /\ p.loop = "endPoseidon" => n = 217
  /\ p.loop = "endMain"     => n = 218
  /\ p.loop = "done"        => n = 219
  /\ p.loop = "abort"       => n \in {-1, 218, 219}

CircuitInv ==
  \E n \in -1 .. 219 : Position(at, n) /\ IF n = -1 THEN Waiting ELSE Running(n)

\* No signal that has a value gets another.
Keeps == \A s \in Signals : signalValues[s] # Undef
                              => signalValues'[s] = signalValues[s]

\* The copy that is due is made.
Copies(n) ==
  /\ n \in 0 .. 215
  /\ \E c \in SubComponents, k \in 0 .. 1 :
       k < Inputs(c) /\ Due(c, k) = n /\ Feed(c, k, Copied(signalValues, c, k))

LEMMA CopiesKeeps ==
  ASSUME NEW n \in 0 .. 215, Running(n), Copies(n)
  PROVE  Running(n + 1)' /\ Keeps
<1>1. PICK c \in SubComponents, k \in 0 .. 1 :
        k < Inputs(c) /\ Due(c, k) = n /\ Feed(c, k, Copied(signalValues, c, k))
  BY DEF Copies
<1>2. /\ Filling(c, k, signalValues, inputCounter, runs,
                 signalValues', inputCounter', runs')
      /\ released' = released
  BY <1>1 DEF Feed, Fill, Filling
<1>3. Filled(n, signalValues, inputCounter, runs)
  BY DEF Running
<1>4. Grown(n, signalValues, signalValues', inputCounter', runs')
  BY <1>1, <1>2, <1>3, FillKeeps
<1>5. Ended(n + 1, signalValues', released')
  BY <1>2, <1>4 DEF Running, Ended, Grown
<1>6. QED
  BY <1>4, <1>5 DEF Running, Keeps, Grown

LEMMA CopiedInNumbers ==
  ASSUME NEW sv, NEW c \in SubComponents, NEW k \in 0 .. 1, k < Inputs(c)
  PROVE  Copied(sv, c, k) =
           IF c = 3 THEN sv[7 + (IF k > 0 THEN 1 ELSE 2)]
           ELSE IF c \in 19 .. 74 /\ k = 0
           THEN Add(sv[Out(FromNumber(c, k), 0)], C[10 + (c - 19)])
           ELSE sv[Out(FromNumber(c, k),
                       IF c \in 11 .. 17 \/ c \in 19 .. 74 THEN k
                       ELSE IF c \in 75 .. 90 THEN (c - 75) % 2 ELSE 0)]
<1>1. Ark(0) = 3 /\ MixS(0) = 19 /\ signalStart[PoseidonEx] = 7 /\ MixSs = 19 .. 74
  BY Layout, Families DEF Ark, MixS
<1>2. CASE c = 3
  BY <1>1, <1>2 DEF Copied
<1>3. CASE c # 3
  <2>1. From(c, k) = FromNumber(c, k)
    BY <1>3, FromInNumbers
  <2>2. FromOut(c, k) = IF c \in 11 .. 17 \/ c \in 19 .. 74 THEN k
                        ELSE IF c \in 75 .. 90 THEN (c - 75) % 2 ELSE 0
    BY Families DEF FromOut, SigmaF
  <2>3. QED
    BY <1>1, <1>3, <2>1, <2>2 DEF Copied
<1>4. QED
  BY <1>2, <1>3

\* The same, one family of components at a time.
LEMMA CopiedFirst ==
  ASSUME NEW sv, NEW k \in 0 .. 1
  PROVE  Copied(sv, 3, k) = sv[7 + (IF k > 0 THEN 1 ELSE 2)]
<1>1. 3 \in SubComponents /\ Inputs(3) = 2
  BY Families, PlacedTwo
<1>2. QED
  BY <1>1, CopiedInNumbers

LEMMA CopiedToArk ==
  ASSUME NEW sv, NEW c \in 4 .. 10, NEW k \in 0 .. 1
  PROVE  Copied(sv, c, k) = sv[Out(FromNumber(c, k), 0)]
<1>1. c \in SubComponents /\ Inputs(c) = 2
  BY Families, PlacedTwo
<1>2. QED
  BY <1>1, CopiedInNumbers

LEMMA CopiedToMix ==
  ASSUME NEW sv, NEW c \in 11 .. 17, NEW k \in 0 .. 1
  PROVE  Copied(sv, c, k) = sv[Out(FromNumber(c, k), k)]
<1>1. c \in SubComponents /\ Inputs(c) = 2
  BY Families, PlacedTwo
<1>2. QED
  BY <1>1, CopiedInNumbers

LEMMA CopiedToLast ==
  ASSUME NEW sv, NEW k \in 0 .. 1
  PROVE  Copied(sv, 18, k) = sv[Out(FromNumber(18, k), 0)]
<1>1. 18 \in SubComponents /\ Inputs(18) = 2
  BY Families, PlacedLast
<1>2. QED
  BY <1>1, CopiedInNumbers

LEMMA CopiedToMixS ==
  ASSUME NEW sv, NEW c \in 19 .. 74
  PROVE  /\ Copied(sv, c, 0) = Add(sv[Out(FromNumber(c, 0), 0)], C[10 + (c - 19)])
         /\ Copied(sv, c, 1) = sv[Out(FromNumber(c, 1), 1)]
<1>1. c \in SubComponents /\ Inputs(c) = 2
  BY Families, PlacedTwo
<1>2. QED
  BY <1>1, CopiedInNumbers

LEMMA CopiedToSigma ==
  ASSUME NEW sv, NEW c \in 75 .. 146
  PROVE  Copied(sv, c, 0) =
           sv[Out(FromNumber(c, 0), IF c <= 90 THEN (c - 75) % 2 ELSE 0)]
<1>1. c \in SubComponents /\ Inputs(c) = 1
  BY Families, PlacedSigma
<1>2. c \notin 11 .. 17 /\ c \notin 19 .. 74 /\ (c \in 75 .. 90 <=> c <= 90) /\ c # 3
  OBVIOUS
<1>3. QED
  BY <1>1, <1>2, CopiedInNumbers

\* The body of each loop makes the copy that is due, and leaves the loops at the
\* next.
LEMMA LoopsCopy ==
  ASSUME NEW n \in -1 .. 219, Position(at, n), CircuitStep,
         ~ EndPoseidonEx, ~ EndPoseidon, ~ EndMain
  PROVE  Copies(n) /\ Position(at', n + 1)
<1>0. at \in [loop : Loops, r : 0 .. 55, j : 0 .. 1]
  BY DEF Position
<1>1. CASE FirstArk
  <2> DEFINE c == Ark(0)
  <2>1. at.loop = "first" /\ at.r \in 0 .. 55 /\ at.j \in 0 .. 1 /\ n = at.j
    BY <1>0, <1>1 DEF FirstArk, At, Position
  <2>2. c = 3 /\ c \in SubComponents
    BY <2>1, Families DEF Ark
  <2>3. Inputs(c) = 2 /\ Due(c, at.j) = n
    <3>1. Inputs(c) = 2 /\ Due(c, at.j) = DueNumber(c, at.j)
      BY <2>1, <2>2, DueInNumbers
    <3>2. QED
      BY <2>1, <2>2, <3>1 DEF DueNumber
  <2>4. Feed(c, at.j, Copied(signalValues, c, at.j))
    <3>1. Copied(signalValues, c, at.j)
            = signalValues[7 + (IF at.j > 0 THEN 1 ELSE 2)]
      BY <2>1, <2>2, CopiedFirst
    <3>2. QED
      BY <1>1, <3>1, Layout DEF FirstArk
  <2>5. Position(at', n + 1)
    BY <1>0, <1>1, <2>1 DEF FirstArk, Then, Position, Loops
  <2>6. n \in 0 .. 215
    BY <2>1
  <2> HIDE DEF c
  <2>7. QED
    BY <2>1, <2>2, <2>3, <2>4, <2>5, <2>6 DEF Copies
<1>2. CASE FullSigma
  <2> DEFINE c == SigmaF(at.r, at.j)
  <2>1. at.loop = "sigma" /\ at.r \in 0 .. 2 /\ at.j \in 0 .. 1 /\ n = 2 + 6 * at.r + at.j
    BY <1>0, <1>2 DEF FullSigma, At, Position
  <2>2. c = 75 + 2 * at.r + at.j /\ c \in SubComponents
    BY <2>1, Families DEF SigmaF
  <2>3. Inputs(c) = 1 /\ Due(c, 0) = n
    <3>1. Inputs(c) = 1 /\ Due(c, 0) = DueNumber(c, 0)
      BY <2>1, <2>2, DueInNumbers
    <3>2. QED
      BY <2>1, <2>2, <3>1 DEF DueNumber
  <2>4. Feed(c, 0, Copied(signalValues, c, 0))
    <3>1. /\ (c - 75) % 2 = at.j /\ (c - 75) \div 2 = at.r /\ c \in 75 .. 80
          /\ c <= 76 <=> at.r = 0
      BY <2>1, <2>2
    <3>2. Copied(signalValues, c, 0) = signalValues[Out(FromNumber(c, 0), at.j)]
      BY <3>1, CopiedToSigma
    <3>3. FromNumber(c, 0) = IF at.r = 0 THEN Ark(0) ELSE Mix(at.r - 1)
      BY <2>1, <3>1 DEF FromNumber, Ark, Mix
    <3>4. QED
      BY <1>2, <3>2, <3>3 DEF FullSigma
  <2>5. Position(at', n + 1)
    BY <1>0, <1>2, <2>1 DEF FullSigma, Then, Position, Loops
  <2>6. n \in 0 .. 215
    BY <2>1
  <2> HIDE DEF c
  <2>7. QED
    BY <2>1, <2>2, <2>3, <2>4, <2>5, <2>6 DEF Copies
<1>3. CASE FullArk
  <2> DEFINE c == Ark(at.r + 1)
  <2>1. at.loop = "ark" /\ at.r \in 0 .. 2 /\ at.j \in 0 .. 1 /\ n = 4 + 6 * at.r + at.j
    BY <1>0, <1>3 DEF FullArk, At, Position
  <2>2. c = 4 + at.r /\ c \in SubComponents
    BY <2>1, Families DEF Ark
  <2>3. Inputs(c) = 2 /\ Due(c, at.j) = n
    <3>1. Inputs(c) = 2 /\ Due(c, at.j) = DueNumber(c, at.j)
      BY <2>1, <2>2, DueInNumbers
    <3>2. QED
      BY <2>1, <2>2, <3>1 DEF DueNumber
  <2>4. Feed(c, at.j, Copied(signalValues, c, at.j))
    <3>1. FromNumber(c, at.j) = SigmaF(at.r, at.j) /\ c \in 4 .. 6
      BY <2>1, <2>2 DEF FromNumber, SigmaF
    <3>2. Copied(signalValues, c, at.j) = signalValues[Out(FromNumber(c, at.j), 0)]
      BY <2>1, <3>1, CopiedToArk
    <3>3. QED
      BY <1>3, <3>1, <3>2 DEF FullArk
  <2>5. Position(at', n + 1)
    BY <1>0, <1>3, <2>1 DEF FullArk, Then, Position, Loops
  <2>6. n \in 0 .. 215
    BY <2>1
  <2> HIDE DEF c
  <2>7. QED
    BY <2>1, <2>2, <2>3, <2>4, <2>5, <2>6 DEF Copies
<1>4. CASE FullMix
  <2> DEFINE c == Mix(at.r)
  <2>1. at.loop = "mix" /\ at.r \in 0 .. 2 /\ at.j \in 0 .. 1 /\ n = 6 + 6 * at.r + at.j
    BY <1>0, <1>4 DEF FullMix, At, Position
  <2>2. c = 11 + at.r /\ c \in SubComponents
    BY <2>1, Families DEF Mix
  <2>3. Inputs(c) = 2 /\ Due(c, at.j) = n
    <3>1. Inputs(c) = 2 /\ Due(c, at.j) = DueNumber(c, at.j)
      BY <2>1, <2>2, DueInNumbers
    <3>2. QED
      BY <2>1, <2>2, <3>1 DEF DueNumber
  <2>4. Feed(c, at.j, Copied(signalValues, c, at.j))
    <3>1. FromNumber(c, at.j) = Ark(at.r + 1) /\ c \in 11 .. 13
      BY <2>1, <2>2 DEF FromNumber, Ark
    <3>2. Copied(signalValues, c, at.j)
            = signalValues[Out(FromNumber(c, at.j), at.j)]
      BY <2>1, <3>1, CopiedToMix
    <3>3. QED
      BY <1>4, <3>1, <3>2 DEF FullMix
  <2>5. Position(at', n + 1)
    BY <1>0, <1>4, <2>1 DEF FullMix, Then, Position, Loops
  <2>6. n \in 0 .. 215
    BY <2>1
  <2> HIDE DEF c
  <2>7. QED
    BY <2>1, <2>2, <2>3, <2>4, <2>5, <2>6 DEF Copies
<1>5. CASE FourthSigma
  <2> DEFINE c == SigmaF(3, at.j)
  <2>1. at.loop = "sigma3" /\ at.r \in 0 .. 55 /\ at.j \in 0 .. 1 /\ n = 20 + at.j
    BY <1>0, <1>5 DEF FourthSigma, At, Position
  <2>2. c = 81 + at.j /\ c \in SubComponents
    BY <2>1, Families DEF SigmaF
  <2>3. Inputs(c) = 1 /\ Due(c, 0) = n
    <3>1. Inputs(c) = 1 /\ Due(c, 0) = DueNumber(c, 0)
      BY <2>1, <2>2, DueInNumbers
    <3>2. QED
      BY <2>1, <2>2, <3>1 DEF DueNumber
  <2>4. Feed(c, 0, Copied(signalValues, c, 0))
    <3>1. /\ (c - 75) % 2 = at.j /\ (c - 75) \div 2 = 3 /\ c \in 81 .. 82
      BY <2>1, <2>2
    <3>2. Copied(signalValues, c, 0) = signalValues[Out(FromNumber(c, 0), at.j)]
      BY <3>1, CopiedToSigma
    <3>3. FromNumber(c, 0) = Mix(2)
      BY <2>1, <3>1 DEF FromNumber, Mix
    <3>4. QED
      BY <1>5, <3>2, <3>3 DEF FourthSigma
  <2>5. Position(at', n + 1)
    BY <1>0, <1>5, <2>1 DEF FourthSigma, Then, Position, Loops
  <2>6. n \in 0 .. 215
    BY <2>1
  <2> HIDE DEF c
  <2>7. QED
    BY <2>1, <2>2, <2>3, <2>4, <2>5, <2>6 DEF Copies
<1>6. CASE FourthArk
  <2> DEFINE c == Ark(4)
  <2>1. at.loop = "ark4" /\ at.r \in 0 .. 55 /\ at.j \in 0 .. 1 /\ n = 22 + at.j
    BY <1>0, <1>6 DEF FourthArk, At, Position
  <2>2. c = 7 /\ c \in SubComponents
    BY <2>1, Families DEF Ark
  <2>3. Inputs(c) = 2 /\ Due(c, at.j) = n
    <3>1. Inputs(c) = 2 /\ Due(c, at.j) = DueNumber(c, at.j)
      BY <2>1, <2>2, DueInNumbers
    <3>2. QED
      BY <2>1, <2>2, <3>1 DEF DueNumber
  <2>4. Feed(c, at.j, Copied(signalValues, c, at.j))
    <3>1. FromNumber(c, at.j) = SigmaF(3, at.j) /\ c \in 4 .. 10
      BY <2>1, <2>2 DEF FromNumber, SigmaF
    <3>2. Copied(signalValues, c, at.j) = signalValues[Out(FromNumber(c, at.j), 0)]
      BY <2>1, <3>1, CopiedToArk
    <3>3. QED
      BY <1>6, <3>1, <3>2 DEF FourthArk
  <2>5. Position(at', n + 1)
    BY <1>0, <1>6, <2>1 DEF FourthArk, Then, Position, Loops
  <2>6. n \in 0 .. 215
    BY <2>1
  <2> HIDE DEF c
  <2>7. QED
    BY <2>1, <2>2, <2>3, <2>4, <2>5, <2>6 DEF Copies
<1>7. CASE FourthMix
  <2> DEFINE c == Mix(3)
  <2>1. at.loop = "mix3" /\ at.r \in 0 .. 55 /\ at.j \in 0 .. 1 /\ n = 24 + at.j
    BY <1>0, <1>7 DEF FourthMix, At, Position
  <2>2. c = 14 /\ c \in SubComponents
    BY <2>1, Families DEF Mix
  <2>3. Inputs(c) = 2 /\ Due(c, at.j) = n
    <3>1. Inputs(c) = 2 /\ Due(c, at.j) = DueNumber(c, at.j)
      BY <2>1, <2>2, DueInNumbers
    <3>2. QED
      BY <2>1, <2>2, <3>1 DEF DueNumber
  <2>4. Feed(c, at.j, Copied(signalValues, c, at.j))
    <3>1. FromNumber(c, at.j) = Ark(4) /\ c \in 11 .. 17
      BY <2>1, <2>2 DEF FromNumber, Ark
    <3>2. Copied(signalValues, c, at.j)
            = signalValues[Out(FromNumber(c, at.j), at.j)]
      BY <2>1, <3>1, CopiedToMix
    <3>3. QED
      BY <1>7, <3>1, <3>2 DEF FourthMix
  <2>5. Position(at', n + 1)
    BY <1>0, <1>7, <2>1 DEF FourthMix, Then, Position, Loops
  <2>6. n \in 0 .. 215
    BY <2>1
  <2> HIDE DEF c
  <2>7. QED
    BY <2>1, <2>2, <2>3, <2>4, <2>5, <2>6 DEF Copies
<1>8. CASE PartialSigma
  <2> DEFINE c == SigmaP(at.r)
  <2>1. at.loop = "sigmaP" /\ at.r \in 0 .. 55 /\ at.j \in 0 .. 1 /\ n = 26 + 3 * at.r
    BY <1>0, <1>8 DEF PartialSigma, At, Position
  <2>2. c = 91 + at.r /\ c \in SubComponents
    BY <2>1, Families DEF SigmaP
  <2>3. Inputs(c) = 1 /\ Due(c, 0) = n
    <3>1. Inputs(c) = 1 /\ Due(c, 0) = DueNumber(c, 0)
      BY <2>1, <2>2, DueInNumbers
    <3>2. QED
      BY <2>1, <2>2, <3>1 DEF DueNumber
  <2>4. Feed(c, 0, Copied(signalValues, c, 0))
    <3>1. /\ c \in 91 .. 146
          /\ FromNumber(c, 0) = IF at.r = 0 THEN Mix(3) ELSE MixS(at.r - 1)
      BY <2>1, <2>2 DEF FromNumber, Mix, MixS
    <3>2. Copied(signalValues, c, 0) = signalValues[Out(FromNumber(c, 0), 0)]
      BY <3>1, CopiedToSigma
    <3>3. QED
      BY <1>8, <3>1, <3>2 DEF PartialSigma
  <2>5. Position(at', n + 1)
    BY <1>0, <1>8, <2>1 DEF PartialSigma, Then, Position, Loops
  <2>6. n \in 0 .. 215
    BY <2>1
  <2> HIDE DEF c
  <2>7. QED
    BY <2>1, <2>2, <2>3, <2>4, <2>5, <2>6 DEF Copies
<1>9. CASE PartialMix
  <2> DEFINE c == MixS(at.r)
  <2>1. /\ at.loop = "mixS" /\ at.r \in 0 .. 55 /\ at.j \in 0 .. 1
        /\ n = 27 + 3 * at.r + at.j
    BY <1>0, <1>9 DEF PartialMix, At, Position
  <2>2. c = 19 + at.r /\ c \in SubComponents
    BY <2>1, Families DEF MixS
  <2>3. Inputs(c) = 2 /\ Due(c, at.j) = n
    <3>1. Inputs(c) = 2 /\ Due(c, at.j) = DueNumber(c, at.j)
      BY <2>1, <2>2, DueInNumbers
    <3>2. QED
      BY <2>1, <2>2, <3>1 DEF DueNumber
  <2>4. Feed(c, at.j, Copied(signalValues, c, at.j))
    <3>1. /\ c \in 19 .. 74 /\ c - 19 = at.r
          /\ FromNumber(c, 0) = SigmaP(at.r)
          /\ FromNumber(c, 1) = IF at.r = 0 THEN Mix(3) ELSE MixS(at.r - 1)
      BY <2>1, <2>2 DEF FromNumber, SigmaP, Mix, MixS
    <3>2. /\ Copied(signalValues, c, 0)
              = Add(signalValues[Out(FromNumber(c, 0), 0)], C[10 + at.r])
          /\ Copied(signalValues, c, 1) = signalValues[Out(FromNumber(c, 1), 1)]
      BY <3>1, CopiedToMixS
    <3>3. at.j = 0 \/ at.j = 1
      BY <2>1
    <3> HIDE DEF c
    <3>4. Copied(signalValues, c, at.j) =
            IF at.j = 0
            THEN Add(signalValues[Out(SigmaP(at.r), 0)], C[10 + at.r])
            ELSE signalValues[Out(IF at.r = 0 THEN Mix(3) ELSE MixS(at.r - 1), 1)]
      BY <3>1, <3>2, <3>3
    <3>5. QED
      BY <1>9, <3>4 DEF PartialMix, c
  <2>5. Position(at', n + 1)
    BY <1>0, <1>9, <2>1 DEF PartialMix, Then, Position, Loops
  <2>6. n \in 0 .. 215
    BY <2>1
  <2> HIDE DEF c
  <2>7. QED
    BY <2>1, <2>2, <2>3, <2>4, <2>5, <2>6 DEF Copies
<1>10. CASE LateSigma
  <2> DEFINE c == SigmaF(4 + at.r, at.j)
  <2>1. /\ at.loop = "sigma4" /\ at.r \in 0 .. 2 /\ at.j \in 0 .. 1
        /\ n = 194 + 6 * at.r + at.j
    BY <1>0, <1>10 DEF LateSigma, At, Position
  <2>2. c = 83 + 2 * at.r + at.j /\ c \in SubComponents
    BY <2>1, Families DEF SigmaF
  <2>3. Inputs(c) = 1 /\ Due(c, 0) = n
    <3>1. Inputs(c) = 1 /\ Due(c, 0) = DueNumber(c, 0)
      BY <2>1, <2>2, DueInNumbers
    <3>2. QED
      BY <2>1, <2>2, <3>1 DEF DueNumber
  <2>4. Feed(c, 0, Copied(signalValues, c, 0))
    <3>1. /\ (c - 75) % 2 = at.j /\ (c - 75) \div 2 = at.r + 4 /\ c \in 83 .. 88
          /\ c <= 84 <=> at.r = 0
      BY <2>1, <2>2
    <3>2. Copied(signalValues, c, 0) = signalValues[Out(FromNumber(c, 0), at.j)]
      BY <3>1, CopiedToSigma
    <3>3. FromNumber(c, 0) = IF at.r = 0 THEN MixS(55) ELSE Mix(4 + at.r - 1)
      BY <2>1, <3>1 DEF FromNumber, MixS, Mix
    <3>4. QED
      BY <1>10, <3>2, <3>3 DEF LateSigma
  <2>5. Position(at', n + 1)
    BY <1>0, <1>10, <2>1 DEF LateSigma, Then, Position, Loops
  <2>6. n \in 0 .. 215
    BY <2>1
  <2> HIDE DEF c
  <2>7. QED
    BY <2>1, <2>2, <2>3, <2>4, <2>5, <2>6 DEF Copies
<1>11. CASE LateArk
  <2> DEFINE c == Ark(4 + at.r + 1)
  <2>1. /\ at.loop = "ark5" /\ at.r \in 0 .. 2 /\ at.j \in 0 .. 1
        /\ n = 196 + 6 * at.r + at.j
    BY <1>0, <1>11 DEF LateArk, At, Position
  <2>2. c = 8 + at.r /\ c \in SubComponents
    BY <2>1, Families DEF Ark
  <2>3. Inputs(c) = 2 /\ Due(c, at.j) = n
    <3>1. Inputs(c) = 2 /\ Due(c, at.j) = DueNumber(c, at.j)
      BY <2>1, <2>2, DueInNumbers
    <3>2. QED
      BY <2>1, <2>2, <3>1 DEF DueNumber
  <2>4. Feed(c, at.j, Copied(signalValues, c, at.j))
    <3>1. FromNumber(c, at.j) = SigmaF(4 + at.r, at.j) /\ c \in 8 .. 10
      BY <2>1, <2>2 DEF FromNumber, SigmaF
    <3>2. Copied(signalValues, c, at.j) = signalValues[Out(FromNumber(c, at.j), 0)]
      BY <2>1, <3>1, CopiedToArk
    <3>3. QED
      BY <1>11, <3>1, <3>2 DEF LateArk
  <2>5. Position(at', n + 1)
    BY <1>0, <1>11, <2>1 DEF LateArk, Then, Position, Loops
  <2>6. n \in 0 .. 215
    BY <2>1
  <2> HIDE DEF c
  <2>7. QED
    BY <2>1, <2>2, <2>3, <2>4, <2>5, <2>6 DEF Copies
<1>12. CASE LateMix
  <2> DEFINE c == Mix(4 + at.r)
  <2>1. /\ at.loop = "mix4" /\ at.r \in 0 .. 2 /\ at.j \in 0 .. 1
        /\ n = 198 + 6 * at.r + at.j
    BY <1>0, <1>12 DEF LateMix, At, Position
  <2>2. c = 15 + at.r /\ c \in SubComponents
    BY <2>1, Families DEF Mix
  <2>3. Inputs(c) = 2 /\ Due(c, at.j) = n
    <3>1. Inputs(c) = 2 /\ Due(c, at.j) = DueNumber(c, at.j)
      BY <2>1, <2>2, DueInNumbers
    <3>2. QED
      BY <2>1, <2>2, <3>1 DEF DueNumber
  <2>4. Feed(c, at.j, Copied(signalValues, c, at.j))
    <3>1. FromNumber(c, at.j) = Ark(4 + at.r + 1) /\ c \in 15 .. 17
      BY <2>1, <2>2 DEF FromNumber, Ark
    <3>2. Copied(signalValues, c, at.j)
            = signalValues[Out(FromNumber(c, at.j), at.j)]
      BY <2>1, <3>1, CopiedToMix
    <3>3. QED
      BY <1>12, <3>1, <3>2 DEF LateMix
  <2>5. Position(at', n + 1)
    BY <1>0, <1>12, <2>1 DEF LateMix, Then, Position, Loops
  <2>6. n \in 0 .. 215
    BY <2>1
  <2> HIDE DEF c
  <2>7. QED
    BY <2>1, <2>2, <2>3, <2>4, <2>5, <2>6 DEF Copies
<1>13. CASE LastSigma
  <2> DEFINE c == SigmaF(7, at.j)
  <2>1. at.loop = "sigma7" /\ at.r \in 0 .. 55 /\ at.j \in 0 .. 1 /\ n = 212 + at.j
    BY <1>0, <1>13 DEF LastSigma, At, Position
  <2>2. c = 89 + at.j /\ c \in SubComponents
    BY <2>1, Families DEF SigmaF
  <2>3. Inputs(c) = 1 /\ Due(c, 0) = n
    <3>1. Inputs(c) = 1 /\ Due(c, 0) = DueNumber(c, 0)
      BY <2>1, <2>2, DueInNumbers
    <3>2. QED
      BY <2>1, <2>2, <3>1 DEF DueNumber
  <2>4. Feed(c, 0, Copied(signalValues, c, 0))
    <3>1. /\ (c - 75) % 2 = at.j /\ (c - 75) \div 2 = 7 /\ c \in 89 .. 90
      BY <2>1, <2>2
    <3>2. Copied(signalValues, c, 0) = signalValues[Out(FromNumber(c, 0), at.j)]
      BY <3>1, CopiedToSigma
    <3>3. FromNumber(c, 0) = Mix(6)
      BY <2>1, <3>1 DEF FromNumber, Mix
    <3>4. QED
      BY <1>13, <3>2, <3>3 DEF LastSigma
  <2>5. Position(at', n + 1)
    BY <1>0, <1>13, <2>1 DEF LastSigma, Then, Position, Loops
  <2>6. n \in 0 .. 215
    BY <2>1
  <2> HIDE DEF c
  <2>7. QED
    BY <2>1, <2>2, <2>3, <2>4, <2>5, <2>6 DEF Copies
<1>14. CASE LastMix
  <2> DEFINE c == MixLast
  <2>1. at.loop = "mixLast" /\ at.r \in 0 .. 55 /\ at.j \in 0 .. 1 /\ n = 214 + at.j
    BY <1>0, <1>14 DEF LastMix, At, Position
  <2>2. c = 18 /\ c \in SubComponents
    BY <2>1, Families DEF MixLast
  <2>3. Inputs(c) = 2 /\ Due(c, at.j) = n
    <3>1. Inputs(c) = 2 /\ Due(c, at.j) = DueNumber(c, at.j)
      BY <2>1, <2>2, DueInNumbers
    <3>2. QED
      BY <2>1, <2>2, <3>1 DEF DueNumber
  <2>4. Feed(c, at.j, Copied(signalValues, c, at.j))
    <3>1. FromNumber(18, at.j) = SigmaF(7, at.j)
      BY <2>1 DEF FromNumber, SigmaF
    <3>2. Copied(signalValues, c, at.j) = signalValues[Out(FromNumber(18, at.j), 0)]
      BY <2>1, <2>2, CopiedToLast
    <3>3. QED
      BY <1>14, <3>1, <3>2 DEF LastMix
  <2>5. Position(at', n + 1)
    BY <1>0, <1>14, <2>1 DEF LastMix, Then, Position, Loops
  <2>6. n \in 0 .. 215
    BY <2>1
  <2> HIDE DEF c
  <2>7. QED
    BY <2>1, <2>2, <2>3, <2>4, <2>5, <2>6 DEF Copies
<1>15. QED
  BY <1>1, <1>2, <1>3, <1>4, <1>5, <1>6, <1>7, <1>8, <1>9, <1>10,
     <1>11, <1>12, <1>13, <1>14
     DEF CircuitStep

\* The signals of main and of the two hashers have no component of the
\* permutation: one of them is written, and the copies stay.
TopWrite(s, v, sv, next) == next = [sv EXCEPT ![s] = v]

TopGrown(n, s, v, sv, next, cnt, ru) ==
  /\ Filled(n + 1, next, cnt, ru)
  /\ \A t \in Signals \ {s} : next[t] = sv[t]
  /\ next[s] = v

LEMMA TopKeeps ==
  ASSUME NEW n \in 216 .. 218, NEW sv, NEW cnt, NEW ru, Filled(n, sv, cnt, ru),
         NEW s \in {4, 5, 7}, NEW v \in Field, NEW next, TopWrite(s, v, sv, next)
  PROVE  TopGrown(n, s, v, sv, next, cnt, ru)
<1> USE DEF TopWrite, TopGrown
<1>1. /\ Started(sv, cnt, ru) /\ sv \in [Signals -> Cell]
      /\ \A c \in SubComponents : Ready(c, n, sv, cnt, ru)
  BY DEF Filled, Started
<1>2. /\ next[s] = v /\ next \in [Signals -> Cell]
      /\ \A t \in Signals \ {s} : next[t] = sv[t]
  <2>1. s \in Signals /\ v \in Cell
    BY DEF Signals, Cell
  <2>2. QED
    BY <1>1, <2>1
<1>3. \A t \in {1, 2, 3, 6, 8, 9} : next[t] = sv[t]
  <2>1. \A t \in {1, 2, 3, 6, 8, 9} : t \in Signals \ {s}
    BY DEF Signals
  <2>2. QED
    BY <1>2, <2>1
<1>4. ASSUME NEW c \in SubComponents
      PROVE  \A t \in SignalsOf(c) : next[t] = sv[t]
  <2>1. SignalsOf(c) \subseteq 10 .. 584 /\ SignalsOf(c) \subseteq Signals
    BY PlacedInArray
  <2>2. \A t \in SignalsOf(c) : t \in Signals \ {s}
    BY <2>1
  <2>3. QED
    BY <1>2, <2>2
<1>5. Started(next, cnt, ru)
  BY <1>1, <1>2, <1>3 DEF Started
<1>6. ASSUME NEW c \in SubComponents
      PROVE  Ready(c, n + 1, next, cnt, ru)
  <2>1. /\ Last(c) \in 0 .. 215 /\ Inputs(c) \in 1 .. 2
        /\ \A k \in 0 .. 1 : Due(c, k) \in 0 .. 215
    BY DueLast
  <2>2. Last(c) < n /\ \A k \in 0 .. 1 : Due(c, k) < n
    BY <2>1
  <2>3. /\ Computes(sv, c) /\ cnt[c] = 0 /\ ru[c] = 1
        /\ \A k \in 0 .. 1 : k < Inputs(c) => /\ sv[In(c, k)] \in Field
                                              /\ sv[In(c, k)] = Copied(sv, c, k)
    BY <1>1, <2>2 DEF Ready
  <2>4. Computes(next, c)
    BY <1>4, <2>3, ComputesSame
  <2>5. ASSUME NEW k \in 0 .. 1, k < Inputs(c)
        PROVE  next[In(c, k)] \in Field /\ next[In(c, k)] = Copied(next, c, k)
    <3>1. next[In(c, k)] = sv[In(c, k)]
      BY <1>4, <2>1, <2>5, PlacedInArray
    <3>2. c # 3 => \A t \in Outs(From(c, k)) : next[t] = sv[t]
      BY <1>4, <2>5, FromReady, PlacedInArray
    <3>3. next[8] = sv[8] /\ next[9] = sv[9]
      BY <1>3
    <3>4. Copied(next, c, k) = Copied(sv, c, k)
      BY <2>5, <3>2, <3>3, CopiedSame
    <3>5. QED
      BY <2>3, <2>5, <3>1, <3>4
  <2>6. Last(c) < n + 1 /\ \A k \in 0 .. 1 : Due(c, k) < n + 1
    BY <2>1, <2>2
  <2>7. QED
    BY <2>3, <2>4, <2>5, <2>6 DEF Ready
<1>7. QED
  BY <1>2, <1>5, <1>6 DEF Filled

LEMMA AllRan ==
  ASSUME NEW n \in 216 .. 219, Running(n)
  PROVE  \A c \in SubComponents :
           inputCounter[c] = 0 /\ runs[c] = 1 /\ Computes(signalValues, c)
<1>1. ASSUME NEW c \in SubComponents
      PROVE  inputCounter[c] = 0 /\ runs[c] = 1 /\ Computes(signalValues, c)
  <2>1. Last(c) < n
    BY DueLast
  <2>2. QED
    BY <2>1 DEF Running, Filled, Ready
<1>2. QED
  BY <1>1

LEMMA TopPlaces ==
  /\ Out(PoseidonEx, 0) = 7 /\ Out(Poseidon, 0) = 5 /\ Out(MixLast, 0) = 70
  /\ In(Poseidon, 0) = 6 /\ In(PoseidonEx, 0) = 8
  /\ In(Main, 0) = 1 /\ In(Main, 1) = 2 /\ In(Main, 2) = 3
  /\ signalStart[Main] + 3 = 4 /\ signalStart[PoseidonEx] + 2 = 9
<1>1. InputOffset(Main) = 0 /\ InputOffset(Poseidon) = 1 /\ InputOffset(PoseidonEx) = 1
  BY Families DEF InputOffset, Main, Poseidon, PoseidonEx
<1>2. QED
  BY <1>1, Layout, PlacedLast DEF In, Out

\* The components above the permutation end, one after the other.
LEMMA EndsKeep ==
  ASSUME NEW n \in 0 .. 219, Position(at, n), Running(n),
         EndPoseidonEx \/ EndPoseidon \/ EndMain
  PROVE  /\ Keeps
         /\ \E m \in 0 .. 219 : Position(at', m) /\ Running(m)'
<1>0. /\ at \in [loop : Loops, r : 0 .. 55, j : 0 .. 1]
      /\ Filled(n, signalValues, inputCounter, runs)
      /\ Ended(n, signalValues, released)
      /\ Started(signalValues, inputCounter, runs)
  BY DEF Position, Running, Filled
<1>1. CASE EndPoseidonEx
  <2>1. n = 216
    BY <1>0, <1>1 DEF EndPoseidonEx, At, Position
  <2>2. \A c \in SubComponents : inputCounter[c] = 0 /\ Computes(signalValues, c)
    BY <2>1, AllRan
  <2>3. signalValues[70] \in Field
    BY <2>2, PlacedLast DEF Computes
  <2>4. /\ signalValues' = [signalValues EXCEPT ![7] = signalValues[70]]
        /\ inputCounter' = inputCounter /\ runs' = runs
        /\ released' = released \cup SubComponents
        /\ at' = [loop |-> "endPoseidon", r |-> 0, j |-> 0]
    BY <1>1, <2>2, TopPlaces DEF EndPoseidonEx, Release, Goto
  <2>5. /\ Filled(n + 1, signalValues', inputCounter, runs)
        /\ \A t \in Signals \ {7} : signalValues'[t] = signalValues[t]
        /\ signalValues'[7] = signalValues[70]
    <3>1. TopWrite(7, signalValues[70], signalValues, signalValues')
      BY <2>4 DEF TopWrite
    <3>2. TopGrown(n, 7, signalValues[70], signalValues, signalValues',
                  inputCounter, runs)
      BY <1>0, <2>1, <2>3, <3>1, TopKeeps
    <3>3. QED
      BY <3>2 DEF TopGrown
  <2>6. \A t \in {1, 2, 4, 5, 70} : signalValues'[t] = signalValues[t]
    <3>1. \A t \in {1, 2, 4, 5, 70} : t \in Signals \ {7}
      BY DEF Signals
    <3>2. QED
      BY <2>5, <3>1
  <2>7. Ended(217, signalValues', released')
    BY <1>0, <2>1, <2>4, <2>5, <2>6 DEF Ended
  <2>8. Keeps
    BY <1>0, <2>1, <2>5 DEF Keeps, Ended
  <2>9. Position(at', 217)
    BY <2>4 DEF Position, Loops
  <2>10. QED
    BY <2>1, <2>4, <2>5, <2>7, <2>8, <2>9 DEF Running
<1>2. CASE EndPoseidon
  <2>1. n = 217
    BY <1>0, <1>2 DEF EndPoseidon, At, Position
  <2>2. signalValues[70] \in Field
    BY <2>1, AllRan, PlacedLast DEF Computes
  <2>3. signalValues[7] \in Field
    BY <1>0, <2>1, <2>2 DEF Ended
  <2>4. inputCounter[PoseidonEx] = 0
    BY <1>0 DEF Started
  <2>5. /\ signalValues' = [signalValues EXCEPT ![5] = signalValues[7]]
        /\ inputCounter' = inputCounter /\ runs' = runs
        /\ released' = released \cup {PoseidonEx}
        /\ at' = [loop |-> "endMain", r |-> 0, j |-> 0]
    BY <1>2, <2>4, TopPlaces DEF EndPoseidon, Release, Goto
  <2>6. /\ Filled(n + 1, signalValues', inputCounter, runs)
        /\ \A t \in Signals \ {5} : signalValues'[t] = signalValues[t]
        /\ signalValues'[5] = signalValues[7]
    <3>1. TopWrite(5, signalValues[7], signalValues, signalValues')
      BY <2>5 DEF TopWrite
    <3>2. TopGrown(n, 5, signalValues[7], signalValues, signalValues',
                  inputCounter, runs)
      BY <1>0, <2>1, <2>3, <3>1, TopKeeps
    <3>3. QED
      BY <3>2 DEF TopGrown
  <2>7. \A t \in {1, 2, 4, 7, 70} : signalValues'[t] = signalValues[t]
    <3>1. \A t \in {1, 2, 4, 7, 70} : t \in Signals \ {5}
      BY DEF Signals
    <3>2. QED
      BY <2>6, <3>1
  <2>8. Ended(218, signalValues', released')
    BY <1>0, <2>1, <2>5, <2>6, <2>7 DEF Ended
  <2>9. Keeps
    BY <1>0, <2>1, <2>6 DEF Keeps, Ended
  <2>10. Position(at', 218)
    BY <2>5 DEF Position, Loops
  <2>11. QED
    BY <2>1, <2>5, <2>6, <2>8, <2>9, <2>10 DEF Running
<1>3. CASE EndMain
  <2>1. n = 218
    BY <1>0, <1>3 DEF EndMain, At, Position
  <2>2. CASE signalValues[1] # signalValues[5]
    <3>1. /\ signalValues' = signalValues /\ released' = released
          /\ inputCounter' = inputCounter /\ runs' = runs
          /\ at' = [loop |-> "abort", r |-> 0, j |-> 0]
      BY <1>3, <2>2, TopPlaces DEF EndMain, Goto
    <3>2. Running(n)' /\ Keeps
      BY <1>0, <3>1 DEF Running, Keeps
    <3>3. Position(at', n)
      BY <2>1, <3>1 DEF Position, Loops
    <3>4. QED
      BY <3>2, <3>3
  <2>3. CASE signalValues[1] = signalValues[5]
    <3> DEFINE square == Mul(signalValues[2], signalValues[2])
    <3>1. square \in Field
      <4>1. signalValues[2] \in Field
        BY <1>0 DEF Started
      <4>2. QED
        BY <4>1, Arithmetic
    <3>2. inputCounter[Poseidon] = 0
      BY <1>0 DEF Started
    <3>3. /\ signalValues' = [signalValues EXCEPT ![4] = square]
          /\ inputCounter' = inputCounter /\ runs' = runs
          /\ released' = released \cup {Poseidon}
          /\ at' = [loop |-> "done", r |-> 0, j |-> 0]
      BY <1>3, <2>3, <3>2, TopPlaces DEF EndMain, Release, Goto
    <3> HIDE DEF square
    <3>4. /\ Filled(n + 1, signalValues', inputCounter, runs)
          /\ \A t \in Signals \ {4} : signalValues'[t] = signalValues[t]
          /\ signalValues'[4] = square
      <4>1. TopWrite(4, square, signalValues, signalValues')
        BY <3>3 DEF TopWrite
      <4>2. TopGrown(n, 4, square, signalValues, signalValues',
                    inputCounter, runs)
        BY <1>0, <2>1, <3>1, <4>1, TopKeeps
      <4>3. QED
        BY <4>2 DEF TopGrown
    <3>5. \A t \in {1, 2, 5, 7, 70} : signalValues'[t] = signalValues[t]
      <4>1. \A t \in {1, 2, 5, 7, 70} : t \in Signals \ {4}
        BY DEF Signals
      <4>2. QED
        BY <3>4, <4>1
    <3>6. Ended(219, signalValues', released')
      BY <1>0, <2>1, <2>3, <3>3, <3>4, <3>5 DEF Ended, square
    <3>7. Keeps
      BY <1>0, <2>1, <3>4 DEF Keeps, Ended
    <3>8. Position(at', 219)
      BY <3>3 DEF Position, Loops
    <3>9. QED
      BY <2>1, <3>3, <3>4, <3>6, <3>7, <3>8 DEF Running
  <2>4. QED
    BY <2>2, <2>3
<1>4. QED
  BY <1>1, <1>2, <1>3

\* The last input of main starts it: no copy is made yet, the hashers have
\* their inputs.
LEMMA StartFills ==
  ASSUME Waiting, NEW sv \in [Signals -> Cell], \A s \in 4 .. 584 : sv[s] = Undef,
         \A s \in 1 .. 3 : sv[s] \in Field, Start(sv)
  PROVE  /\ Running(0)' /\ Position(at', 0)
         /\ \A s \in Signals : sv[s] # Undef => signalValues'[s] = sv[s]
<1>1. /\ inputCounter' = [c \in Components |->
                            IF c = Main THEN 3
                            ELSE IF c \in {Poseidon, PoseidonEx} THEN 0
                            ELSE Inputs(c)]
      /\ runs' = [runs EXCEPT ![Main] = @ + 1, ![Poseidon] = @ + 1,
                              ![PoseidonEx] = @ + 1]
      /\ at' = [loop |-> "first", r |-> 0, j |-> 0]
      /\ released' = {} /\ runs = [c \in Components |-> 0]
  BY DEF Start, Waiting
<1>2. signalValues' = [[sv EXCEPT ![6] = sv[3]]
                         EXCEPT ![9] = 0, ![8] = [sv EXCEPT ![6] = sv[3]][6]]
  BY TopPlaces DEF Start
<1>3. {3, 4, 5, 6, 7, 8, 9} \subseteq Signals /\ 0 \in Cell /\ sv[3] \in Cell
  <2>1. {3, 4, 5, 6, 7, 8, 9} \subseteq Signals
    BY DEF Signals
  <2>2. 0 \in Field
    BY Arithmetic DEF Field
  <2>3. 3 \in 1 .. 3 /\ sv[3] \in Field
    OBVIOUS
  <2>4. QED
    BY <2>1, <2>2, <2>3 DEF Cell
<1>4. /\ signalValues' \in [Signals -> Cell]
      /\ signalValues'[6] = sv[3] /\ signalValues'[8] = sv[3]
      /\ signalValues'[9] = 0
      /\ \A s \in Signals \ {6, 8, 9} : signalValues'[s] = sv[s]
  <2> DEFINE main == [sv EXCEPT ![6] = sv[3]]
  <2>1. /\ main \in [Signals -> Cell] /\ main[6] = sv[3]
        /\ \A s \in Signals \ {6} : main[s] = sv[s]
    BY <1>3
  <2>2. signalValues' = [main EXCEPT ![9] = 0, ![8] = main[6]]
    BY <1>2
  <2> HIDE DEF main
  <2>3. QED
    BY <1>3, <2>1, <2>2
<1>5. \A s \in 1 .. 9 : s \in Signals
  BY DEF Signals
<1>6. \A s \in 10 .. 584 : signalValues'[s] = Undef
  <2>1. \A s \in 10 .. 584 : s \in Signals \ {6, 8, 9} /\ s \in 4 .. 584
    BY DEF Signals
  <2>2. QED
    BY <1>4, <2>1
<1>7. \A s \in Signals : sv[s] # Undef => signalValues'[s] = sv[s]
  <2>1. sv[6] = Undef /\ sv[8] = Undef /\ sv[9] = Undef
    OBVIOUS
  <2>2. QED
    BY <1>4, <2>1
<1>8. Started(signalValues', inputCounter', runs')
  <2>1. /\ Main \in Components /\ Poseidon \in Components /\ PoseidonEx \in Components
        /\ Main # Poseidon /\ Main # PoseidonEx /\ Poseidon # PoseidonEx
    BY Families DEF Main, Poseidon, PoseidonEx
  <2>2. /\ inputCounter' \in [Components -> Nat]
        /\ inputCounter'[Main] = 3
        /\ inputCounter'[Poseidon] = 0 /\ inputCounter'[PoseidonEx] = 0
    BY <1>1, <2>1 DEF Inputs
  <2>3. /\ runs' \in [Components -> Nat]
        /\ runs'[Poseidon] = 1 /\ runs'[PoseidonEx] = 1
    BY <1>1, <2>1
  <2>4. \A s \in 1 .. 3 : signalValues'[s] \in Field
    <3>1. \A s \in 1 .. 3 : s \in Signals \ {6, 8, 9}
      BY DEF Signals
    <3>2. QED
      BY <1>4, <3>1
  <2>5. signalValues'[3] = sv[3]
    BY <1>3, <1>4
  <2>6. QED
    BY <1>4, <2>2, <2>3, <2>4, <2>5 DEF Started
<1>9. ASSUME NEW c \in SubComponents
      PROVE  Ready(c, 0, signalValues', inputCounter', runs')
  <2>1. /\ c \in Components /\ c \notin {Main, Poseidon, PoseidonEx}
    BY Families DEF Main, Poseidon, PoseidonEx
  <2>2. inputCounter'[c] = Inputs(c) /\ runs'[c] = 0
    BY <1>1, <2>1
  <2>3. /\ ~ (Last(c) < 0) /\ Inputs(c) \in 1 .. 2
        /\ \A k \in 0 .. 1 : ~ (Due(c, k) < 0)
    <3>1. Last(c) \in 0 .. 215 /\ Inputs(c) \in 1 .. 2
      BY DueLast, Zenon
    <3>2. \A k \in 0 .. 1 : Due(c, k) \in 0 .. 215
      BY DueLast, Zenon
    <3>3. \A m \in 0 .. 215 : ~ (m < 0)
      OBVIOUS
    <3>4. QED
      BY <3>1, <3>2, <3>3, Zenon
  <2>4. /\ \A k \in 0 .. Inputs(c) - 1 : In(c, k) \in 10 .. 584
        /\ Outs(c) \subseteq 10 .. 584
    BY PlacedInArray
  <2>5. \A k \in 0 .. 1 : k < Inputs(c) => signalValues'[In(c, k)] = Undef
    <3>1. \A k \in 0 .. 1 : k < Inputs(c) => k \in 0 .. Inputs(c) - 1
      BY <2>3
    <3>2. QED
      BY <1>6, <2>4, <3>1
  <2>6. \A s \in Outs(c) : signalValues'[s] = Undef
    BY <1>6, <2>4
  <2>7. QED
    BY <2>2, <2>3, <2>5, <2>6 DEF Ready
<1>10. Ended(0, signalValues', released')
  <2>1. sv[4] = Undef /\ sv[5] = Undef /\ sv[7] = Undef
    OBVIOUS
  <2>2. \A s \in {4, 5, 7} : signalValues'[s] = Undef
    BY <1>3, <1>4, <2>1
  <2>3. QED
    BY <1>1, <2>2 DEF Ended
<1>11. Position(at', 0)
  BY <1>1 DEF Position, Loops
<1>12. QED
  BY <1>7, <1>8, <1>9, <1>10, <1>11 DEF Running, Filled

LEMMA SetInputsKeeps ==
  ASSUME Position(at, -1), Waiting, SetInputs
  PROVE  /\ Keeps
         /\ \/ Position(at', -1) /\ Waiting'
            \/ Position(at', 0) /\ Running(0)'
<1>a. PICK set \in SUBSET {s \in 1 .. 3 : signalValues[s] = Undef} :
        \E f \in [set -> Field] :
          LET sv == WriteAll(signalValues, f)
          IN  IF \A s \in 1 .. 3 : sv[s] # Undef THEN Start(sv)
              ELSE /\ signalValues' = sv
                   /\ UNCHANGED <<inputCounter, runs, released, at>>
  BY DEF SetInputs
<1>1. PICK f \in [set -> Field] :
        LET sv == WriteAll(signalValues, f)
        IN  IF \A s \in 1 .. 3 : sv[s] # Undef THEN Start(sv)
            ELSE /\ signalValues' = sv
                 /\ UNCHANGED <<inputCounter, runs, released, at>>
  BY <1>a
<1> DEFINE sv == WriteAll(signalValues, f)
<1>2. /\ signalValues \in [Signals -> Cell]
      /\ \A s \in 4 .. 584 : signalValues[s] = Undef
  BY DEF Waiting
<1>3. /\ sv \in [Signals -> Cell]
      /\ \A s \in set : sv[s] \in Field
      /\ \A s \in Signals \ set : sv[s] = signalValues[s]
  <2>1. set \subseteq Signals
    BY DEF Signals
  <2>2. QED
    BY <1>2, <2>1 DEF WriteAll, Cell
<1>4. \A s \in 4 .. 584 : sv[s] = Undef
  <2>1. \A s \in 4 .. 584 : s \in Signals \ set
    BY DEF Signals
  <2>2. QED
    BY <1>2, <1>3, <2>1
<1>5. \A s \in Signals : signalValues[s] # Undef => sv[s] = signalValues[s]
  BY <1>3
<1>6. IF \A s \in 1 .. 3 : sv[s] # Undef THEN Start(sv)
      ELSE signalValues' = sv /\ UNCHANGED <<inputCounter, runs, released, at>>
  BY <1>1
<1> HIDE DEF sv
<1>7. CASE \A s \in 1 .. 3 : sv[s] # Undef
  <2>1. \A s \in 1 .. 3 : sv[s] \in Field
    <3>1. \A s \in 1 .. 3 : s \in Signals
      BY DEF Signals
    <3>2. QED
      BY <1>3, <1>7, <3>1 DEF Cell
  <2>2. Start(sv)
    BY <1>6, <1>7
  <2>3. /\ Running(0)' /\ Position(at', 0)
        /\ \A s \in Signals : sv[s] # Undef => signalValues'[s] = sv[s]
    BY <1>3, <1>4, <2>1, <2>2, StartFills
  <2>4. QED
    BY <1>5, <2>3 DEF Keeps
<1>8. CASE ~ \A s \in 1 .. 3 : sv[s] # Undef
  <2>1. signalValues' = sv /\ UNCHANGED <<inputCounter, runs, released, at>>
    BY <1>6, <1>8
  <2>2. Waiting'
    BY <1>3, <1>4, <2>1 DEF Waiting
  <2>3. QED
    BY <1>5, <2>1, <2>2 DEF Keeps
<1>9. QED
  BY <1>7, <1>8

LEMMA CircuitInvInit == CircuitInit => CircuitInv
<1> SUFFICES ASSUME CircuitInit PROVE CircuitInv
  OBVIOUS
<1>1. Position(at, -1)
  BY DEF CircuitInit, Position, Loops
<1>2. Waiting
  <2>1. 1 % q \in Cell
    BY Arithmetic DEF Cell, Field
  <2>2. \A s \in 4 .. 584 : s \in Signals /\ s # 0
    BY DEF Signals
  <2>3. QED
    BY <2>1, <2>2 DEF CircuitInit, Waiting, Cell
<1>3. QED
  BY <1>1, <1>2 DEF CircuitInv

\* While the circuit runs, a step is a copy or an end, and neither is undone.
LEMMA StepRuns ==
  ASSUME NEW n \in -1 .. 219, Position(at, n),
         IF n = -1 THEN Waiting ELSE Running(n), CircuitStep
  PROVE  /\ at.loop \notin {"idle", "done", "abort"} /\ Keeps
         /\ \E m \in 0 .. 219 : Position(at', m) /\ Running(m)'
<1>1. at.loop \notin {"idle", "done", "abort"}
  BY DEF CircuitStep, At, FirstArk, FullSigma, FullArk, FullMix,
       FourthSigma, FourthArk, FourthMix, PartialSigma, PartialMix,
       LateSigma, LateArk, LateMix, LastSigma, LastMix, EndPoseidonEx,
       EndPoseidon, EndMain
<1>2. n \in 0 .. 219 /\ Running(n)
  <2>1. n # -1
    BY <1>1 DEF Position, Loops
  <2>2. QED
    BY <2>1
<1>3. CASE EndPoseidonEx \/ EndPoseidon \/ EndMain
  BY <1>1, <1>2, <1>3, EndsKeep
<1>4. CASE ~ (EndPoseidonEx \/ EndPoseidon \/ EndMain)
  <2>1. Copies(n) /\ Position(at', n + 1)
    BY <1>4, LoopsCopy
  <2>2. n \in 0 .. 215
    BY <2>1 DEF Copies
  <2>3. Running(n + 1)' /\ Keeps
    BY <1>2, <2>1, <2>2, CopiesKeeps
  <2>4. n + 1 \in 0 .. 219
    BY <2>2
  <2>5. QED
    BY <1>1, <2>1, <2>3, <2>4
<1>5. QED
  BY <1>3, <1>4

LEMMA CircuitInvNext ==
  ASSUME CircuitInv, CircuitNext
  PROVE  CircuitInv' /\ Keeps
<1>1. PICK n \in -1 .. 219 :
        Position(at, n) /\ IF n = -1 THEN Waiting ELSE Running(n)
  BY DEF CircuitInv
<1>2. CASE SetInputs
  <2>1. n = -1
    BY <1>1, <1>2 DEF SetInputs, At, Position
  <2>2. QED
    BY <1>1, <1>2, <2>1, SetInputsKeeps DEF CircuitInv
<1>3. CASE GiveUp
  <2>1. /\ n \in {-1, 219}
        /\ at' = [loop |-> "abort", r |-> 0, j |-> 0]
        /\ UNCHANGED <<signalValues, inputCounter, runs, released>>
    BY <1>1, <1>3 DEF GiveUp, At, Position, Goto
  <2>2. Position(at', n)
    BY <2>1 DEF Position, Loops
  <2>3. Waiting => Waiting'
    BY <2>1 DEF Waiting
  <2>4. Running(n) => Running(n)'
    BY <2>1 DEF Running
  <2>5. Keeps
    BY <2>1 DEF Keeps
  <2>6. QED
    BY <1>1, <2>2, <2>3, <2>4, <2>5 DEF CircuitInv
<1>4. CASE CircuitStep
  <2>1. Keeps /\ \E m \in 0 .. 219 : Position(at', m) /\ Running(m)'
    BY <1>1, <1>4, StepRuns
  <2>2. PICK m \in 0 .. 219 : Position(at', m) /\ Running(m)'
    BY <2>1
  <2>3. m \in -1 .. 219 /\ m # -1
    OBVIOUS
  <2>4. QED
    BY <2>1, <2>2, <2>3 DEF CircuitInv
<1>5. QED
  BY <1>2, <1>3, <1>4 DEF CircuitNext

THEOREM CircuitInvariant == CircuitSpec => []CircuitInv
<1>1. CircuitInit => CircuitInv
  BY CircuitInvInit
<1>2. CircuitInv /\ [CircuitNext]_circuitVars => CircuitInv'
  <2> SUFFICES ASSUME CircuitInv, [CircuitNext]_circuitVars PROVE CircuitInv'
    OBVIOUS
  <2>1. CASE CircuitNext
    BY <2>1, CircuitInvNext
  <2>2. CASE UNCHANGED circuitVars
    BY <2>2 DEF circuitVars, CircuitInv, Waiting, Running
  <2>3. QED
    BY <2>1, <2>2
<1>3. QED
  BY <1>1, <1>2, PTL DEF CircuitSpec

\* No step of the circuit overwrites a signal that has a value.
THEOREM CircuitAssignsOnce == CircuitSpec => SingleAssignment
<1>1. CircuitInv /\ [CircuitNext]_circuitVars =>
        [\A s \in Signals : signalValues[s] # Undef
           => signalValues'[s] = signalValues[s]]_circuitVars
  BY CircuitInvNext DEF Keeps
<1>2. QED
  BY <1>1, CircuitInvariant, PTL DEF CircuitSpec, SingleAssignment

Missing(c, sv) == {k \in 0 .. Inputs(c) - 1 : sv[In(c, k)] = Undef}

Flows(c, sv, cnt, ru) ==
  /\ ru[c] <= 1 /\ cnt[c] = Cardinality(Missing(c, sv))
  /\ ru[c] = 1 <=> \A s \in SignalsOf(c) : sv[s] # Undef

LEMMA MissingInputs ==
  ASSUME NEW n \in 0 .. 219, NEW sv, NEW cnt, NEW ru, NEW c \in SubComponents,
         Ready(c, n, sv, cnt, ru)
  PROVE  Flows(c, sv, cnt, ru)
<1> DEFINE missing == Missing(c, sv)
<1>1. /\ Last(c) \in 0 .. 215 /\ Inputs(c) \in 1 .. 2
      /\ \A k \in 0 .. 1 : Due(c, k) \in 0 .. 215
                           /\ (k < Inputs(c) => Due(c, k) <= Last(c))
  BY DueLast
<1>2. /\ \A k \in 0 .. Inputs(c) - 1 : In(c, k) \in SignalsOf(c)
      /\ Out(c, 0) \in SignalsOf(c) /\ Out(c, 0) \in Outs(c)
  BY PlacedInArray
<1>3. \A k \in 0 .. 1 : k < Inputs(c) =>
        IF Due(c, k) < n THEN sv[In(c, k)] \in Field ELSE sv[In(c, k)] = Undef
  BY DEF Ready
<1>4. Undef \notin Field
  BY Arithmetic
<1>5. Cardinality({}) = 0 /\ \A k : Cardinality({k}) = 1
  BY FS_EmptySet, FS_Singleton
<1>6. CASE Last(c) < n
  <2>1. Computes(sv, c) /\ cnt[c] = 0 /\ ru[c] = 1
    BY <1>6 DEF Ready
  <2>2. \A s \in SignalsOf(c) : sv[s] # Undef
    BY <1>4, <2>1 DEF Computes
  <2>3. missing = {}
    BY <1>2, <2>2 DEF Missing
  <2> HIDE DEF missing
  <2>4. QED
    BY <1>5, <2>1, <2>2, <2>3 DEF Flows, missing
<1>7. CASE ~ (Last(c) < n)
  <2>1. /\ sv[Out(c, 0)] = Undef /\ ru[c] = 0
        /\ cnt[c] = IF Due(c, 0) < n THEN 1 ELSE Inputs(c)
    BY <1>2, <1>7 DEF Ready
  <2>2. CASE Inputs(c) = 1
    <3>1. ~ (Due(c, 0) < n)
      BY <1>7, <2>2 DEF Last
    <3>2. missing = {0}
      BY <1>3, <2>2, <3>1 DEF Missing
    <3>3. Cardinality(Missing(c, sv)) = 1
      BY <1>5, <3>2
    <3>4. QED
      BY <1>2, <2>1, <2>2, <3>1, <3>3 DEF Flows
  <2>3. CASE Inputs(c) = 2
    <3>1. ~ (Due(c, 1) < n)
      BY <1>7, <2>3 DEF Last
    <3>2. sv[In(c, 1)] = Undef
      BY <1>3, <2>3, <3>1
    <3>3. CASE Due(c, 0) < n
      <4>1. sv[In(c, 0)] # Undef
        BY <1>3, <1>4, <2>3, <3>3
      <4>2. \A k \in 0 .. Inputs(c) - 1 : k = 0 \/ k = 1
        BY <2>3
      <4>3. missing = {1}
        BY <2>3, <3>2, <4>1, <4>2 DEF Missing
      <4>4. Cardinality(Missing(c, sv)) = 1
        BY <1>5, <4>3
      <4>5. QED
        BY <1>2, <2>1, <3>3, <4>4 DEF Flows
    <3>4. CASE ~ (Due(c, 0) < n)
      <4>1. sv[In(c, 0)] = Undef
        BY <1>3, <2>3, <3>4
      <4>2. missing = {0} \cup {1}
        BY <2>3, <3>2, <4>1 DEF Missing
      <4>3. Cardinality({0} \cup {1}) = 2
        <5>1. IsFiniteSet({0}) /\ Cardinality({0}) = 1
          BY FS_Singleton
        <5>2. Cardinality({0} \cup {1}) = IF 1 \in {0} THEN Cardinality({0})
                                          ELSE Cardinality({0}) + 1
          BY <5>1, FS_AddElement, Zenon
        <5>3. QED
          BY <5>1, <5>2
      <4>4. Cardinality(Missing(c, sv)) = 2
        BY <4>2, <4>3
      <4>5. QED
        BY <1>2, <2>1, <2>3, <3>4, <4>4 DEF Flows
    <3>5. QED
      BY <3>3, <3>4
  <2>4. QED
    BY <1>1, <2>2, <2>3
<1>8. QED
  BY <1>6, <1>7

LEMMA InvRuns == CircuitInv => RunsOnWrittenInputs
<1> SUFFICES ASSUME CircuitInv PROVE RunsOnWrittenInputs
  OBVIOUS
<1>1. PICK n \in -1 .. 219 :
        Position(at, n) /\ IF n = -1 THEN Waiting ELSE Running(n)
  BY DEF CircuitInv
<1>2. CASE n = -1
  <2>1. Waiting
    BY <1>1, <1>2
  <2>2. ASSUME NEW c \in SubComponents
        PROVE  /\ runs[c] = 0
               /\ ~ \A s \in SignalsOf(c) : signalValues[s] # Undef
    <3>1. Out(c, 0) \in SignalsOf(c) /\ SignalsOf(c) \subseteq 10 .. 584
      BY PlacedInArray
    <3>2. Out(c, 0) \in 4 .. 584
      BY <3>1
    <3>3. c \in Components
      BY DEF Components
    <3>4. runs[c] = 0 /\ signalValues[Out(c, 0)] = Undef
      BY <2>1, <3>2, <3>3 DEF Waiting
    <3>5. QED
      BY <3>1, <3>4
  <2>3. inputCounter = <<>> /\ released = {}
    BY <2>1 DEF Waiting
  <2>4. \A c \in SubComponents : runs[c] <= 1 /\ runs[c] # 1
    BY <2>2
  <2>5. QED
    BY <2>2, <2>3, <2>4 DEF RunsOnWrittenInputs
<1>3. CASE n # -1
  <2>1. n \in 0 .. 219 /\ Running(n)
    BY <1>1, <1>3
  <2>2. \A c \in SubComponents : Flows(c, signalValues, inputCounter, runs)
    BY <2>1, MissingInputs DEF Running, Filled
  <2>3. \A c \in released : runs[c] = 1 /\ inputCounter[c] = 0
    <3>1. /\ runs[Poseidon] = 1 /\ runs[PoseidonEx] = 1
          /\ inputCounter[Poseidon] = 0 /\ inputCounter[PoseidonEx] = 0
      BY <2>1 DEF Running, Filled, Started
    <3>2. CASE n > 216
      <4>1. \A c \in SubComponents : inputCounter[c] = 0 /\ runs[c] = 1
        BY <2>1, <3>2, AllRan
      <4>2. released \subseteq SubComponents \cup {Poseidon, PoseidonEx}
        BY <2>1 DEF Running, Ended
      <4>3. QED
        BY <3>1, <4>1, <4>2
    <3>3. CASE ~ (n > 216)
      <4>1. released = {}
        BY <2>1, <3>3 DEF Running, Ended
      <4>2. QED
        BY <4>1
    <3>4. QED
      BY <3>2, <3>3
  <2>4. QED
    BY <2>2, <2>3 DEF RunsOnWrittenInputs, Flows, Missing
<1>4. QED
  BY <1>2, <1>3

\* A component runs once, on inputs that are all written.
THEOREM CircuitRunsOnWrittenInputs == CircuitSpec => []RunsOnWrittenInputs
BY InvRuns, CircuitInvariant, PTL

-----------------------------------------------------------------------------
(***************************************************************************)
(* What the circuit computes: when all components ran, their equations are *)
(* the rounds of Poseidon, one after the other.                            *)
(***************************************************************************)
Solved(sv) ==
  /\ sv \in [Signals -> Cell] /\ sv[3] \in Field /\ sv[8] = sv[3] /\ sv[9] = 0
  /\ \A c \in SubComponents :
       /\ Computes(sv, c)
       /\ \A k \in 0 .. 1 : k < Inputs(c) => /\ sv[In(c, k)] \in Field
                                             /\ sv[In(c, k)] = Copied(sv, c, k)

\* The two outputs of a component.
Pair(sv, c) == <<sv[Out(c, 0)], sv[Out(c, 1)]>>

LEMMA SumMod ==
  ASSUME NEW a \in Int, NEW b \in Int
  PROVE  /\ ((a % q) + (b % q)) % q = (a + b) % q
         /\ (a + (b % q)) % q = (a + b) % q
<1>1. a % q \in Int /\ b % q \in Int /\ Cong(a % q, a) /\ Cong(b % q, b)
  BY ModCong
<1>2. Cong((a % q) + (b % q), a + b)
  BY <1>1, CongAdd
<1>3. Cong(a + (b % q), a + b)
  BY <1>1, CongRefl, CongAdd
<1>4. QED
  BY <1>1, <1>2, <1>3, ModEq

LEMMA RowSum ==
  ASSUME NEW m \in {M, P}, NEW i \in 0 .. 1, NEW a \in Field, NEW b \in Field
  PROVE  Row(m, i, a, b) = (m[0][i] * a + m[1][i] * b) % q
<1> DEFINE u == m[0][i] * a
           v == m[1][i] * b
<1>1. m[0][i] \in Field /\ m[1][i] \in Field
  BY ConstantsInField
<1>2. Mul(m[0][i], a) = u % q /\ Mul(m[1][i], b) = v % q
  BY <1>1, Arithmetic
<1>3. u \in Int /\ v \in Int
  BY <1>1, FieldInt
<1> HIDE DEF u, v
<1>4. u % q \in Field /\ v % q \in Field
  BY <1>3, ModCong
<1>5. Row(m, i, a, b) = ((u % q) + (v % q)) % q
  BY <1>2, <1>4, Arithmetic DEF Row
<1>6. QED
  BY <1>3, <1>5, SumMod DEF u, v

LEMMA SigmaComputes ==
  ASSUME NEW sv, Solved(sv), NEW c \in Sigmas
  PROVE  /\ sv[Out(c, 0)] = Sbox(sv[In(c, 0)])
         /\ sv[Out(c, 0)] \in Field /\ sv[In(c, 0)] \in Field
<1> DEFINE a == sv[In(c, 0)]
           in2 == sv[Out(c, 2)]
           in4 == sv[Out(c, 3)]
<1>1. c \in SubComponents /\ c \in 75 .. 146
  BY Families
<1>2. /\ Computes(sv, c) /\ \A s \in SignalsOf(c) : sv[s] \in Field
  BY <1>1 DEF Solved, Computes
<1>3. a \in Field /\ in2 \in Field /\ in4 \in Field /\ sv[Out(c, 0)] \in Field
  BY <1>1, <1>2, PlacedSigma
<1>4. in2 = Mul(a, a) /\ in4 = Mul(in2, in2) /\ sv[Out(c, 0)] = Mul(in4, a)
  BY <1>2 DEF Computes
<1> HIDE DEF a, in2, in4
<1>5. /\ in2 = (a * a) % q /\ in4 = (in2 * in2) % q
      /\ sv[Out(c, 0)] = (in4 * a) % q
  BY <1>3, <1>4, Arithmetic
<1>6. QED
  BY <1>3, <1>5 DEF Sbox, a

LEMMA ArkComputes ==
  ASSUME NEW sv, Solved(sv), NEW i \in 0 .. 7, NEW j \in 0 .. 1
  PROVE  /\ sv[Out(Ark(i), j)] = (sv[In(Ark(i), j)] + C[ArkConstant[i] + j]) % q
         /\ sv[Out(Ark(i), j)] \in Field
         /\ sv[In(Ark(i), j)] = Copied(sv, Ark(i), j)
<1> DEFINE c == Ark(i)
<1>1. c \in 3 .. 10 /\ c - 3 = i /\ c \in SubComponents /\ c \in Arks /\ c # 18
  BY Families DEF Ark
<1>2. Inputs(c) = 2 /\ Out(c, j) \in SignalsOf(c)
  BY <1>1, PlacedTwo
<1>3. Computes(sv, c) /\ sv[In(c, j)] \in Field
      /\ sv[In(c, j)] = Copied(sv, c, j)
  BY <1>1, <1>2 DEF Solved
<1>4. sv[Out(c, j)] = Add(sv[In(c, j)], C[ArkConstant[i] + j])
      /\ sv[Out(c, j)] \in Field
  BY <1>1, <1>2, <1>3 DEF Computes, Ark
<1>5. C[ArkConstant[i] + j] \in Field
  BY ConstantsInField
<1>6. QED
  BY <1>3, <1>4, <1>5, Arithmetic

\* A full round: two S-boxes, two constants and a matrix.
LEMMA FullLayer ==
  ASSUME NEW sv, Solved(sv), NEW r \in 0 .. 6
  PROVE  Pair(sv, Mix(r)) =
           FullRound(Pair(sv, IF r = 0 THEN Ark(0)
                              ELSE IF r = 4 THEN MixS(55) ELSE Mix(r - 1)),
                     ArkConstant[r + 1], IF r = 3 THEN P ELSE M)
<1> DEFINE last == IF r = 0 THEN Ark(0) ELSE IF r = 4 THEN MixS(55) ELSE Mix(r - 1)
           m == IF r = 3 THEN P ELSE M
           box(j) == sv[Out(SigmaF(r, j), 0)]
           sum(j) == sv[Out(Ark(r + 1), j)]
<1>1. ASSUME NEW j \in 0 .. 1
      PROVE  box(j) = Sbox(sv[Out(last, j)]) /\ box(j) \in Field
  <2> DEFINE c == SigmaF(r, j)
  <2>1. /\ c = 75 + 2 * r + j /\ c \in Sigmas /\ c \in SubComponents
        /\ (c - 75) % 2 = j /\ (c - 75) \div 2 = r /\ c \in 75 .. 90
        /\ c <= 76 <=> r = 0
        /\ c \in 83 .. 84 <=> r = 4
    BY Families DEF SigmaF
  <2>2. Inputs(c) = 1
    BY <2>1, PlacedSigma
  <2>3. sv[In(c, 0)] = Copied(sv, c, 0)
    BY <2>1, <2>2 DEF Solved
  <2>4. Copied(sv, c, 0) = sv[Out(FromNumber(c, 0), j)]
    <3>1. c \in 75 .. 146 /\ c <= 90
      BY <2>1
    <3>2. QED
      BY <2>1, <3>1, CopiedToSigma
  <2>5. FromNumber(c, 0) = last
    BY <2>1 DEF FromNumber, Ark, Mix, MixS
  <2> HIDE DEF c, last
  <2>6. sv[Out(c, 0)] = Sbox(sv[Out(last, j)]) /\ sv[Out(c, 0)] \in Field
    BY <2>1, <2>3, <2>4, <2>5, SigmaComputes
  <2>7. QED
    BY <2>6 DEF c
<1>2. ASSUME NEW j \in 0 .. 1
      PROVE  /\ sum(j) = (box(j) + C[ArkConstant[r + 1] + j]) % q
             /\ sum(j) \in Field
  <2> DEFINE c == Ark(r + 1)
  <2>1. c \in 4 .. 10 /\ c \in SubComponents /\ r + 1 \in 0 .. 7
        /\ FromNumber(c, j) = SigmaF(r, j)
    BY Families DEF Ark, FromNumber, SigmaF
  <2>2. Copied(sv, c, j) = sv[Out(FromNumber(c, j), 0)]
    BY <2>1, CopiedToArk
  <2>3. QED
    BY <2>1, <2>2, ArkComputes
<1>3. ASSUME NEW j \in 0 .. 1
      PROVE  sv[Out(Mix(r), j)] = (m[0][j] * sum(0) + m[1][j] * sum(1)) % q
  <2> DEFINE c == Mix(r)
  <2>1. /\ c \in 11 .. 17 /\ c \in SubComponents /\ c \in Mixes
        /\ FromNumber(c, 0) = Ark(r + 1) /\ FromNumber(c, 1) = Ark(r + 1)
        /\ c = Mix(3) <=> r = 3
    BY Families DEF Mix, FromNumber, Ark
  <2>2. Inputs(c) = 2
    BY <2>1, PlacedTwo
  <2>3. Copied(sv, c, 0) = sum(0) /\ Copied(sv, c, 1) = sum(1)
    BY <2>1, CopiedToMix
  <2>4. sv[In(c, 0)] = sum(0) /\ sv[In(c, 1)] = sum(1) /\ Computes(sv, c)
    BY <2>1, <2>2, <2>3 DEF Solved
  <2>5. sv[Out(c, j)] = Row(m, j, sum(0), sum(1))
    BY <2>1, <2>4 DEF Computes
  <2>6. sum(0) \in Field /\ sum(1) \in Field /\ m \in {M, P}
    BY <1>2
  <2> HIDE DEF c, sum, m
  <2>7. sv[Out(c, j)] = (m[0][j] * sum(0) + m[1][j] * sum(1)) % q
    BY <2>5, <2>6, RowSum
  <2>8. QED
    BY <2>7 DEF c
<1>4. ArkConstant[r + 1] \in Int
  BY DEF ArkConstant
<1>5. sum(0) = (Sbox(sv[Out(last, 0)]) + C[ArkConstant[r + 1]]) % q
      /\ sum(1) = (Sbox(sv[Out(last, 1)]) + C[ArkConstant[r + 1] + 1]) % q
  <2>1. ArkConstant[r + 1] + 0 = ArkConstant[r + 1]
    BY <1>4
  <2> HIDE DEF sum, last, box
  <2>2. /\ sum(0) = (box(0) + C[ArkConstant[r + 1] + 0]) % q
        /\ sum(1) = (box(1) + C[ArkConstant[r + 1] + 1]) % q
        /\ box(0) = Sbox(sv[Out(last, 0)]) /\ box(1) = Sbox(sv[Out(last, 1)])
    BY <1>1, <1>2
  <2>3. QED
    BY <2>1, <2>2
<1> HIDE DEF sum, last, box, m
<1>6. /\ sv[Out(Mix(r), 0)] = (m[0][0] * sum(0) + m[1][0] * sum(1)) % q
      /\ sv[Out(Mix(r), 1)] = (m[0][1] * sum(0) + m[1][1] * sum(1)) % q
  BY <1>3
<1>7. Pair(sv, Mix(r)) = Times(m, <<sum(0), sum(1)>>)
  BY <1>6 DEF Pair, Times
<1>8. Times(m, <<sum(0), sum(1)>>) = FullRound(Pair(sv, last), ArkConstant[r + 1], m)
  BY <1>5 DEF FullRound, Pair
<1>9. QED
  BY <1>7, <1>8 DEF last, m

\* What the function of a partial round returns.
LEMMA PartialRoundAt ==
  ASSUME NEW s \in Field \X Field, NEW r \in 0 .. 55
  PROVE  LET boxed == (Sbox(s[1]) + C[10 + r]) % q
         IN  PartialRound(r)[s] = <<(s[2] * S[3 * r + 1] + S[3 * r] * boxed) % q,
                                    (s[2] + S[3 * r + 2] * boxed) % q>>
<1> DEFINE Boxed(p) == (Sbox(p[1]) + C[10 + r]) % q
           Layer(p) == <<(p[2] * S[3 * r + 1] + S[3 * r] * Boxed(p)) % q,
                         (p[2] + S[3 * r + 2] * Boxed(p)) % q>>
<1>1. PartialRound(r) = [p \in Field \X Field |-> Layer(p)]
  BY Zenon DEF PartialRound
<1>2. PartialRound(r)[s] = Layer(s)
  <2> HIDE DEF Layer
  <2>1. QED
    BY <1>1, Zenon
<1>3. QED
  BY <1>2, Zenon

\* A partial round: one S-box, one constant and a sparse matrix.
LEMMA PartialLayer ==
  ASSUME NEW sv, Solved(sv), NEW r \in 0 .. 55
  PROVE  Pair(sv, MixS(r)) =
           PartialRound(r)[Pair(sv, IF r = 0 THEN Mix(3) ELSE MixS(r - 1))]
<1> DEFINE last == IF r = 0 THEN Mix(3) ELSE MixS(r - 1)
           c == MixS(r)
           box == sv[Out(SigmaP(r), 0)]
           a == sv[In(c, 0)]
           b == sv[In(c, 1)]
<1>1. box = Sbox(sv[Out(last, 0)]) /\ box \in Field /\ sv[Out(last, 0)] \in Field
  <2> DEFINE d == SigmaP(r)
  <2>1. /\ d \in Sigmas /\ d \in SubComponents /\ d \in 91 .. 146 /\ d >= 75
        /\ FromNumber(d, 0) = last
    BY Families DEF SigmaP, FromNumber, Mix, MixS
  <2>2. Inputs(d) = 1
    BY <2>1, PlacedSigma
  <2>3. sv[In(d, 0)] = Copied(sv, d, 0)
    BY <2>1, <2>2 DEF Solved
  <2>4. Copied(sv, d, 0) = sv[Out(FromNumber(d, 0), 0)]
    <3>1. d \in 75 .. 146 /\ ~ (d <= 90)
      BY <2>1
    <3>2. QED
      BY <3>1, CopiedToSigma
  <2> HIDE DEF d, last
  <2>5. /\ sv[Out(d, 0)] = Sbox(sv[Out(last, 0)]) /\ sv[Out(d, 0)] \in Field
        /\ sv[Out(last, 0)] \in Field
    BY <2>1, <2>3, <2>4, SigmaComputes
  <2>6. QED
    BY <2>5 DEF d
<1>2. /\ c \in 19 .. 74 /\ c \in SubComponents /\ c \in MixSs /\ c - 19 = r
      /\ FromNumber(c, 0) = SigmaP(r) /\ FromNumber(c, 1) = last
      /\ c - MixS(0) = r
  BY Families DEF MixS, Mix, SigmaP, FromNumber
<1>3. Inputs(c) = 2
  BY <1>2, PlacedTwo
<1>4. Copied(sv, c, 0) = Add(box, C[10 + r]) /\ Copied(sv, c, 1) = sv[Out(last, 1)]
  BY <1>2, CopiedToMixS
<1>5. /\ a = Copied(sv, c, 0) /\ b = Copied(sv, c, 1)
      /\ a \in Field /\ b \in Field /\ Computes(sv, c)
  BY <1>2, <1>3 DEF Solved
<1>6. C[10 + r] \in Field /\ \A i \in 0 .. 2 : S[3 * r + i] \in Field
  BY ConstantsInField
<1>7. a = (box + C[10 + r]) % q
  BY <1>1, <1>4, <1>5, <1>6, Arithmetic
<1>8. /\ sv[Out(c, 0)] = Add(Mul(S[3 * r], a), Mul(S[3 * r + 1], b))
      /\ sv[Out(c, 1)] = Add(b, Mul(a, S[3 * r + 2]))
  BY <1>2, <1>5 DEF Computes
<1>9. b = sv[Out(last, 1)]
  BY <1>4, <1>5
<1> DEFINE s0 == S[3 * r]
           s1 == S[3 * r + 1]
           s2 == S[3 * r + 2]
<1>10. s0 \in Field /\ s1 \in Field /\ s2 \in Field
  <2>1. S[3 * r + 0] \in Field /\ S[3 * r + 1] \in Field /\ S[3 * r + 2] \in Field
    BY <1>6
  <2>2. 3 * r + 0 = 3 * r
    OBVIOUS
  <2>3. QED
    BY <2>1, <2>2
<1> HIDE DEF a, b, box, last, c
<1>11. /\ sv[Out(c, 0)] = Add(Mul(s0, a), Mul(s1, b))
       /\ sv[Out(c, 1)] = Add(b, Mul(a, s2))
  BY <1>8
<1>12. PartialRound(r)[Pair(sv, last)]
         = <<(b * s1 + s0 * a) % q, (b + s2 * a) % q>>
  <2> DEFINE p == Pair(sv, last)
             boxed == (Sbox(p[1]) + C[10 + r]) % q
  <2>1. p \in Field \X Field
    BY <1>1, <1>5, <1>9 DEF Pair
  <2>2. p[1] = sv[Out(last, 0)] /\ p[2] = b
    BY <1>9 DEF Pair
  <2>3. PartialRound(r)[p] = <<(p[2] * S[3 * r + 1] + S[3 * r] * boxed) % q,
                               (p[2] + S[3 * r + 2] * boxed) % q>>
    <3> HIDE DEF p
    <3>1. QED
      BY <2>1, PartialRoundAt, Zenon
  <2>4. boxed = a
    BY <1>1, <1>7, <2>2
  <2> HIDE DEF p, boxed
  <2>5. QED
    BY <2>2, <2>3, <2>4 DEF p
<1> HIDE DEF s0, s1, s2
<1>13. /\ Mul(s0, a) = (s0 * a) % q /\ Mul(s1, b) = (s1 * b) % q
       /\ Mul(a, s2) = (a * s2) % q
       /\ s0 * a \in Int /\ s1 * b \in Int /\ a * s2 \in Int /\ b \in Int
       /\ s1 * b = b * s1 /\ a * s2 = s2 * a /\ b * s1 + s0 * a = s0 * a + s1 * b
  <2>1. a \in Int /\ b \in Int /\ s0 \in Int /\ s1 \in Int /\ s2 \in Int
    BY <1>5, <1>10, FieldInt
  <2>2. /\ Mul(s0, a) = (s0 * a) % q /\ Mul(s1, b) = (s1 * b) % q
        /\ Mul(a, s2) = (a * s2) % q
    BY <1>5, <1>10, Arithmetic
  <2>3. QED
    BY <2>1, <2>2
<1> DEFINE t0 == s0 * a
           t1 == s1 * b
           t2 == a * s2
<1> HIDE DEF t0, t1, t2
<1>14. /\ t0 % q \in Field /\ t1 % q \in Field /\ t2 % q \in Field
       /\ ((t0 % q) + (t1 % q)) % q = (t0 + t1) % q
       /\ (b + (t2 % q)) % q = (b + t2) % q
  BY <1>13, ModCong, SumMod DEF t0, t1, t2
<1>15. sv[Out(c, 0)] = (t0 + t1) % q /\ sv[Out(c, 1)] = (b + t2) % q
  <2>1. /\ sv[Out(c, 0)] = Add(t0 % q, t1 % q)
        /\ sv[Out(c, 1)] = Add(b, t2 % q)
    BY <1>11, <1>13 DEF t0, t1, t2
  <2>2. QED
    BY <1>5, <1>14, <2>1, Arithmetic
<1>16. Pair(sv, c) = PartialRound(r)[Pair(sv, last)]
  BY <1>12, <1>13, <1>15 DEF Pair, t0, t1, t2
<1>17. QED
  BY <1>16 DEF c, last

\* Before the first round, a constant is added to 0 and one to w.
LEMMA FirstLayer ==
  ASSUME NEW sv, Solved(sv)
  PROVE  Pair(sv, Ark(0)) = <<C[0] % q, (sv[3] + C[1]) % q>>
<1>1. Ark(0) = 3 /\ 3 \in SubComponents /\ ArkConstant[0] = 0
  BY Families DEF Ark, ArkConstant
<1>2. Copied(sv, 3, 0) = 0 /\ Copied(sv, 3, 1) = sv[3]
  <2>1. Copied(sv, 3, 0) = sv[9] /\ Copied(sv, 3, 1) = sv[8]
    <3>1. /\ Copied(sv, 3, 0) = sv[7 + (IF 0 > 0 THEN 1 ELSE 2)]
          /\ Copied(sv, 3, 1) = sv[7 + (IF 1 > 0 THEN 1 ELSE 2)]
      BY CopiedFirst
    <3>2. QED
      BY <3>1
  <2>2. QED
    BY <2>1 DEF Solved
<1>3. /\ sv[Out(Ark(0), 0)] = (sv[In(Ark(0), 0)] + C[ArkConstant[0] + 0]) % q
      /\ sv[Out(Ark(0), 1)] = (sv[In(Ark(0), 1)] + C[ArkConstant[0] + 1]) % q
      /\ sv[In(Ark(0), 0)] = Copied(sv, Ark(0), 0)
      /\ sv[In(Ark(0), 1)] = Copied(sv, Ark(0), 1)
  BY ArkComputes
<1>4. C[0] \in Int
  BY ConstantsAssumption, FieldInt
<1>5. 0 + C[0] = C[0]
  BY <1>4
<1>6. QED
  BY <1>1, <1>2, <1>3, <1>5 DEF Pair

\* After the last, one S-box each and the first row of the matrix.
LEMMA LastLayer ==
  ASSUME NEW sv, Solved(sv)
  PROVE  sv[70] = Times(M, <<Sbox(Pair(sv, Mix(6))[1]), Sbox(Pair(sv, Mix(6))[2])>>)[1]
<1> DEFINE box(j) == sv[Out(SigmaF(7, j), 0)]
<1>1. ASSUME NEW j \in 0 .. 1
      PROVE  box(j) = Sbox(sv[Out(Mix(6), j)]) /\ box(j) \in Field
  <2> DEFINE d == SigmaF(7, j)
  <2>1. /\ d \in Sigmas /\ d \in SubComponents /\ d \in 89 .. 90
        /\ (d - 75) % 2 = j /\ (d - 75) \div 2 = 7
        /\ FromNumber(d, 0) = Mix(6)
    BY Families DEF SigmaF, FromNumber, Mix
  <2>2. Inputs(d) = 1
    BY <2>1, PlacedSigma
  <2>3. sv[In(d, 0)] = Copied(sv, d, 0)
    BY <2>1, <2>2 DEF Solved
  <2>4. Copied(sv, d, 0) = sv[Out(FromNumber(d, 0), j)]
    <3>1. d \in 75 .. 146 /\ d <= 90
      BY <2>1
    <3>2. QED
      BY <2>1, <3>1, CopiedToSigma
  <2> HIDE DEF d
  <2>5. sv[Out(d, 0)] = Sbox(sv[Out(Mix(6), j)]) /\ sv[Out(d, 0)] \in Field
    BY <2>1, <2>3, <2>4, SigmaComputes
  <2>6. QED
    BY <2>5 DEF d
<1>2. /\ MixLast \in SubComponents /\ MixLast = 18 /\ Inputs(MixLast) = 2
      /\ Out(MixLast, 0) = 70
  BY Families, PlacedLast
<1>3. /\ FromNumber(18, 0) = SigmaF(7, 0) /\ FromNumber(18, 1) = SigmaF(7, 1)
  BY DEF FromNumber, SigmaF
<1>4. Copied(sv, MixLast, 0) = box(0) /\ Copied(sv, MixLast, 1) = box(1)
  BY <1>2, <1>3, CopiedToLast
<1>5. /\ sv[In(MixLast, 0)] = box(0) /\ sv[In(MixLast, 1)] = box(1)
      /\ Computes(sv, MixLast)
  BY <1>2, <1>4 DEF Solved
<1>6. sv[70] = Row(M, 0, box(0), box(1))
  BY <1>2, <1>5 DEF Computes
<1> HIDE DEF box
<1>7. sv[70] = (M[0][0] * box(0) + M[1][0] * box(1)) % q
  BY <1>1, <1>6, RowSum
<1>8. sv[70] = Times(M, <<box(0), box(1)>>)[1]
  BY <1>7 DEF Times
<1>9. QED
  BY <1>1, <1>8 DEF Pair

\* The partial rounds of the reference are a recursive function; the sparse
\* layers of the circuit are the only one that satisfies its equation.
Partials(half, f) ==
  f = [k \in 0 .. 56 |-> IF k = 0 THEN half ELSE PartialRound(k - 1)[f[k - 1]]]

LEMMA PartialsAreLayers ==
  ASSUME NEW sv, Solved(sv), NEW f, Partials(Pair(sv, Mix(3)), f)
  PROVE  f[56] = Pair(sv, MixS(55))
<1> DEFINE g == [k \in 0 .. 56 |-> IF k = 0 THEN Pair(sv, Mix(3))
                                    ELSE Pair(sv, MixS(k - 1))]
           T == {k \in 0 .. 56 : f[k] # g[k]}
<1>1. SUFFICES ASSUME T # {} PROVE FALSE
  <2>1. 56 \notin T
    BY <1>1
  <2>2. QED
    BY <2>1
<1>2. PICK k \in T : \A l \in T : k <= l
  <2>1. T \in SUBSET Nat
    OBVIOUS
  <2> HIDE DEF T
  <2>2. QED
    BY <1>1, <2>1, Least
<1>3. k \in 0 .. 56 /\ f[k] # g[k]
  OBVIOUS
<1>4. f[k] = IF k = 0 THEN Pair(sv, Mix(3)) ELSE PartialRound(k - 1)[f[k - 1]]
  BY <1>3 DEF Partials
<1>5. k # 0
  BY <1>3, <1>4
<1>6. k - 1 \in 0 .. 55 /\ k - 1 \in 0 .. 56 /\ ~ (k <= k - 1)
  BY <1>3, <1>5
<1>7. f[k - 1] = g[k - 1]
  <2>1. k - 1 \notin T
    <3> HIDE DEF T
    <3>1. QED
      BY <1>2, <1>6
  <2>2. QED
    BY <1>6, <2>1
<1>8. g[k - 1] = Pair(sv, IF k - 1 = 0 THEN Mix(3) ELSE MixS((k - 1) - 1))
  BY <1>6
<1>9. g[k] = Pair(sv, MixS(k - 1))
  BY <1>3, <1>5
<1>10. Pair(sv, MixS(k - 1)) = PartialRound(k - 1)[g[k - 1]]
  <2>1. Pair(sv, MixS(k - 1)) =
          PartialRound(k - 1)[Pair(sv, IF k - 1 = 0 THEN Mix(3) ELSE MixS((k - 1) - 1))]
    BY <1>6, PartialLayer
  <2> HIDE DEF g
  <2>2. QED
    BY <1>8, <2>1
<1>11. QED
  BY <1>3, <1>4, <1>5, <1>7, <1>9, <1>10

LEMMA PartialsExist ==
  ASSUME NEW sv, Solved(sv)
  PROVE  \E f : Partials(Pair(sv, Mix(3)), f)
<1> DEFINE g == [k \in 0 .. 56 |-> IF k = 0 THEN Pair(sv, Mix(3))
                                    ELSE Pair(sv, MixS(k - 1))]
<1>1. ASSUME NEW k \in 0 .. 56
      PROVE  g[k] = IF k = 0 THEN Pair(sv, Mix(3)) ELSE PartialRound(k - 1)[g[k - 1]]
  <2>1. CASE k = 0
    BY <2>1
  <2>2. CASE k # 0
    <3>1. k - 1 \in 0 .. 55 /\ k - 1 \in 0 .. 56
      BY <2>2
    <3>2. g[k - 1] = Pair(sv, IF k - 1 = 0 THEN Mix(3) ELSE MixS((k - 1) - 1))
      BY <3>1
    <3>3. g[k] = Pair(sv, MixS(k - 1))
      BY <2>2
    <3>4. Pair(sv, MixS(k - 1)) =
            PartialRound(k - 1)[Pair(sv, IF k - 1 = 0 THEN Mix(3) ELSE MixS((k - 1) - 1))]
      BY <3>1, PartialLayer
    <3> HIDE DEF g
    <3>5. QED
      BY <2>2, <3>2, <3>3, <3>4
  <2>3. QED
    BY <2>1, <2>2
<1>2. g = [k \in 0 .. 56 |-> g[k]]
  OBVIOUS
<1> HIDE DEF g
<1>3. Partials(Pair(sv, Mix(3)), g)
  BY <1>1, <1>2 DEF Partials
<1>4. QED
  BY <1>3

LEMMA SolvedIsPoseidon ==
  ASSUME NEW sv, Solved(sv)
  PROVE  sv[70] = PoseidonHash(sv[3])
<1> DEFINE half == Pair(sv, Mix(3))
           f == CHOOSE f : Partials(half, f)
<1>1. /\ ArkConstant[1] = 2 /\ ArkConstant[2] = 4 /\ ArkConstant[3] = 6
      /\ ArkConstant[4] = 8 /\ ArkConstant[5] = 66 /\ ArkConstant[6] = 68
      /\ ArkConstant[7] = 70
  BY DEF ArkConstant
<1>2. /\ Pair(sv, Mix(0)) = FullRound(Pair(sv, Ark(0)), 2, M)
      /\ Pair(sv, Mix(1)) = FullRound(Pair(sv, Mix(0)), 4, M)
      /\ Pair(sv, Mix(2)) = FullRound(Pair(sv, Mix(1)), 6, M)
      /\ half = FullRound(Pair(sv, Mix(2)), 8, P)
  <2>1. Pair(sv, Mix(0)) = FullRound(Pair(sv, Ark(0)), ArkConstant[0 + 1], M)
    BY FullLayer
  <2>2. Pair(sv, Mix(1)) = FullRound(Pair(sv, Mix(1 - 1)), ArkConstant[1 + 1], M)
    BY FullLayer
  <2>3. Pair(sv, Mix(2)) = FullRound(Pair(sv, Mix(2 - 1)), ArkConstant[2 + 1], M)
    BY FullLayer
  <2>4. half = FullRound(Pair(sv, Mix(3 - 1)), ArkConstant[3 + 1], P)
    BY FullLayer
  <2>5. QED
    BY <1>1, <2>1, <2>2, <2>3, <2>4
<1>3. /\ Pair(sv, Mix(4)) = FullRound(Pair(sv, MixS(55)), 66, M)
      /\ Pair(sv, Mix(5)) = FullRound(Pair(sv, Mix(4)), 68, M)
      /\ Pair(sv, Mix(6)) = FullRound(Pair(sv, Mix(5)), 70, M)
  <2>1. Pair(sv, Mix(4)) = FullRound(Pair(sv, MixS(55)), ArkConstant[4 + 1], M)
    BY FullLayer
  <2>2. Pair(sv, Mix(5)) = FullRound(Pair(sv, Mix(5 - 1)), ArkConstant[5 + 1], M)
    BY FullLayer
  <2>3. Pair(sv, Mix(6)) = FullRound(Pair(sv, Mix(6 - 1)), ArkConstant[6 + 1], M)
    BY FullLayer
  <2>4. QED
    BY <1>1, <2>1, <2>2, <2>3
<1>4. f[56] = Pair(sv, MixS(55))
  <2>1. Partials(half, f)
    BY PartialsExist
  <2> HIDE DEF f
  <2>2. QED
    BY <2>1, PartialsAreLayers
<1> DEFINE first == <<C[0] % q, (sv[3] + C[1]) % q>>
           early == FullRound(FullRound(FullRound(first, 2, M), 4, M), 6, M)
           late == FullRound(FullRound(FullRound(f[56], 66, M), 68, M), 70, M)
<1>5. half = FullRound(early, 8, P)
  <2>1. Pair(sv, Ark(0)) = first
    BY FirstLayer
  <2> HIDE DEF first, half
  <2>2. QED
    BY <1>2, <2>1
<1>6. late = Pair(sv, Mix(6))
  <2> HIDE DEF f
  <2>1. QED
    BY <1>3, <1>4
<1>7. sv[70] = Times(M, <<Sbox(late[1]), Sbox(late[2])>>)[1]
  <2> HIDE DEF late
  <2>1. QED
    BY <1>6, LastLayer
<1>8. PoseidonHash(sv[3]) = Times(M, <<Sbox(late[1]), Sbox(late[2])>>)[1]
  <2> DEFINE part == CHOOSE g : Partials(FullRound(early, 8, P), g)
  <2>1. part = f
    <3> HIDE DEF half, early
    <3>1. QED
      BY <1>5
  <2>2. PoseidonHash(sv[3]) =
          LET full == FullRound(FullRound(FullRound(part[56], 66, M), 68, M), 70, M)
          IN  Times(M, <<Sbox(full[1]), Sbox(full[2])>>)[1]
    BY DEF PoseidonHash, Partials
  <2> HIDE DEF part, f
  <2>3. QED
    BY <2>1, <2>2
<1>9. QED
  BY <1>7, <1>8

LEMMA InvComputes == CircuitInv => ComputesPoseidon
<1> SUFFICES ASSUME CircuitInv, at.loop = "done" PROVE Satisfied(signalValues)
  BY DEF ComputesPoseidon
<1> DEFINE sv == signalValues
<1>1. PICK n \in -1 .. 219 :
        Position(at, n) /\ IF n = -1 THEN Waiting ELSE Running(n)
  BY DEF CircuitInv
<1>2. n = 219 /\ Running(219)
  BY <1>1 DEF Position
<1>3. /\ sv[1] = sv[5] /\ sv[4] = Mul(sv[2], sv[2])
      /\ sv[5] = sv[7] /\ sv[7] = sv[70]
  BY <1>2 DEF Running, Ended
<1>4. /\ Started(sv, inputCounter, runs)
      /\ \A c \in SubComponents : Ready(c, 219, sv, inputCounter, runs)
  BY <1>2 DEF Running, Filled
<1>5. Solved(sv)
  <2>1. ASSUME NEW c \in SubComponents
        PROVE  /\ Computes(sv, c)
               /\ \A k \in 0 .. 1 : k < Inputs(c) => /\ sv[In(c, k)] \in Field
                                                     /\ sv[In(c, k)] = Copied(sv, c, k)
    <3>1. Last(c) < 219 /\ \A k \in 0 .. 1 : Due(c, k) < 219
      BY DueLast
    <3>2. QED
      BY <1>4, <3>1 DEF Ready
  <2>2. QED
    BY <1>4, <2>1 DEF Solved, Started
<1>6. sv[2] \in Field
  BY <1>4 DEF Started
<1>7. sv[4] = (sv[2] * sv[2]) % q
  BY <1>3, <1>6, Arithmetic
<1>8. sv[70] = PoseidonHash(sv[3])
  BY <1>5, SolvedIsPoseidon
<1>9. QED
  BY <1>3, <1>7, <1>8 DEF Satisfied

\* A circuit that ends has computed the Poseidon hash of w and the square of the
\* intent, and the hash is the identity it was given.
THEOREM CircuitComputesPoseidon == CircuitSpec => []ComputesPoseidon
BY InvComputes, CircuitInvariant, PTL

-----------------------------------------------------------------------------
(***************************************************************************)
(* The program around the circuit.  The loader sets each input of main     *)
(* once and starts the circuit with the third, or gives up: what it does   *)
(* to the circuit is what Circuit allows, so that all of the above holds.  *)
(***************************************************************************)
\* The entry of the hash map a key is found at is one of the map.
LEMMA EntryOfMap ==
  ASSUME NEW it \in Item, Found(Fnv[it.key]) # {}
  PROVE  /\ Entry(it).signalid \in Nat /\ Entry(it).signalsize \in Nat
         /\ Entry(it).signalsize > 0 =>
              /\ Entry(it).signalid >= 1
              /\ Entry(it).signalid + Entry(it).signalsize <= 4
<1> DEFINE h == Fnv[it.key]
           i == CHOOSE i \in Found(h) : \A k \in Found(h) : i <= k
<1>1. h \in Nat
  BY HashMapAssumption DEF Item
<1>2. Found(h) \in SUBSET Nat /\ Found(h) \subseteq 0 .. HashSize - 1
  BY HashMapAssumption DEF Found
<1>3. \E j \in Found(h) : \A k \in Found(h) : j <= k
  BY <1>2, Least
<1>4. i \in Found(h)
  BY <1>3
<1>5. h + i \in Nat
  BY <1>1, <1>2, <1>4
<1>6. getInputSignalHashPosition(h) = (h + i) % HashSize
  BY DEF getInputSignalHashPosition
<1> HIDE DEF h, i
<1>7. (h + i) % HashSize \in 0 .. HashSize - 1
  BY <1>5, HashMapAssumption
<1>8. Entry(it) = InputHashMap[(h + i) % HashSize]
  BY <1>6 DEF Entry, h
<1>9. QED
  BY <1>7, <1>8, HashMapAssumption

\* The values of an item that is accepted are for inputs of main that are not
\* set, one each.
ValuesFor(it) ==
  [s \in Targets(it) |-> it.values[s - Entry(it).signalid + 1]]

LEMMA TargetsOfMain ==
  ASSUME NEW it \in Item, Accepts(it)
  PROVE  /\ Targets(it) \subseteq (1 .. 3) \ inputSignalAssigned
         /\ ValuesFor(it) \in [Targets(it) -> Field]
         /\ Targets(it) # {} => Remaining > 0
<1> DEFINE id == Entry(it).signalid
           n == Len(it.values)
<1>1. /\ it.values \in Seq(Field) /\ n \in Nat
      /\ DOMAIN it.values = 1 .. n
      /\ \A i \in 1 .. n : it.values[i] \in Field
  BY DEF Item
<1>2. /\ n = Entry(it).signalsize /\ Targets(it) \cap inputSignalAssigned = {}
      /\ n > 0 => Remaining > 0
  BY DEF Accepts
<1>3. id \in Nat /\ (n > 0 => id >= 1 /\ id + n <= 4)
  BY <1>2, EntryOfMap DEF Accepts
<1>4. Targets(it) = {id + i - 1 : i \in 1 .. n}
  BY <1>1 DEF Targets
<1> HIDE DEF id, n
<1>5. \A s \in Targets(it) : s \in 1 .. 3 /\ s - id + 1 \in 1 .. n /\ n > 0
  <2> SUFFICES ASSUME NEW i \in 1 .. n
               PROVE  /\ id + i - 1 \in 1 .. 3 /\ (id + i - 1) - id + 1 \in 1 .. n
                      /\ n > 0
    BY <1>4
  <2>1. QED
    BY <1>1, <1>3
<1>6. \A s \in Targets(it) : it.values[s - id + 1] \in Field
  BY <1>1, <1>5
<1>7. ValuesFor(it) = [s \in Targets(it) |-> it.values[s - id + 1]]
  BY DEF ValuesFor, id
<1>8. QED
  BY <1>2, <1>5, <1>6, <1>7

\* Counting the inputs that are set tells whether all are.
LEMMA CountInputs ==
  ASSUME NEW A \in SUBSET (1 .. 3), NEW T \in SUBSET ((1 .. 3) \ A)
  PROVE  /\ 3 - Cardinality(A) = Cardinality(T) <=> A \cup T = 1 .. 3
         /\ 3 - Cardinality(A) = 0 <=> A = 1 .. 3
         /\ A = 1 .. 3 => T = {}
<1>1. IsFiniteSet(1 .. 3) /\ Cardinality(1 .. 3) = 3
  <2>1. /\ IsFiniteSet(1 .. 3)
        /\ Cardinality(1 .. 3) = IF 1 > 3 THEN 0 ELSE 3 - 1 + 1
    <3>1. 1 \in Int /\ 3 \in Int
      OBVIOUS
    <3>2. QED
      BY <3>1, FS_Interval, Zenon
  <2>2. QED
    BY <2>1
<1>2. IsFiniteSet(A) /\ IsFiniteSet(T) /\ A \cup T \in SUBSET (1 .. 3)
  <2>1. T \in SUBSET (1 .. 3)
    OBVIOUS
  <2>2. QED
    BY <1>1, <2>1, FS_Subset
<1>3. /\ Cardinality(A) \in Nat /\ Cardinality(T) \in Nat
      /\ Cardinality(A \cup T) \in Nat
  <2>1. IsFiniteSet(A \cup T)
    BY <1>1, <1>2, FS_Subset
  <2>2. QED
    BY <1>2, <2>1, FS_CardinalityType
<1>4. A \cap T = {} /\ Cardinality({}) = 0
  BY FS_EmptySet
<1>5. Cardinality(A \cup T) = Cardinality(A) + Cardinality(T)
  <2>1. Cardinality(A \cup T) =
          Cardinality(A) + Cardinality(T) - Cardinality(A \cap T)
    BY <1>2, FS_Union
  <2>2. Cardinality(A \cap T) = 0
    BY <1>4
  <2>3. QED
    BY <1>3, <2>1, <2>2
<1>6. /\ Cardinality(A \cup T) = 3 <=> A \cup T = 1 .. 3
      /\ Cardinality(A) = 3 <=> A = 1 .. 3
  <2>1. Cardinality(A \cup T) = Cardinality(1 .. 3) => A \cup T = 1 .. 3
    BY <1>1, <1>2, FS_Subset
  <2>2. Cardinality(A) = Cardinality(1 .. 3) => A = 1 .. 3
    BY <1>1, FS_Subset
  <2>3. QED
    BY <1>1, <2>1, <2>2
<1>7. /\ 3 - Cardinality(A) = Cardinality(T) <=> Cardinality(A \cup T) = 3
      /\ 3 - Cardinality(A) = 0 <=> Cardinality(A) = 3
  BY <1>3, <1>5
<1>8. QED
  BY <1>6, <1>7

\* The inputs of main that have a value.
SetOf(sv) == {s \in 1 .. 3 : sv[s] # Undef}

\* The loader keeps book of what it has set, the circuit runs when that is all,
\* and the witness is what the circuit left.
LoadInv ==
  /\ doc \in Documents /\ items \in Seq(Item)
  /\ inputSignalAssigned \subseteq 1 .. 3
  /\ at.loop = "idle" => /\ inputSignalAssigned = SetOf(signalValues)
                         /\ inputSignalAssigned # 1 .. 3
  /\ at.loop \notin {"idle", "abort"} => inputSignalAssigned = 1 .. 3
  /\ signalValues[0] = 1
  /\ witness # <<>> => /\ at.loop = "done"
                       /\ witness = [s \in witness2SignalList |-> signalValues[s]]

LEMMA LoadInvInit == Init => LoadInv
<1> SUFFICES ASSUME Init PROVE LoadInv
  OBVIOUS
<1>1. /\ doc \in Documents /\ items = Flattened[doc].items
      /\ inputSignalAssigned = {} /\ witness = <<>>
      /\ signalValues = [s \in Signals |-> IF s = 0 THEN 1 % q ELSE Undef]
      /\ at.loop = "idle"
  BY DEF Init, CircuitInit
<1>2. items \in Seq(Item)
  BY <1>1, DocumentAssumption
<1>3. signalValues[0] = 1
  <2>1. 0 \in Signals /\ 1 \in Field
    BY Arithmetic DEF Signals, Field
  <2>2. 1 % q = 1
    BY <2>1, ModSmall
  <2>3. QED
    BY <1>1, <2>1, <2>2
<1>4. SetOf(signalValues) = {}
  <2>1. \A s \in 1 .. 3 : s \in Signals /\ s # 0
    BY DEF Signals
  <2>2. QED
    BY <1>1, <2>1 DEF SetOf
<1>5. 1 \in 1 .. 3
  OBVIOUS
<1>6. QED
  BY <1>1, <1>2, <1>3, <1>4, <1>5 DEF LoadInv

\* Giving up is giving up in the circuit too.
LEMMA AbortGivesUp ==
  ASSUME LoadInv, Loading, Abort, UNCHANGED <<doc, witness>>
  PROVE  GiveUp /\ LoadInv'
<1>1. /\ at' = [loop |-> "abort", r |-> 0, j |-> 0]
      /\ UNCHANGED <<signalValues, inputCounter, runs, released,
                     doc, items, inputSignalAssigned, witness>>
      /\ witness = <<>> /\ at.loop \in {"idle", "done"}
  BY DEF Abort, Loading, Goto
<1>2. GiveUp
  BY <1>1 DEF GiveUp, Goto, At
<1>3. LoadInv'
  BY <1>1 DEF LoadInv
<1>4. QED
  BY <1>2, <1>3

\* The values of an item in place.
Given(sv, it, next) == next = WriteAll(sv, ValuesFor(it))

LEMMA GivenValues ==
  ASSUME NEW sv \in [Signals -> Cell], NEW it \in Item, Accepts(it),
         NEW next, Given(sv, it, next)
  PROVE  /\ next \in [Signals -> Cell]
         /\ \A s \in Targets(it) : next[s] \in Field
         /\ \A s \in Signals \ Targets(it) : next[s] = sv[s]
         /\ Targets(it) = {} => next = sv
<1> DEFINE T == Targets(it)
           f == ValuesFor(it)
<1>1. T \subseteq 1 .. 3 /\ f \in [T -> Field]
  BY TargetsOfMain
<1>2. T \subseteq Signals
  BY <1>1 DEF Signals
<1>3. next = [s \in Signals |-> IF s \in DOMAIN f THEN f[s] ELSE sv[s]]
  BY DEF Given, WriteAll
<1> HIDE DEF T, f
<1>4. DOMAIN f = T /\ \A s \in T : f[s] \in Field /\ f[s] \in Cell
  BY <1>1 DEF Cell
<1>5. /\ next \in [Signals -> Cell]
      /\ \A s \in T : next[s] \in Field
      /\ \A s \in Signals \ T : next[s] = sv[s]
  BY <1>2, <1>3, <1>4
<1>6. T = {} => next = sv
  BY <1>3, <1>4
<1>7. QED
  BY <1>5, <1>6 DEF T

\* An item that is accepted is inputs of main, or nothing at all.
LEMMA SetSignalsSets ==
  ASSUME CircuitInv, LoadInv, Loading, items # <<>>, Accepts(Head(items)),
         SetSignals(Head(items)), UNCHANGED <<doc, witness>>
  PROVE  (SetInputs \/ UNCHANGED circuitVars) /\ LoadInv'
<1> DEFINE it == Head(items)
           A == inputSignalAssigned
           T == Targets(it)
           sv == WriteAll(signalValues, ValuesFor(it))
<1>1. it \in Item /\ Tail(items) \in Seq(Item)
  BY DEF LoadInv
<1>2. /\ A' = A \cup T /\ items' = Tail(items)
      /\ IF T # {} /\ Remaining = Cardinality(T) THEN Start(sv)
         ELSE signalValues' = sv /\ UNCHANGED <<inputCounter, runs, released, at>>
      /\ UNCHANGED <<doc, witness>> /\ Accepts(it)
  BY DEF SetSignals, ValuesFor
<1>3. /\ at.loop \in {"idle", "done"} /\ witness = <<>> /\ witness' = <<>>
  BY DEF Loading
<1>4. PICK n \in -1 .. 219 :
        Position(at, n) /\ IF n = -1 THEN Waiting ELSE Running(n)
  BY DEF CircuitInv
<1>5. signalValues \in [Signals -> Cell]
  BY <1>4 DEF Waiting, Running, Filled, Started
<1>6. T \subseteq (1 .. 3) \ A /\ ValuesFor(it) \in [T -> Field] /\ A \subseteq 1 .. 3
  BY <1>1, <1>2, TargetsOfMain DEF LoadInv
<1>7. /\ sv \in [Signals -> Cell]
      /\ \A s \in T : sv[s] \in Field
      /\ \A s \in Signals \ T : sv[s] = signalValues[s]
      /\ T = {} => sv = signalValues
  BY <1>1, <1>2, <1>5, GivenValues DEF Given
<1>8. /\ Remaining = Cardinality(T) <=> A \cup T = 1 .. 3
      /\ A = 1 .. 3 => T = {}
  BY <1>6, CountInputs DEF Remaining
<1>9. doc' \in Documents /\ items' \in Seq(Item) /\ A' \subseteq 1 .. 3
  BY <1>1, <1>2, <1>6 DEF LoadInv
<1> HIDE DEF it, T, sv
<1>10. CASE at.loop = "done"
  <2>1. T = {}
    BY <1>8, <1>10 DEF LoadInv
  <2>2. UNCHANGED circuitVars /\ A' = A
    BY <1>2, <1>7, <2>1 DEF circuitVars
  <2>3. LoadInv'
    BY <1>3, <1>9, <2>2 DEF LoadInv, circuitVars
  <2>4. QED
    BY <2>2, <2>3
<1>11. CASE at.loop = "idle" /\ T = {}
  <2>1. UNCHANGED circuitVars /\ A' = A
    BY <1>2, <1>7, <1>11 DEF circuitVars
  <2>2. LoadInv'
    BY <1>3, <1>9, <2>1 DEF LoadInv, circuitVars
  <2>3. QED
    BY <2>1, <2>2
<1>12. CASE at.loop = "idle" /\ T # {}
  <2>1. A = SetOf(signalValues) /\ signalValues[0] = 1
    BY <1>12 DEF LoadInv
  <2>2. T \in SUBSET {s \in 1 .. 3 : signalValues[s] = Undef}
    BY <1>6, <2>1 DEF SetOf
  <2>3. SetOf(sv) = A \cup T
    <3>1. ASSUME NEW s \in 1 .. 3
          PROVE  sv[s] # Undef <=> s \in A \cup T
      <4>1. s \in Signals
        BY DEF Signals
      <4>2. CASE s \in T
        BY <1>7, <4>2, Arithmetic
      <4>3. CASE s \notin T
        BY <1>7, <2>1, <4>1, <4>3 DEF SetOf
      <4>4. QED
        BY <4>2, <4>3
    <3>2. QED
      BY <1>6, <3>1 DEF SetOf
  <2>4. A \cup T = 1 .. 3 <=> \A s \in 1 .. 3 : sv[s] # Undef
    BY <2>3 DEF SetOf
  <2>5. IF \A s \in 1 .. 3 : sv[s] # Undef THEN Start(sv)
        ELSE signalValues' = sv /\ UNCHANGED <<inputCounter, runs, released, at>>
    BY <1>2, <1>8, <1>12, <2>4
  <2>6. SetInputs
    <3> DEFINE f == ValuesFor(it)
    <3>1. f \in [T -> Field] /\ sv = WriteAll(signalValues, f)
      BY <1>6 DEF sv, it
    <3> HIDE DEF f
    <3>2. At("idle")
      BY <1>12 DEF At
    <3>3. QED
      BY <1>12, <2>2, <2>5, <3>1, <3>2 DEF SetInputs
  <2>7. sv[0] = 1 /\ 0 \in Signals
    <3>1. 0 \in Signals /\ 0 \notin T
      BY <1>6 DEF Signals
    <3>2. QED
      BY <1>7, <2>1, <3>1
  <2>8. CASE A \cup T = 1 .. 3
    <3>1. at' = [loop |-> "first", r |-> 0, j |-> 0]
      BY <2>4, <2>5, <2>8 DEF Start
    <3>2. Keeps
      BY <2>6, CircuitInvNext DEF CircuitNext
    <3>3. signalValues'[0] = 1
      BY <2>1, <2>7, <3>2, Arithmetic DEF Keeps, Undef
    <3>4. LoadInv'
      BY <1>2, <1>3, <1>9, <2>8, <3>1, <3>3 DEF LoadInv
    <3>5. QED
      BY <2>6, <3>4
  <2>9. CASE A \cup T # 1 .. 3
    <3>1. signalValues' = sv /\ at' = at
      BY <2>4, <2>5, <2>9
    <3>2. LoadInv'
      BY <1>2, <1>3, <1>9, <1>12, <2>3, <2>7, <2>9, <3>1 DEF LoadInv
    <3>3. QED
      BY <2>6, <3>2
  <2>10. QED
    BY <2>8, <2>9
<1>13. QED
  BY <1>3, <1>10, <1>11, <1>12

\* What a step of the program does to the circuit is a step of the circuit.
LEMMA ProgramStep ==
  ASSUME CircuitInv, LoadInv, [Next]_vars
  PROVE  [CircuitNext]_circuitVars /\ LoadInv'
<1>1. CASE LoadItem
  <2>1. Loading /\ items # <<>> /\ UNCHANGED <<doc, witness>>
    BY <1>1 DEF LoadItem
  <2>2. CASE Accepts(Head(items))
    <3>1. SetSignals(Head(items))
      BY <1>1, <2>2 DEF LoadItem
    <3>2. (SetInputs \/ UNCHANGED circuitVars) /\ LoadInv'
      BY <2>1, <2>2, <3>1, SetSignalsSets
    <3>3. QED
      BY <3>2 DEF CircuitNext
  <2>3. CASE ~ Accepts(Head(items))
    <3>1. Abort
      BY <1>1, <2>3 DEF LoadItem
    <3>2. GiveUp /\ LoadInv'
      BY <2>1, <3>1, AbortGivesUp
    <3>3. QED
      BY <3>2 DEF CircuitNext
  <2>4. QED
    BY <2>2, <2>3
<1>2. CASE Finish
  <2>1. Loading /\ UNCHANGED doc
    BY <1>2 DEF Finish
  <2>2. CASE Remaining # 0 \/ Flattened[doc].mixed
    <3>1. Abort /\ UNCHANGED witness
      BY <1>2, <2>2 DEF Finish
    <3>2. GiveUp /\ LoadInv'
      BY <2>1, <3>1, AbortGivesUp
    <3>3. QED
      BY <3>2 DEF CircuitNext
  <2>3. CASE ~ (Remaining # 0 \/ Flattened[doc].mixed)
    <3>1. /\ witness' = [s \in witness2SignalList |-> signalValues[s]]
          /\ UNCHANGED <<circuitVars, items, inputSignalAssigned>>
      BY <1>2, <2>3 DEF Finish
    <3>2. at.loop = "done"
      <4>1. /\ inputSignalAssigned \in SUBSET (1 .. 3)
            /\ {} \in SUBSET ((1 .. 3) \ inputSignalAssigned)
        BY DEF LoadInv
      <4>2. inputSignalAssigned = 1 .. 3
        BY <2>3, <4>1, CountInputs DEF Remaining
      <4>3. QED
        BY <2>1, <4>2 DEF LoadInv, Loading
    <3>3. LoadInv'
      BY <2>1, <3>1, <3>2 DEF LoadInv, circuitVars
    <3>4. QED
      BY <3>1, <3>3
  <2>4. QED
    BY <2>2, <2>3
<1>3. CASE Compute
  <2>1. CircuitStep /\ UNCHANGED <<doc, items, inputSignalAssigned, witness>>
    BY <1>3 DEF Compute
  <2>2. PICK n \in -1 .. 219 :
          Position(at, n) /\ IF n = -1 THEN Waiting ELSE Running(n)
    BY DEF CircuitInv
  <2>3. /\ at.loop \notin {"idle", "done", "abort"} /\ Keeps
        /\ \E m \in 0 .. 219 : Position(at', m) /\ Running(m)'
    BY <2>1, <2>2, StepRuns
  <2>4. at'.loop # "idle"
    <3>1. PICK m \in 0 .. 219 : Position(at', m)
      BY <2>3
    <3>2. QED
      BY <3>1 DEF Position
  <2>5. signalValues'[0] = 1
    <3>1. 0 \in Signals /\ signalValues[0] = 1
      BY DEF LoadInv, Signals
    <3>2. QED
      BY <2>3, <3>1, Arithmetic DEF Keeps, Undef
  <2>6. inputSignalAssigned = 1 .. 3 /\ witness = <<>>
    BY <2>3 DEF LoadInv
  <2>7. LoadInv'
    BY <2>1, <2>4, <2>5, <2>6 DEF LoadInv
  <2>8. QED
    BY <2>1, <2>7 DEF CircuitNext
<1>4. CASE UNCHANGED vars
  <2>1. UNCHANGED circuitVars /\ UNCHANGED <<doc, items, inputSignalAssigned, witness>>
    BY <1>4 DEF vars
  <2>2. LoadInv'
    BY <2>1 DEF LoadInv, circuitVars
  <2>3. QED
    BY <2>1, <2>2
<1>5. QED
  BY <1>1, <1>2, <1>3, <1>4 DEF Next

LEMMA ProgramInvariant == Spec => [](CircuitInv /\ LoadInv)
<1>1. Init => CircuitInv /\ LoadInv
  BY LoadInvInit, CircuitInvInit DEF Init
<1>2. CircuitInv /\ LoadInv /\ [Next]_vars => (CircuitInv /\ LoadInv)'
  <2> SUFFICES ASSUME CircuitInv, LoadInv, [Next]_vars PROVE (CircuitInv /\ LoadInv)'
    OBVIOUS
  <2>1. [CircuitNext]_circuitVars /\ LoadInv'
    BY ProgramStep
  <2>2. CASE CircuitNext
    BY <2>1, <2>2, CircuitInvNext
  <2>3. CASE UNCHANGED circuitVars
    BY <2>1, <2>3 DEF circuitVars, CircuitInv, Waiting, Running
  <2>4. QED
    BY <2>1, <2>2, <2>3
<1>3. QED
  BY <1>1, <1>2, PTL DEF Spec

\* The program runs the circuit as Circuit describes it: whatever the document,
\* it sets inputs of main, each once, and starts it with the last.
THEOREM ProgramImplementsCircuit == Spec => CircuitSpec
<1>1. Init => CircuitInit
  BY DEF Init
<1>2. CircuitInv /\ LoadInv /\ [Next]_vars => [CircuitNext]_circuitVars
  BY ProgramStep
<1>3. QED
  BY <1>1, <1>2, ProgramInvariant, PTL DEF Spec, CircuitSpec

LEMMA InvTypes == CircuitInv /\ LoadInv => TypeOK
<1> SUFFICES ASSUME CircuitInv, LoadInv PROVE TypeOK
  OBVIOUS
<1>1. PICK n \in -1 .. 219 :
        Position(at, n) /\ IF n = -1 THEN Waiting ELSE Running(n)
  BY DEF CircuitInv
<1>2. doc \in Documents /\ items \in Seq(Item) /\ inputSignalAssigned \subseteq 1 .. 3
  BY DEF LoadInv
<1>3. CASE n = -1
  <2>1. /\ signalValues \in [Signals -> Cell] /\ inputCounter = <<>>
        /\ runs = [c \in Components |-> 0] /\ released = {}
    BY <1>1, <1>3 DEF Waiting
  <2>2. QED
    BY <1>2, <2>1 DEF TypeOK, Cell
<1>4. CASE n # -1
  <2>1. n \in 0 .. 219 /\ Running(n)
    BY <1>1, <1>4
  <2>2. Started(signalValues, inputCounter, runs)
    BY <2>1 DEF Running, Filled
  <2>3. /\ signalValues \in [Signals -> Cell] /\ runs \in [Components -> Nat]
        /\ inputCounter \in [Components -> Nat]
    BY <2>2 DEF Started
  <2>4. ASSUME NEW c \in Components
        PROVE  inputCounter[c] \in 0 .. Inputs(c)
    <3>1. CASE c = Main
      <4>1. Inputs(c) = 3
        BY <3>1, Families DEF Inputs, Main, Poseidon
      <4>2. QED
        BY <2>2, <3>1, <4>1 DEF Started
    <3>2. CASE c \in {Poseidon, PoseidonEx}
      <4>1. inputCounter[c] = 0
        BY <2>2, <3>2 DEF Started
      <4>2. Inputs(c) \in 1 .. 3
        BY DEF Inputs
      <4>3. QED
        BY <4>1, <4>2
    <3>3. CASE c \in SubComponents
      <4>1. Inputs(c) \in 1 .. 2
        BY <3>3, PlacedInArray
      <4>2. Ready(c, n, signalValues, inputCounter, runs)
        BY <2>1, <3>3 DEF Running, Filled
      <4>3. inputCounter[c] \in {0, 1, Inputs(c)}
        BY <4>2 DEF Ready
      <4>4. QED
        BY <4>1, <4>3
    <3>4. QED
      BY <3>1, <3>2, <3>3 DEF Components
  <2>5. released \subseteq Components
    BY <2>1 DEF Running, Ended, Components
  <2>6. QED
    BY <1>2, <2>3, <2>4, <2>5 DEF TypeOK, Cell
<1>5. QED
  BY <1>3, <1>4

THEOREM TypeCorrect == Spec => []TypeOK
BY InvTypes, ProgramInvariant, PTL

\* The witness has signals of main and of components that ran.
LEMMA WitnessSignals ==
  /\ 0 .. 4 \subseteq witness2SignalList
  /\ \A s \in witness2SignalList :
       s \in 0 .. 4 \/ \E c \in SubComponents : s \in SignalsOf(c)
<1>1. ASSUME NEW c \in SubComponents, NEW j \in 0 .. 3, c # MixLast
      PROVE  Out(c, j) \in SignalsOf(c)
  <2> DEFINE start == signalStart[c]
  <2>1. start \in 10 .. 581
    BY Placed
  <2>2. SignalsOf(c) = start .. start + 3
    BY <1>1, Placed DEF MixLast
  <2>3. Out(c, j) = start + j
    BY DEF Out
  <2> HIDE DEF start
  <2>4. start + j \in start .. start + 3
    BY <2>1
  <2>5. QED
    BY <2>2, <2>3, <2>4
<1>2. /\ \A i \in 0 .. 7 : Ark(i) \in SubComponents /\ Ark(i) # MixLast
      /\ \A c \in Mixes \cup MixSs \cup Sigmas : c \in SubComponents /\ c # MixLast
      /\ \A r \in 0 .. 55 : SigmaP(r) \in SubComponents /\ SigmaP(r) # MixLast
      /\ MixLast \in SubComponents
  BY Families DEF Ark, SigmaP, MixLast
<1>3. \A j \in 0 .. 1 : In(MixLast, j) \in SignalsOf(MixLast)
  <2>1. Inputs(MixLast) = 2
    BY Families DEF Inputs, Main, Poseidon
  <2>2. \A j \in 0 .. 1 : j \in 0 .. Inputs(MixLast) - 1
    BY <2>1
  <2>3. QED
    BY <1>2, <2>2, PlacedInArray
<1>4. 0 .. 1 \subseteq 0 .. 3 /\ 0 .. 2 \subseteq 0 .. 3 /\ 2 .. 3 \subseteq 0 .. 3
      /\ 0 \in 0 .. 3 /\ 0 \in 0 .. 7 /\ 1 .. 7 \subseteq 0 .. 7
  OBVIOUS
<1>5. ASSUME NEW s \in witness2SignalList
      PROVE  s \in 0 .. 4 \/ \E c \in SubComponents : s \in SignalsOf(c)
  <2>1. \/ s \in 0 .. 4
        \/ \E j \in 0 .. 1 : s = Out(Ark(0), j)
        \/ \E i \in 1 .. 7 : s \in SignalsOf(Ark(i))
        \/ \E c \in Mixes, j \in 0 .. 1 : s = Out(c, j)
        \/ \E j \in 0 .. 1 : s = In(MixLast, j)
        \/ \E c \in MixSs, j \in 0 .. 2 : s = Out(c, j)
        \/ \E c \in Sigmas, j \in 2 .. 3 : s = Out(c, j)
        \/ \E r \in 0 .. 55 : s = Out(SigmaP(r), 0)
    <3> DEFINE ark == {Out(Ark(0), j) : j \in 0 .. 1}
               arks == UNION {SignalsOf(Ark(i)) : i \in 1 .. 7}
               mixes == {Out(c, j) : c \in Mixes, j \in 0 .. 1}
               last == {In(MixLast, j) : j \in 0 .. 1}
               sparse == {Out(c, j) : c \in MixSs, j \in 0 .. 2}
               sigmas == {Out(c, j) : c \in Sigmas, j \in 2 .. 3}
               partial == {Out(SigmaP(r), 0) : r \in 0 .. 55}
    <3>1. witness2SignalList = (0 .. 4) \cup ark \cup arks \cup mixes \cup last
                                 \cup sparse \cup sigmas \cup partial
      BY DEF witness2SignalList
    <3>2. s \in arks => \E i \in 1 .. 7 : s \in SignalsOf(Ark(i))
      OBVIOUS
    <3>3. /\ s \in mixes => \E c \in Mixes, j \in 0 .. 1 : s = Out(c, j)
          /\ s \in sparse => \E c \in MixSs, j \in 0 .. 2 : s = Out(c, j)
          /\ s \in sigmas => \E c \in Sigmas, j \in 2 .. 3 : s = Out(c, j)
      OBVIOUS
    <3>4. /\ s \in ark => \E j \in 0 .. 1 : s = Out(Ark(0), j)
          /\ s \in last => \E j \in 0 .. 1 : s = In(MixLast, j)
          /\ s \in partial => \E r \in 0 .. 55 : s = Out(SigmaP(r), 0)
      OBVIOUS
    <3> HIDE DEF ark, arks, mixes, last, sparse, sigmas, partial
    <3>5. s \in 0 .. 4 \/ s \in ark \/ s \in arks \/ s \in mixes \/ s \in last
            \/ s \in sparse \/ s \in sigmas \/ s \in partial
      BY <3>1
    <3>6. QED
      BY <3>2, <3>3, <3>4, <3>5
  <2>2. QED
    BY <1>1, <1>2, <1>3, <1>4, <2>1
<1>6. 0 .. 4 \subseteq witness2SignalList
  BY DEF witness2SignalList
<1>7. QED
  BY <1>5, <1>6

LEMMA InvSatisfies == CircuitInv /\ LoadInv => WitnessSatisfies
<1> SUFFICES ASSUME CircuitInv, LoadInv, witness # <<>>
             PROVE  /\ \A s \in DOMAIN witness : witness[s] \in Field
                    /\ witness[0] = 1
                    /\ Satisfied(witness)
  BY DEF WitnessSatisfies
<1>1. /\ at.loop = "done" /\ signalValues[0] = 1
      /\ witness = [s \in witness2SignalList |-> signalValues[s]]
  BY DEF LoadInv
<1>2. Satisfied(signalValues)
  BY <1>1, InvComputes DEF ComputesPoseidon
<1>3. \A s \in 0 .. 4 : witness[s] = signalValues[s]
  BY <1>1, WitnessSignals
<1>4. Satisfied(witness)
  BY <1>2, <1>3 DEF Satisfied
<1>5. Running(219)
  <2>1. PICK n \in -1 .. 219 :
          Position(at, n) /\ IF n = -1 THEN Waiting ELSE Running(n)
    BY DEF CircuitInv
  <2>2. n = 219
    BY <1>1, <2>1 DEF Position
  <2>3. QED
    BY <2>1, <2>2
<1>6. \A c \in SubComponents : \A s \in SignalsOf(c) : signalValues[s] \in Field
  <2>1. 219 \in 216 .. 219
    OBVIOUS
  <2>2. \A c \in SubComponents : Computes(signalValues, c)
    BY <1>5, <2>1, AllRan
  <2>3. QED
    BY <2>2 DEF Computes
<1>7. \A s \in 0 .. 4 : signalValues[s] \in Field
  <2>1. \A s \in 1 .. 3 : signalValues[s] \in Field
    BY <1>5 DEF Running, Filled, Started
  <2>2. signalValues[4] \in Field
    <3>1. signalValues[4] = Mul(signalValues[2], signalValues[2])
      BY <1>5 DEF Running, Ended
    <3>2. signalValues[2] \in Field
      BY <2>1
    <3>3. QED
      BY <3>1, <3>2, Arithmetic
  <2>3. signalValues[0] \in Field
    BY <1>1, Arithmetic DEF Field
  <2>4. \A s \in 0 .. 4 : s = 0 \/ s \in 1 .. 3 \/ s = 4
    OBVIOUS
  <2>5. QED
    BY <2>1, <2>2, <2>3, <2>4
<1>8. \A s \in DOMAIN witness : witness[s] \in Field
  BY <1>1, <1>6, <1>7, WitnessSignals
<1>9. QED
  BY <1>1, <1>3, <1>4, <1>8

\* Whatever the document, a witness that is written satisfies the circuit: its
\* identity is the Poseidon hash of its w, and no entry is unwritten memory.
THEOREM WitnessIsSatisfying == Spec => []WitnessSatisfies
BY InvSatisfies, ProgramInvariant, PTL

=============================================================================
