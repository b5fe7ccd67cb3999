------------------------- MODULE CBTreeWordsProofs -------------------------
(***************************************************************************)
(* The loops over the longs of a node implement the steps on whole pairs,  *)
(* for every geometry, every length of a key and every width of a long.    *)
(*                                                                         *)
(* Keys are numbers to the base Base, and longcmp orders them so.  A node  *)
(* is a vector of longs for each slot (View), a loop a chain of such views *)
(* with one move between each and the next (Goes), and memory in the       *)
(* middle of a loop the first view of what is left of the chain, with the  *)
(* next move made in part (Partly).                                        *)
(***************************************************************************)
EXTENDS CBTreeWords, TLAPS, WellFoundedInduction, SequenceTheorems

(* What holds up to n when it holds at 0 and goes on from each number.     *)
LEMMA UpTo ==
  ASSUME NEW n \in Nat, NEW T, 0 \in T, \A j \in 1 .. n : j - 1 \in T => j \in T
  PROVE  0 .. n \subseteq T
<1> SUFFICES ASSUME NEW m \in 0 .. n, m \notin T
             PROVE  FALSE
  OBVIOUS
<1> DEFINE S == {j \in 0 .. n : j \notin T}
<1>1. S \subseteq Nat /\ S # {}
  OBVIOUS
<1>2. PICK i \in S : \A j \in S : ~ (<<j, i>> \in OpToRel(<, Nat))
  BY <1>1, WFMin, NatLessThanWellFounded
<1>3. \A j \in S : ~ (j < i)
  BY <1>1, <1>2 DEF OpToRel
<1>4. i \in 0 .. n /\ i \notin T /\ i # 0
  OBVIOUS
<1>5. i \in 1 .. n /\ i - 1 \in 0 .. n /\ i - 1 < i
  BY <1>4
<1>6. i - 1 \in S
  BY <1>4, <1>5
<1> QED
  BY <1>3, <1>5, <1>6

-----------------------------------------------------------------------------
(* Keys as numbers                                                         *)

Digit == 0 .. (Base - 1)
Keys == [KeyWord -> Digit]

LEMMA Positions ==
  /\ KeyLen \in Nat /\ KeyLen >= 1 /\ Base \in Nat /\ Base >= 2
  /\ \A j \in KeyWord : j \in Nat /\ j + 1 \in 1 .. KeyLen
  /\ \A j \in 1 .. KeyLen : j - 1 \in KeyWord /\ j - 1 \in 0 .. KeyLen /\ j \in 0 .. KeyLen
  /\ 0 \in 0 .. KeyLen /\ KeyLen \in 0 .. KeyLen
BY GeometryAssumption, BaseAssumption DEF KeyWord

(* Appending a digit.                                                      *)
LEMMA Append1 ==
  ASSUME NEW a \in Nat, NEW x \in Digit
  PROVE  a * Base + x \in Nat /\ a * Base \in Nat /\ x \in Nat /\ x < Base
BY Positions DEF Digit

(* The recursive definition of Upto means what it says.                    *)
LEMMA UptoGoesOn ==
  ASSUME NEW k \in Keys
  PROVE  /\ Upto(k) \in [0 .. KeyLen -> Nat]
         /\ Upto(k)[0] = 0
         /\ \A j \in 1 .. KeyLen : Upto(k)[j] = Upto(k)[j - 1] * Base + k[j - 1]
<1> DEFINE Goes(f, m) == /\ f \in [0 .. m -> Nat] /\ f[0] = 0
                         /\ \A j \in 1 .. m : f[j] = f[j - 1] * Base + k[j - 1]
           T == {m \in 0 .. KeyLen : \E f : Goes(f, m)}
<1>1. 0 \in T
  <2>1. Goes([j \in 0 .. 0 |-> 0], 0)
    OBVIOUS
  <2> QED
    BY <2>1, Positions
<1>2. \A m \in 1 .. KeyLen : m - 1 \in T => m \in T
  <2> SUFFICES ASSUME NEW m \in 1 .. KeyLen, m - 1 \in T
               PROVE  m \in T
    OBVIOUS
  <2>1. PICK f : Goes(f, m - 1)
    OBVIOUS
  <2> DEFINE g == [j \in 0 .. m |-> IF j = m THEN f[m - 1] * Base + k[m - 1] ELSE f[j]]
  <2>2. m - 1 \in 0 .. (m - 1) /\ f[m - 1] \in Nat /\ k[m - 1] \in Digit
    BY <2>1, Positions DEF Keys
  <2>3. f[m - 1] * Base + k[m - 1] \in Nat
    BY <2>2, Append1
  <2>4. g \in [0 .. m -> Nat] /\ g[0] = 0
    BY <2>1, <2>3
  <2>5. \A j \in 1 .. m : g[j] = g[j - 1] * Base + k[j - 1]
    <3> SUFFICES ASSUME NEW j \in 1 .. m PROVE g[j] = g[j - 1] * Base + k[j - 1]
      OBVIOUS
    <3>1. g[j - 1] = f[j - 1]
      OBVIOUS
    <3>2. CASE j = m
      BY <3>1, <3>2
    <3>3. CASE j # m
      <4>1. j \in 1 .. (m - 1) /\ g[j] = f[j]
        BY <3>3
      <4> QED
        BY <2>1, <3>1, <4>1
    <3> QED
      BY <3>2, <3>3
  <2>6. Goes(g, m)
    BY <2>4, <2>5
  <2>7. m \in 0 .. KeyLen
    BY Positions
  <2> HIDE DEF Goes, g
  <2> QED
    BY <2>6, <2>7
<1>3. KeyLen \in T
  BY <1>1, <1>2, UpTo, Positions
<1>4. PICK f : Goes(f, KeyLen)
  BY <1>3
<1>5. f = [j \in 0 .. KeyLen |-> IF j = 0 THEN 0 ELSE f[j - 1] * Base + k[j - 1]]
  <2> DEFINE g == [j \in 0 .. KeyLen |-> IF j = 0 THEN 0 ELSE f[j - 1] * Base + k[j - 1]]
  <2>1. \A j \in 0 .. KeyLen : f[j] = g[j]
    BY <1>4, Positions
  <2> QED
    BY <1>4, <2>1
<1> DEFINE u == CHOOSE h : h = [j \in 0 .. KeyLen |-> IF j = 0 THEN 0 ELSE h[j - 1] * Base + k[j - 1]]
<1>6. u = [j \in 0 .. KeyLen |-> IF j = 0 THEN 0 ELSE u[j - 1] * Base + k[j - 1]]
  BY <1>5
<1>7. Upto(k) = u
  BY DEF Upto
<1> HIDE DEF u
<1>8. u[0] = 0 /\ \A j \in 1 .. KeyLen : u[j] = u[j - 1] * Base + k[j - 1]
  BY <1>6, Positions
<1>9. 0 .. KeyLen \subseteq {j \in 0 .. KeyLen : u[j] \in Nat}
  <2>1. \A j \in 1 .. KeyLen : u[j - 1] \in Nat => u[j] \in Nat
    <3> TAKE j \in 1 .. KeyLen
    <3> HAVE u[j - 1] \in Nat
    <3>1. k[j - 1] \in Digit
      BY Positions DEF Keys
    <3> QED
      BY <1>8, <3>1, Append1
  <2> DEFINE U == {j \in 0 .. KeyLen : u[j] \in Nat}
  <2>2. 0 \in U /\ \A j \in 1 .. KeyLen : j - 1 \in U => j \in U
    BY <1>8, <2>1, Positions
  <2> HIDE DEF U
  <2>3. 0 .. KeyLen \subseteq U
    BY <2>2, UpTo, Positions
  <2> QED
    BY <2>3 DEF U
<1> QED
  BY <1>6, <1>7, <1>8, <1>9

LEMMA NumberInNat ==
  ASSUME NEW k \in Keys
  PROVE  Number(k) \in Nat
BY UptoGoesOn, Positions DEF Number

(* The greater of two numbers stays so, whatever digits follow.            *)
LEMMA AppendKeepsOrder ==
  ASSUME NEW a \in Nat, NEW b \in Nat, a < b, NEW x \in Digit, NEW y \in Digit
  PROVE  a * Base + x < b * Base + y
<1>1. \A c \in Nat, d \in Nat : c * d \in Nat
  OBVIOUS
<1>2. (b - (a + 1)) * Base \in Nat /\ (b - (a + 1)) * Base = b * Base - a * Base - Base
  BY <1>1, Positions
<1>3. x \in Nat /\ y \in Nat /\ x < Base /\ Base \in Nat
  BY Positions DEF Digit
<1> DEFINE p == a * Base
           q == b * Base
           d == (b - (a + 1)) * Base
<1>4. p \in Nat /\ q \in Nat /\ d \in Nat /\ d = q - p - Base
  BY <1>1, <1>2, Positions
<1> HIDE DEF p, q, d
<1>5. p + x < q + y
  BY <1>3, <1>4
<1> QED
  BY <1>5 DEF p, q

(* The first long that differs decides.                                    *)
LEMMA FirstDecides ==
  ASSUME NEW k \in Keys, NEW l \in Keys, NEW t \in KeyWord,
         \A j \in KeyWord : j < t => k[j] = l[j], k[t] < l[t]
  PROVE  Number(k) < Number(l)
<1> DEFINE T == {j \in 0 .. KeyLen : IF j <= t THEN Upto(k)[j] = Upto(l)[j]
                                     ELSE Upto(k)[j] < Upto(l)[j]}
<1>1. t \in Nat /\ t + 1 \in 1 .. KeyLen
  BY Positions
<1>2. 0 \in T
  BY <1>1, UptoGoesOn, Positions
<1>3. \A j \in 1 .. KeyLen : j - 1 \in T => j \in T
  <2> SUFFICES ASSUME NEW j \in 1 .. KeyLen, j - 1 \in T
               PROVE  j \in T
    OBVIOUS
  <2> DEFINE a == Upto(k)[j - 1]
             b == Upto(l)[j - 1]
  <2>1. /\ j - 1 \in KeyWord /\ j - 1 \in 0 .. KeyLen /\ j \in 0 .. KeyLen
        /\ a \in Nat /\ b \in Nat /\ k[j - 1] \in Digit /\ l[j - 1] \in Digit
    BY UptoGoesOn, Positions DEF Keys
  <2>2. Upto(k)[j] = a * Base + k[j - 1] /\ Upto(l)[j] = b * Base + l[j - 1]
    BY UptoGoesOn
  <2>3. IF j - 1 <= t THEN a = b ELSE a < b
    OBVIOUS
  <2> HIDE DEF a, b
  <2>4. CASE j <= t
    <3>1. a = b /\ k[j - 1] = l[j - 1]
      BY <1>1, <2>1, <2>3, <2>4
    <3> QED
      BY <2>1, <2>2, <2>4, <3>1
  <2>5. CASE j = t + 1
    <3>1. a = b /\ k[j - 1] < l[j - 1]
      BY <1>1, <2>1, <2>3, <2>5
    <3>2. Upto(k)[j] < Upto(l)[j]
      BY <2>1, <2>2, <3>1, Append1
    <3> QED
      BY <1>1, <2>1, <2>5, <3>2
  <2>6. CASE j > t + 1
    <3>1. a < b
      BY <1>1, <2>1, <2>3, <2>6
    <3>2. Upto(k)[j] < Upto(l)[j]
      BY <2>1, <2>2, <3>1, AppendKeepsOrder
    <3> QED
      BY <1>1, <2>1, <2>6, <3>2
  <2> QED
    BY <1>1, <2>1, <2>4, <2>5, <2>6
<1> HIDE DEF T
<1>4. KeyLen \in T
  BY <1>2, <1>3, UpTo, Positions
<1> QED
  BY <1>1, <1>4, Positions DEF T, Number

(* A set of positions of longs that is not empty has a least one.          *)
LEMMA LeastKeyWord ==
  ASSUME NEW S, S \subseteq KeyWord, S # {}
  PROVE  Min(S) \in S /\ \A j \in S : Min(S) <= j
<1>1. S \subseteq Nat
  BY Positions
<1>2. PICK i \in S : \A j \in S : ~ (<<j, i>> \in OpToRel(<, Nat))
  BY <1>1, WFMin, NatLessThanWellFounded
<1>3. \A j \in S : ~ (j < i)
  BY <1>1, <1>2 DEF OpToRel
<1>4. \A j \in S : i <= j
  BY <1>1, <1>3
<1> QED
  BY <1>4 DEF Min

(* longcmp, by the first long that differs, orders keys of any length as   *)
(* their numbers are ordered, and calls those equal alone that are.        *)
THEOREM LongcmpOrders ==
  ASSUME NEW k \in Keys, NEW l \in Keys
  PROVE  /\ longcmp(k, l) \in {-1, 0, 1}
         /\ longcmp(k, l) < 0 <=> Number(k) < Number(l)
         /\ longcmp(k, l) = 0 <=> Number(k) = Number(l)
         /\ longcmp(k, l) = 0 <=> k = l
<1> DEFINE differ == {j \in KeyWord : k[j] # l[j]}
<1>1. Number(k) \in Nat /\ Number(l) \in Nat
  BY NumberInNat
<1>2. CASE differ = {}
  <2>1. k = l
    BY <1>2 DEF Keys
  <2> QED
    BY <1>1, <1>2, <2>1 DEF longcmp
<1>3. CASE differ # {}
  <2> DEFINE t == Min(differ)
  <2>1. t \in differ /\ \A j \in differ : t <= j
    BY <1>3, LeastKeyWord
  <2>2. longcmp(k, l) = IF k[t] < l[t] THEN -1 ELSE 1
    BY <1>3 DEF longcmp
  <2> HIDE DEF t
  <2>3. t \in KeyWord /\ k[t] # l[t] /\ k[t] \in Nat /\ l[t] \in Nat /\ k # l
    BY <2>1 DEF Keys, Digit
  <2>4. \A j \in KeyWord : j < t => k[j] = l[j]
    BY <2>1, Positions
  <2>5. CASE k[t] < l[t]
    <3>1. Number(k) < Number(l)
      BY <2>3, <2>4, <2>5, FirstDecides
    <3> QED
      BY <1>1, <2>2, <2>3, <2>5, <3>1
  <2>6. CASE l[t] < k[t]
    <3>1. Number(l) < Number(k)
      BY <2>3, <2>4, <2>6, FirstDecides
    <3> QED
      BY <1>1, <2>2, <2>3, <2>6, <3>1
  <2> QED
    BY <2>3, <2>5, <2>6
<1> QED
  BY <1>2, <1>3

Zero == [j \in KeyWord |-> 0]
Top == [j \in KeyWord |-> Base - 1]

LEMMA ExtremeKeys == Zero \in Keys /\ Top \in Keys
BY Positions DEF Zero, Top, Keys, Digit

(* Numbers of keys are those from 0 to that of the greatest key.           *)
LEMMA NumberRange ==
  ASSUME NEW k \in Keys
  PROVE  /\ Number(k) \in 0 .. Greatest /\ Greatest \in Nat \ {0}
         /\ Number(Zero) = 0 /\ Greatest = Number(Top)
         /\ Number(k) = 0 <=> k = Zero
<1>1. Greatest = Number(Top)
  BY DEF Greatest, Top
<1>2. \A l \in Keys : Number(l) \in Nat
  BY NumberInNat
<1>3. \A j \in 1 .. KeyLen : Upto(Zero)[j] = Upto(Zero)[j - 1] * Base
  <2>1. \A j \in 1 .. KeyLen : Zero[j - 1] = 0 /\ Upto(Zero)[j - 1] \in Nat
    BY ExtremeKeys, UptoGoesOn, Positions DEF Zero
  <2>2. \A j \in 1 .. KeyLen : Upto(Zero)[j] = Upto(Zero)[j - 1] * Base + Zero[j - 1]
    BY ExtremeKeys, UptoGoesOn
  <2>3. \A a \in Nat : a * Base + 0 = a * Base
    BY Positions
  <2> QED
    BY <2>1, <2>2, <2>3
<1>4. Number(Zero) = 0
  <2> DEFINE T == {j \in 0 .. KeyLen : Upto(Zero)[j] = 0}
  <2>1. 0 \in T
    BY ExtremeKeys, UptoGoesOn, Positions
  <2>2. \A j \in 1 .. KeyLen : j - 1 \in T => j \in T
    BY <1>3, Positions
  <2> HIDE DEF T
  <2>3. KeyLen \in T
    BY <2>1, <2>2, UpTo, Positions
  <2> QED
    BY <2>3 DEF T, Number
<1>5. Number(k) <= Number(Top)
  <2>1. ~ (longcmp(Top, k) < 0)
    <3> DEFINE differ == {j \in KeyWord : Top[j] # k[j]}
    <3>1. CASE differ = {}
      BY <3>1 DEF longcmp
    <3>2. CASE differ # {}
      <4>1. Min(differ) \in KeyWord
        BY <3>2, LeastKeyWord
      <4>2. ~ (Top[Min(differ)] < k[Min(differ)])
        BY <4>1, Positions DEF Top, Keys, Digit
      <4> QED
        BY <3>2, <4>2 DEF longcmp
    <3> QED
      BY <3>1, <3>2
  <2> QED
    BY <1>2, <2>1, ExtremeKeys, LongcmpOrders
<1>6. Zero # Top
  BY Positions DEF Zero, Top
<1>7. Number(Top) # 0
  BY <1>4, <1>6, ExtremeKeys, LongcmpOrders
<1>8. Number(k) = 0 <=> k = Zero
  BY <1>4, ExtremeKeys, LongcmpOrders
<1> QED
  BY <1>1, <1>2, <1>4, <1>5, <1>7, <1>8, ExtremeKeys

(* dec_key's borrow: what follows the long that is decremented was 0 and   *)
(* is now the greatest.                                                    *)
LEMMA BorrowDecrements ==
  ASSUME NEW k \in Keys, NEW l \in Keys, NEW t \in KeyWord, l[t] = k[t] - 1,
         \A j \in KeyWord : /\ j < t => l[j] = k[j]
                            /\ j > t => k[j] = 0 /\ l[j] = Base - 1
  PROVE  Number(l) = Number(k) - 1
<1> DEFINE T == {j \in 0 .. KeyLen : Upto(l)[j] = IF j <= t THEN Upto(k)[j] ELSE Upto(k)[j] - 1}
<1>1. t \in Nat /\ t + 1 \in 1 .. KeyLen
  BY Positions
<1>2. 0 \in T
  BY <1>1, UptoGoesOn, Positions
<1>3. \A j \in 1 .. KeyLen : j - 1 \in T => j \in T
  <2> SUFFICES ASSUME NEW j \in 1 .. KeyLen, j - 1 \in T
               PROVE  j \in T
    OBVIOUS
  <2> DEFINE a == Upto(k)[j - 1]
             b == Upto(l)[j - 1]
  <2>1. /\ j - 1 \in KeyWord /\ j - 1 \in 0 .. KeyLen /\ j \in 0 .. KeyLen
        /\ a \in Nat /\ b \in Nat /\ k[j - 1] \in Nat /\ l[j - 1] \in Nat
    <3>1. \A d \in Digit : d \in Nat
      BY Positions DEF Digit
    <3>2. k[j - 1] \in Digit /\ l[j - 1] \in Digit
      BY Positions DEF Keys
    <3>3. a \in Nat /\ b \in Nat
      BY UptoGoesOn, Positions
    <3> QED
      BY <3>1, <3>2, <3>3, Positions
  <2>2. Upto(k)[j] = a * Base + k[j - 1] /\ Upto(l)[j] = b * Base + l[j - 1]
    BY UptoGoesOn
  <2>3. b = IF j - 1 <= t THEN a ELSE a - 1
    OBVIOUS
  <2> HIDE DEF a, b
  <2>4. CASE j <= t
    <3>1. a = b /\ k[j - 1] = l[j - 1]
      BY <1>1, <2>1, <2>3, <2>4
    <3> QED
      BY <2>1, <2>2, <2>4, <3>1
  <2>5. CASE j = t + 1
    <3>1. a = b /\ l[j - 1] = k[j - 1] - 1
      BY <1>1, <2>1, <2>3, <2>5
    <3>2. a * Base \in Nat
      BY <2>1, Positions
    <3>3. Upto(l)[j] = Upto(k)[j] - 1
      BY <2>1, <2>2, <3>1, <3>2
    <3> QED
      BY <1>1, <2>1, <2>5, <3>3
  <2>6. CASE j > t + 1
    <3>1. b = a - 1 /\ k[j - 1] = 0 /\ l[j - 1] = Base - 1
      BY <1>1, <2>1, <2>3, <2>6
    <3>2. a * Base \in Nat /\ (a - 1) * Base = a * Base - Base
      BY <2>1, Positions
    <3>3. Upto(l)[j] = Upto(k)[j] - 1
      BY <2>1, <2>2, <3>1, <3>2, Positions
    <3> QED
      BY <1>1, <2>1, <2>6, <3>3
  <2> QED
    BY <1>1, <2>1, <2>4, <2>5, <2>6
<1> HIDE DEF T
<1>4. KeyLen \in T
  BY <1>2, <1>3, UpTo, Positions
<1> QED
  BY <1>1, <1>4, Positions DEF T, Number

-----------------------------------------------------------------------------
(* Slots as vectors of longs: those of the key, and then the value         *)

G == INSTANCE CBTreeGeoProofs WITH Touched <- {}, words <- 0, at <- 0

Part == 0 .. KeyLen
Place(i, j) == IF j = KeyLen THEN Geo!bval(i) ELSE Geo!bkey(i) + j

Vector == {s \in [Part -> Nat] : \A j \in KeyWord : s[j] \in Digit}
Views == [Addr -> [Slot -> Vector]]
View(ws) == [n \in Addr |-> [i \in Slot |-> [j \in Part |-> ws[n][Place(i, j)]]]]
Memory == {ws \in [Addr -> [Geo!InNode -> Nat]] : View(ws) \in Views}

KeyOf(s) == [j \in KeyWord |-> s[j]]
PairOf(s) == [k |-> Number(KeyOf(s)), v |-> s[KeyLen]]
PairsIn(V) == [n \in Addr |-> [i \in Slot |-> PairOf(V[n][i])]]

LEMMA GeoAssumptions ==
  G!LayoutAssumption /\ G!KeyLenAssumption /\ G!TouchedAssumption
BY GeometryAssumption DEF G!LayoutAssumption, G!KeyLenAssumption, G!TouchedAssumption

LEMMA SameGeometry ==
  /\ Slot = G!GeoSlot /\ NoPairs = G!no_pairs /\ Geo!InNode = G!InNode
  /\ \A i : Geo!bkey(i) = G!bkey(i) /\ Geo!bval(i) = G!bval(i)
BY DEF Slot, NoPairs, Geo!GeoSlot, Geo!no_pairs, Geo!NODESIZE, Geo!CACHE_LENTH, Geo!bkey, Geo!bval,
       Geo!no_longs, G!GeoSlot, G!no_pairs, G!NODESIZE, G!CACHE_LENTH, G!bkey, G!bval, G!no_longs,
       G!InNode, Geo!InNode

LEMMA SlotsOfNode == NoPairs \in Nat /\ NoPairs >= 4 /\ Slot = 0 .. (NoPairs - 1)
<1>1. NoPairs \in Int
  BY GeoAssumptions, SameGeometry, G!Sizes
<1> QED
  BY <1>1, GeometryAssumption DEF Slot, Geo!GeoSlot, NoPairs

(* No two of the longs of a node's pairs are at the same place.            *)
LEMMA PlacesApart ==
  ASSUME NEW i \in Slot, NEW j \in Part
  PROVE  /\ Place(i, j) \in Geo!InNode
         /\ \A i2 \in Slot, j2 \in Part : Place(i, j) = Place(i2, j2) => i = i2 /\ j = j2
<1> DEFINE Of(s) == G!KeyWords(s) \cup {G!bval(s)}
<1>1. \A s \in Slot, p \in Part :
        /\ Place(s, p) \in Of(s)
        /\ G!bkey(s) \in Int /\ G!bval(s) \in Int
        /\ p # KeyLen => Place(s, p) = G!bkey(s) + p /\ Place(s, p) < G!bval(s)
        /\ p = KeyLen => Place(s, p) = G!bval(s)
  <2> SUFFICES ASSUME NEW s \in Slot, NEW p \in Part
               PROVE  /\ Place(s, p) \in Of(s)
                      /\ G!bkey(s) \in Int /\ G!bval(s) \in Int
                      /\ p # KeyLen => Place(s, p) = G!bkey(s) + p /\ Place(s, p) < G!bval(s)
                      /\ p = KeyLen => Place(s, p) = G!bval(s)
    OBVIOUS
  <2>1. /\ G!KeyWords(s) \subseteq 0 .. (G!no_longs - 1)
        /\ G!bval(s) \in G!no_longs .. (G!arr_len - 1)
        /\ G!arr_len \in Int /\ G!no_longs \in Int
    BY GeoAssumptions, SameGeometry, G!Order
  <2>2. G!bkey(s) \in Int
    BY SlotsOfNode, Positions DEF G!bkey
  <2>3. CASE p = KeyLen
    BY <2>1, <2>2, <2>3, SameGeometry DEF Place
  <2>4. CASE p # KeyLen
    <3>1. p \in 0 .. (KeyLen - 1)
      BY <2>4, Positions DEF Part
    <3>2. Place(s, p) = G!bkey(s) + p
      BY <2>4, SameGeometry DEF Place
    <3>3. Place(s, p) \in G!KeyWords(s)
      BY <2>2, <3>1, <3>2, Positions DEF G!KeyWords
    <3> QED
      BY <2>1, <2>2, <2>4, <3>2, <3>3
  <2> QED
    BY <2>3, <2>4
<1>2. \A s \in Slot : Of(s) \subseteq G!InNode
  BY GeoAssumptions, SameGeometry, G!PairsEnd
<1>3. \A s \in Slot, t \in Slot : s # t => Of(s) \cap Of(t) = {}
  <2> SUFFICES ASSUME NEW s \in Slot, NEW t \in Slot, s # t
               PROVE  Of(s) \cap Of(t) = {}
    OBVIOUS
  <2>1. s \in G!GeoSlot /\ t \in G!GeoSlot /\ s \in G!Field /\ t \in G!Field
    BY SameGeometry DEF G!Field
  <2>2. G!WordsOf(s) \cap G!WordsOf(t) = {}
    BY <2>1, GeoAssumptions, G!FieldsDisjoint
  <2> QED
    BY <2>1, <2>2 DEF G!WordsOf
<1> HIDE DEF Of
<1>4. Place(i, j) \in Geo!InNode
  BY <1>1, <1>2, SameGeometry
<1>5. ASSUME NEW i2 \in Slot, NEW j2 \in Part, Place(i, j) = Place(i2, j2)
      PROVE  i = i2 /\ j = j2
  <2>1. i = i2
    BY <1>1, <1>3, <1>5
  <2>2. j = j2
    BY <1>1, <1>5, <2>1, Positions DEF Part
  <2> QED
    BY <2>1, <2>2
<1> QED
  BY <1>4, <1>5

(* The cache's words come after the pairs.                                 *)
LEMMA PlacesBefore == \A i \in Slot, j \in Part : Place(i, j) # Geo!arr_len
<1> SUFFICES ASSUME NEW i \in Slot, NEW j \in Part PROVE Place(i, j) # Geo!arr_len
  OBVIOUS
<1>1. Geo!arr_len = G!arr_len
  BY SameGeometry DEF Geo!arr_len, G!arr_len, Geo!no_longs, G!no_longs, NoPairs
<1>2. /\ G!KeyWords(i) \subseteq 0 .. (G!no_longs - 1)
      /\ G!bval(i) \in G!no_longs .. (G!arr_len - 1)
      /\ G!arr_len \in Int /\ G!no_longs \in Int
  BY GeoAssumptions, SameGeometry, G!Order
<1>3. G!bkey(i) \in Int
  BY SlotsOfNode, Positions DEF G!bkey
<1>4. CASE j = KeyLen
  BY <1>1, <1>2, <1>4, SameGeometry DEF Place
<1>5. CASE j # KeyLen
  <2>1. j \in 0 .. (KeyLen - 1) /\ Place(i, j) = G!bkey(i) + j
    BY <1>5, Positions, SameGeometry DEF Part, Place
  <2>2. Place(i, j) \in G!KeyWords(i)
    BY <1>3, <2>1, Positions DEF G!KeyWords
  <2> QED
    BY <1>1, <1>2, <2>2
<1> QED
  BY <1>4, <1>5

(* A long is written: one part of one slot changes.                        *)
Written(ws, n, q, x) == [ws EXCEPT ![n][q] = x]

LEMMA WriteLong ==
  ASSUME NEW ws \in Memory, NEW n \in Addr, NEW i \in Slot, NEW j \in Part, NEW x \in Nat,
         j # KeyLen => x \in Digit
  PROVE  LET wn == Written(ws, n, Place(i, j), x)
         IN /\ wn \in Memory
            /\ \A m \in Addr, i2 \in Slot, j2 \in Part :
                 View(wn)[m][i2][j2] = IF m = n /\ i2 = i /\ j2 = j THEN x ELSE View(ws)[m][i2][j2]
<1> DEFINE wn == Written(ws, n, Place(i, j), x)
<1>1. ws \in [Addr -> [Geo!InNode -> Nat]] /\ View(ws) \in Views
  BY DEF Memory
<1>2. wn \in [Addr -> [Geo!InNode -> Nat]]
  BY <1>1, PlacesApart DEF Written
<1>3. \A m \in Addr, i2 \in Slot, j2 \in Part :
        wn[m][Place(i2, j2)] = IF m = n /\ i2 = i /\ j2 = j THEN x ELSE ws[m][Place(i2, j2)]
  <2> SUFFICES ASSUME NEW m \in Addr, NEW i2 \in Slot, NEW j2 \in Part
               PROVE  wn[m][Place(i2, j2)]
                        = IF m = n /\ i2 = i /\ j2 = j THEN x ELSE ws[m][Place(i2, j2)]
    OBVIOUS
  <2>1. Place(i2, j2) \in Geo!InNode /\ Place(i, j) \in Geo!InNode
    BY PlacesApart
  <2>2. Place(i, j) = Place(i2, j2) => i = i2 /\ j = j2
    BY PlacesApart
  <2> QED
    BY <1>1, <2>1, <2>2 DEF Written
<1> HIDE DEF wn
<1>4. \A m \in Addr, i2 \in Slot, j2 \in Part :
        View(wn)[m][i2][j2] = IF m = n /\ i2 = i /\ j2 = j THEN x ELSE View(ws)[m][i2][j2]
  BY <1>3 DEF View
<1>5. View(wn) \in Views
  <2>1. \A m \in Addr, i2 \in Slot : View(wn)[m][i2] \in Vector
    <3> SUFFICES ASSUME NEW m \in Addr, NEW i2 \in Slot PROVE View(wn)[m][i2] \in Vector
      OBVIOUS
    <3>1. View(ws)[m][i2] \in Vector
      BY <1>1 DEF Views
    <3>2. \A j2 \in Part : View(wn)[m][i2][j2] \in Nat
      BY <1>4, <3>1 DEF Vector
    <3>5. \A j2 \in KeyWord : j2 \in Part /\ j2 # KeyLen
      BY Positions DEF Part, KeyWord
    <3>3. \A j2 \in KeyWord : View(wn)[m][i2][j2] \in Digit
      BY <1>4, <3>1, <3>5 DEF Vector
    <3>4. View(wn)[m][i2] = [j2 \in Part |-> View(wn)[m][i2][j2]]
      BY DEF View
    <3> QED
      BY <3>2, <3>3, <3>4 DEF Vector
  <2> QED
    BY <2>1 DEF Views, View
<1> QED
  BY <1>2, <1>4, <1>5 DEF Memory, wn

(* The pairs of memory are those of its vectors.                           *)
LEMMA PairsOfView ==
  ASSUME NEW ws
  PROVE  /\ PairsOf(ws) = PairsIn(View(ws))
         /\ \A n \in Addr, i \in Slot :
              /\ KeyOf(View(ws)[n][i]) = [j \in KeyWord |-> ws[n][Geo!bkey(i) + j]]
              /\ View(ws)[n][i][KeyLen] = ws[n][Geo!bval(i)]
<1>1. \A n \in Addr, i \in Slot :
        /\ KeyOf(View(ws)[n][i]) = [j \in KeyWord |-> ws[n][Geo!bkey(i) + j]]
        /\ View(ws)[n][i][KeyLen] = ws[n][Geo!bval(i)]
  <2> SUFFICES ASSUME NEW n \in Addr, NEW i \in Slot
               PROVE  /\ KeyOf(View(ws)[n][i]) = [j \in KeyWord |-> ws[n][Geo!bkey(i) + j]]
                      /\ View(ws)[n][i][KeyLen] = ws[n][Geo!bval(i)]
    OBVIOUS
  <2>1. \A j \in Part : View(ws)[n][i][j] = ws[n][Place(i, j)]
    BY DEF View
  <2>2. \A j \in KeyWord : j \in Part /\ j # KeyLen
    BY Positions DEF KeyWord, Part
  <2>3. \A j \in KeyWord : View(ws)[n][i][j] = ws[n][Geo!bkey(i) + j]
    BY <2>1, <2>2 DEF Place
  <2>4. View(ws)[n][i][KeyLen] = ws[n][Geo!bval(i)]
    BY <2>1, Positions DEF Place, Part
  <2> QED
    BY <2>3, <2>4 DEF KeyOf
<1>2. PairsOf(ws) = PairsIn(View(ws))
  BY <1>1 DEF PairsOf, PairsIn, PairOf
<1> QED
  BY <1>1, <1>2

LEMMA KeyOfVector ==
  ASSUME NEW s \in Vector
  PROVE  /\ KeyOf(s) \in Keys /\ s[KeyLen] \in Nat
         /\ PairOf(s) \in [k : 0 .. Greatest, v : Nat]
<1>1. KeyOf(s) \in Keys
  BY DEF KeyOf, Keys, Vector
<1>2. s[KeyLen] \in Nat
  BY Positions DEF Vector, Part
<1> QED
  BY <1>1, <1>2, NumberRange DEF PairOf

-----------------------------------------------------------------------------
(* What CBTreeNode's operators find in the pairs is what the loops find in *)
(* the longs.                                                              *)

N == INSTANCE CBTreeNodeProofs WITH MaxLong <- Greatest

LEMMA NodeAssumptions == N!NoPairsAssumption /\ N!MaxLongAssumption
BY SlotsOfNode, NumberRange, ExtremeKeys DEF N!NoPairsAssumption, N!MaxLongAssumption

LEMMA SameNode ==
  /\ N!Slot = Slot /\ Pairs!Slot = Slot /\ N!Long = 0 .. Greatest
  /\ \A V : N!NodeOver(V) = [Slot -> [k : 0 .. Greatest, v : V]]
BY SlotsOfNode DEF N!Slot, Pairs!Slot, N!Long, N!NodeOver

LEMMA SameFirst ==
  ASSUME NEW S, S \subseteq Slot
  PROVE  First(S) = N!First(S) /\ First(S) = Pairs!First(S)
<1> DEFINE f == N!First(S)
<1>1. f \in S \cup {NoPairs} /\ f \in 0 .. NoPairs /\ \A j \in S : f <= j
  BY NodeAssumptions, SameNode, N!FirstIsLeast
<1>2. f <= NoPairs
  BY <1>1, SlotsOfNode
<1>3. First(S) \in S \cup {NoPairs} /\ \A j \in S \cup {NoPairs} : First(S) <= j
  BY <1>1, <1>2 DEF First, Min
<1>4. \A j \in S \cup {NoPairs} : j \in Int
  BY SlotsOfNode
<1>5. First(S) = f
  <2>1. f <= First(S) /\ First(S) <= f
    BY <1>1, <1>2, <1>3
  <2> QED
    BY <1>1, <1>3, <1>4, <2>1
<1> QED
  BY <1>5 DEF Pairs!First, N!First

LEMMA PairsAreNodes ==
  ASSUME NEW V \in Views
  PROVE  /\ PairsIn(V) \in [Addr -> N!NodeOver(Nat)]
         /\ \A n \in Addr : \A i \in Slot :
              /\ PairsIn(V)[n][i] = PairOf(V[n][i])
              /\ V[n][i] \in Vector
<1>1. \A n \in Addr : \A i \in Slot : V[n][i] \in Vector
  BY DEF Views
<1>2. \A n \in Addr : \A i \in Slot : PairOf(V[n][i]) \in [k : 0 .. Greatest, v : Nat]
  BY <1>1, KeyOfVector
<1> QED
  BY <1>1, <1>2, SameNode DEF PairsIn

LEMMA SameSearch ==
  ASSUME words \in Memory, key \in Keys, NEW n \in Addr, NEW start \in Nat
  PROVE  /\ getpos(n) = N!getpos(PairsOf(words)[n], Number(key))
         /\ getfill(n, start) = N!getfill(PairsOf(words)[n], start)
         /\ \A i \in Slot : /\ keycmp(n, i, key) <= 0 <=> PairsOf(words)[n][i].k <= Number(key)
                            /\ keycmp(n, i, key) = 0 <=> PairsOf(words)[n][i].k = Number(key)
                            /\ bval(n, i) = PairsOf(words)[n][i].v
<1> DEFINE P == PairsOf(words)[n]
<1>1. View(words) \in Views
  BY DEF Memory
<1>2. \A i \in Slot : bkey(n, i) \in Keys /\ P[i].k = Number(bkey(n, i)) /\ P[i].v = bval(n, i)
  <2> TAKE i \in Slot
  <2>1. View(words)[n][i] \in Vector
    BY <1>1, PairsAreNodes
  <2>2. bkey(n, i) = KeyOf(View(words)[n][i])
    BY PairsOfView DEF bkey
  <2> QED
    BY <2>1, <2>2, KeyOfVector DEF PairsOf, bkey, bval
<1>3. \A i \in Slot : /\ keycmp(n, i, key) <= 0 <=> P[i].k <= Number(key)
                      /\ keycmp(n, i, key) = 0 <=> P[i].k = Number(key)
  <2> TAKE i \in Slot
  <2>1. bkey(n, i) \in Keys /\ P[i].k = Number(bkey(n, i))
    BY <1>2
  <2>2. Number(bkey(n, i)) \in Nat /\ Number(key) \in Nat
    BY <2>1, NumberInNat
  <2> DEFINE c == longcmp(bkey(n, i), key)
  <2>3. /\ c \in {-1, 0, 1}
        /\ c < 0 <=> Number(bkey(n, i)) < Number(key)
        /\ c = 0 <=> Number(bkey(n, i)) = Number(key)
    BY <2>1, LongcmpOrders
  <2>4. c = keycmp(n, i, key)
    BY DEF keycmp
  <2> HIDE DEF P, c
  <2> QED
    BY <2>1, <2>2, <2>3, <2>4
<1>4. \A i \in Slot : bval(n, i) = P[i].v
  BY <1>2
<1> HIDE DEF P
<1>5. {i \in Slot : keycmp(n, i, key) <= 0} = {i \in Slot : P[i].k <= Number(key)}
  BY <1>3
<1>6. {i \in Slot : i >= start /\ bval(n, i) = NULL} = {i \in Slot : i >= start /\ P[i].v = NULL}
  BY <1>4
<1>7. getpos(n) = N!getpos(P, Number(key))
  <2> DEFINE S == {i \in Slot : P[i].k <= Number(key)}
  <2>1. First(S) = N!First(S)
    BY SameFirst
  <2> QED
    BY <1>5, <2>1, SameNode DEF getpos, N!getpos
<1>8. getfill(n, start) = N!getfill(P, start)
  <2> DEFINE S == {i \in Slot : i >= start /\ P[i].v = NULL}
  <2>1. First(S) = N!First(S)
    BY SameFirst
  <2> QED
    BY <1>6, <2>1, SameNode DEF getfill, N!getfill
<1> QED
  BY <1>3, <1>4, <1>7, <1>8 DEF P

-----------------------------------------------------------------------------
(* What a loop does to the vectors of the slots, one move after another    *)

Moves ==
  {mv \in [op : {"copy", "store", "clear"}, n : Addr, i : Slot, m : Addr, j : Slot, v : Nat] :
     /\ mv.op = "copy" => mv.n # mv.m \/ mv.i # mv.j
     /\ mv.op = "clear" => mv.v = 0}

(* What a move puts into its slot, k being the caller's key, and its step. *)
Given(V, mv, k) ==
  IF mv.op = "copy" THEN V[mv.m][mv.j]
  ELSE [j \in Part |-> IF j = KeyLen THEN mv.v ELSE IF mv.op = "store" THEN k[j] ELSE 0]
Do(V, mv, k) ==
  [n \in Addr |-> [i \in Slot |-> IF n = mv.n /\ i = mv.i THEN Given(V, mv, k) ELSE V[n][i]]]

(* The pairs that must not get lost are in slots that the move spares.     *)
Keeps(V, mv, H, k) ==
  \A p \in H : p.k = Number(k)
               \/ \E n \in Addr, i \in Slot : ~ (n = mv.n /\ i = mv.i) /\ PairOf(V[n][i]) = p

(* V goes through the moves of the sequence td, keeping H.                 *)
Goes(V, td, k, H) ==
  /\ td \in Seq(Moves)
  /\ V \in [0 .. Len(td) -> Views]
  /\ \A e \in 1 .. Len(td) : V[e] = Do(V[e - 1], td[e], k) /\ Keeps(V[e - 1], td[e], H, k)

(* The first x longs of the move's slot are written.                       *)
Partly(U, V0, V1, mv, x) ==
  \A n \in Addr, i \in Slot, j \in Part :
    U[n][i][j] = IF n = mv.n /\ i = mv.i /\ j < x THEN V1[n][i][j] ELSE V0[n][i][j]

IsRow(r) == \/ \E a \in Addr : r = <<a>>
            \/ \E a, b \in Addr : a # b /\ r = <<a, b>>

(* Keys descend in each node of the row r and from node to node.           *)
Sorted(P, r) ==
  /\ \A x \in 1 .. Len(r) : N!Ordered(P[r[x]])
  /\ Len(r) = 2 => \A i \in Slot, j \in Slot :
       P[r[1]][i].v # NULL /\ P[r[2]][j].v # NULL => P[r[1]][i].k > P[r[2]][j].k

(* What each loop is to make of the pairs P0 in the row r0: P1 and r1.     *)
Inserted(P0, r0, k, P1, r1) ==
  \E x \in 1 .. Len(r0), c \in ClientKeys :
    LET n == r0[x]
        p == N!getpos(P0[n], Number(k))
        fill == N!getfill(P0[n], p)
    IN /\ k = c /\ fill < NoPairs /\ P0[n][p].k # Number(k)
       /\ \A y \in 1 .. Len(r0), i \in Slot : P0[r0[y]][i].v # NULL =>
            (y < x => P0[r0[y]][i].k > Number(k)) /\ (y > x => P0[r0[y]][i].k < Number(k))
       /\ P1 = [P0 EXCEPT ![n] = N!insert_pair(P0[n], p, fill, Number(k), ValueOf[c])]
       /\ r1 = r0
Removed(P0, r0, k, P1, r1) ==
  \E x \in 1 .. Len(r0), c \in ClientKeys :
    LET n == r0[x]
        p == N!getpos(P0[n], Number(k))
    IN /\ k = c /\ p \in Slot /\ P0[n][p].k = Number(k)
       /\ P1 = [P0 EXCEPT ![n] = N!remove_pair(P0[n], p, N!getfill(P0[n], p))]
       /\ r1 = r0
Split(P0, r0, P1, r1) ==
  \E n, new \in Addr :
    /\ n # new /\ r0 = <<n>> /\ r1 = <<new, n>>
    /\ N!getfill(P0[n], 0) = NoPairs /\ P0[new] = N!EmptyNode
    /\ P1 = [a \in Addr |-> IF a = n THEN N!lower_half(P0[n])
                            ELSE IF a = new THEN N!upper_half(P0[n], P0[new]) ELSE P0[a]]
Merged(P0, r0, P1, r1) ==
  \E a, b \in Addr :
    LET afill == N!getfill(P0[a], 0)
        bfill == N!getfill(P0[b], 0)
    IN /\ a # b /\ r0 = <<a, b>> /\ r1 = <<a>> /\ afill + bfill <= NoPairs
       /\ P1 = [P0 EXCEPT ![a] = N!append_pairs(P0[a], afill, P0[b], bfill)]
Promise(P0, r0, k, P1, r1) ==
  \/ Inserted(P0, r0, k, P1, r1) \/ Removed(P0, r0, k, P1, r1)
  \/ Split(P0, r0, P1, r1) \/ Merged(P0, r0, P1, r1)

(* The invariant: what holds of the state that the pairs see, and how far  *)
(* the running loop has come.                                              *)
Sound(s) ==
  /\ s.words \in Memory /\ IsRow(s.row) /\ s.key \in Keys
  /\ Sorted(PairsOf(s.words), s.row)
Moving ==
  \E V :
    /\ todo # <<>> /\ key = before.key
    /\ Goes(V, todo, key, Held(before.words, ToSet(before.row)))
    /\ Partly(View(words), V[0], V[1], todo[1], w)
    /\ Promise(PairsOf(before.words), before.row, before.key, PairsIn(V[Len(todo)]), row)
    /\ Sorted(PairsIn(V[Len(todo)]), row)
Decrementing ==
  /\ todo = <<[op |-> "dec"]>> /\ w \in KeyWord
  /\ words = before.words /\ row = before.row
  /\ \A j \in KeyWord : /\ j <= w => key[j] = before.key[j]
                        /\ j > w => before.key[j] = 0 /\ key[j] = Base - 1
Inv ==
  /\ words \in Memory /\ IsRow(row) /\ key \in Keys /\ w \in Part
  /\ Sound(Then)
  /\ ~ Idle => pos = 0 /\ (Moving \/ Decrementing)

LEMMA MoveParts ==
  ASSUME NEW mv \in Moves
  PROVE  /\ mv.op \in {"copy", "store", "clear"} /\ mv.op # "dec"
         /\ mv.n \in Addr /\ mv.i \in Slot /\ mv.m \in Addr /\ mv.j \in Slot /\ mv.v \in Nat
         /\ mv.op = "copy" => mv.n # mv.m \/ mv.i # mv.j
         /\ mv.op = "clear" => mv.v = 0
BY DEF Moves

LEMMA DoIsView ==
  ASSUME NEW V \in Views, NEW mv \in Moves, NEW k \in Keys
  PROVE  /\ Do(V, mv, k) \in Views /\ Given(V, mv, k) \in Vector
         /\ \A n \in Addr, i \in Slot :
              Do(V, mv, k)[n][i] = IF n = mv.n /\ i = mv.i THEN Given(V, mv, k) ELSE V[n][i]
<1>1. \A n \in Addr, i \in Slot : V[n][i] \in Vector
  BY DEF Views
<1>2. Given(V, mv, k) \in Vector
  <2>1. CASE mv.op = "copy"
    BY <1>1, <2>1, MoveParts DEF Given
  <2>2. CASE mv.op # "copy"
    <3> DEFINE s == [j \in Part |-> IF j = KeyLen THEN mv.v ELSE IF mv.op = "store" THEN k[j] ELSE 0]
    <3>1. \A j \in Part : j # KeyLen => j \in KeyWord
      BY Positions DEF Part, KeyWord
    <3>2. \A j \in KeyWord : j \in Part /\ j # KeyLen
      BY Positions DEF Part, KeyWord
    <3>3. \A j \in KeyWord : k[j] \in Digit /\ k[j] \in Nat
      BY Positions DEF Keys, Digit
    <3>4. 0 \in Digit
      BY Positions DEF Digit
    <3>5. s \in [Part -> Nat] /\ \A j \in KeyWord : s[j] \in Digit
      BY <3>1, <3>2, <3>3, <3>4, MoveParts
    <3> QED
      BY <2>2, <3>5 DEF Given, Vector
  <2> QED
    BY <2>1, <2>2
<1>3. \A n \in Addr, i \in Slot :
        Do(V, mv, k)[n][i] = IF n = mv.n /\ i = mv.i THEN Given(V, mv, k) ELSE V[n][i]
  BY DEF Do
<1>4. Do(V, mv, k) \in Views
  BY <1>1, <1>2 DEF Do, Views
<1> QED
  BY <1>2, <1>3, <1>4

LEMMA Slots ==
  ASSUME NEW V \in Views, NEW n \in Addr, NEW i \in Slot
  PROVE  /\ V[n][i] \in Vector
         /\ \A j \in Part : V[n][i][j] \in Nat /\ (j # KeyLen => V[n][i][j] \in Digit)
<1>1. V[n][i] \in Vector
  BY DEF Views
<1>2. \A j \in Part : j # KeyLen => j \in KeyWord
  BY Positions DEF Part, KeyWord
<1> QED
  BY <1>1, <1>2 DEF Vector

(* A long of the running move is written.                                  *)
LEMMA NextLong ==
  ASSUME NEW ws \in Memory, NEW V0 \in Views, NEW k \in Keys, NEW mv \in Moves, NEW x \in Part,
         Partly(View(ws), V0, Do(V0, mv, k), mv, x), NEW y,
         y = Do(V0, mv, k)[mv.n][mv.i][x]
  PROVE  LET wn == Written(ws, mv.n, Place(mv.i, x), y)
         IN wn \in Memory /\ Partly(View(wn), V0, Do(V0, mv, k), mv, x + 1)
<1> DEFINE wn == Written(ws, mv.n, Place(mv.i, x), y)
           V1 == Do(V0, mv, k)
<1>1. mv.n \in Addr /\ mv.i \in Slot /\ V1 \in Views
  BY MoveParts, DoIsView
<1>2. y \in Nat /\ (x # KeyLen => y \in Digit)
  BY <1>1, Slots
<1>3. /\ wn \in Memory
      /\ \A m \in Addr, i2 \in Slot, j2 \in Part :
           View(wn)[m][i2][j2]
             = IF m = mv.n /\ i2 = mv.i /\ j2 = x THEN y ELSE View(ws)[m][i2][j2]
  <2>1. \A n \in Addr, i \in Slot :
          /\ Written(ws, n, Place(i, x), y) \in Memory
          /\ \A m \in Addr, i2 \in Slot, j2 \in Part :
               View(Written(ws, n, Place(i, x), y))[m][i2][j2]
                 = IF m = n /\ i2 = i /\ j2 = x THEN y ELSE View(ws)[m][i2][j2]
    <3> SUFFICES ASSUME NEW n \in Addr, NEW i \in Slot
                 PROVE  LET wx == Written(ws, n, Place(i, x), y)
                        IN /\ wx \in Memory
                           /\ \A m \in Addr, i2 \in Slot, j2 \in Part :
                                View(wx)[m][i2][j2]
                                  = IF m = n /\ i2 = i /\ j2 = x THEN y ELSE View(ws)[m][i2][j2]
      OBVIOUS
    <3> QED
      BY ONLY <1>2, WriteLong
  <2> QED
    BY <1>1, <2>1
<1> HIDE DEF wn, V1
<1>4. \A j \in Part : j < x + 1 <=> j < x \/ j = x
  BY Positions DEF Part
<1>5. ~ (x < x)
  BY Positions DEF Part
<1>6. Partly(View(ws), V0, V1, mv, x) /\ y = V1[mv.n][mv.i][x]
  BY DEF V1
<1>7. Partly(View(wn), V0, V1, mv, x + 1)
  <2> SUFFICES ASSUME NEW n \in Addr, NEW i \in Slot, NEW j \in Part
               PROVE  View(wn)[n][i][j]
                        = IF n = mv.n /\ i = mv.i /\ j < x + 1 THEN V1[n][i][j] ELSE V0[n][i][j]
    BY DEF Partly
  <2>1. View(wn)[n][i][j] = IF n = mv.n /\ i = mv.i /\ j = x THEN y ELSE View(ws)[n][i][j]
    BY <1>3
  <2>2. View(ws)[n][i][j] = IF n = mv.n /\ i = mv.i /\ j < x THEN V1[n][i][j] ELSE V0[n][i][j]
    BY <1>6 DEF Partly
  <2> QED
    BY <1>4, <1>6, <2>1, <2>2
<1> QED
  BY <1>3, <1>7 DEF wn, V1

(* What the code reads for it: the source of the move is not the slot that *)
(* is being written.                                                       *)
LEMMA ReadsSource ==
  ASSUME NEW ws \in Memory, NEW V0 \in Views, NEW k \in Keys, NEW mv \in Moves, NEW x \in Part,
         Partly(View(ws), V0, Do(V0, mv, k), mv, x)
  PROVE  /\ Do(V0, mv, k)[mv.n][mv.i][x]
              = IF mv.op = "copy" THEN ws[mv.m][Place(mv.j, x)]
                ELSE IF x = KeyLen THEN mv.v ELSE IF mv.op = "store" THEN k[x] ELSE 0
<1>1. /\ mv.n \in Addr /\ mv.i \in Slot /\ mv.m \in Addr /\ mv.j \in Slot
      /\ mv.op = "copy" => mv.n # mv.m \/ mv.i # mv.j
  BY MoveParts
<1>2. Do(V0, mv, k)[mv.n][mv.i] = Given(V0, mv, k)
  BY <1>1, DoIsView
<1>3. CASE mv.op = "copy"
  <2>1. View(ws)[mv.m][mv.j][x] = V0[mv.m][mv.j][x]
    BY <1>1, <1>3 DEF Partly
  <2>2. View(ws)[mv.m][mv.j][x] = ws[mv.m][Place(mv.j, x)]
    BY <1>1 DEF View
  <2> QED
    BY <1>2, <1>3, <2>1, <2>2 DEF Given
<1>4. CASE mv.op # "copy"
  BY <1>2, <1>4 DEF Given
<1> QED
  BY <1>3, <1>4

(* After the last long the move is made.                                   *)
LEMMA MoveMade ==
  ASSUME NEW U \in Views, NEW V0 \in Views, NEW k \in Keys, NEW mv \in Moves,
         Partly(U, V0, Do(V0, mv, k), mv, KeyLen + 1)
  PROVE  U = Do(V0, mv, k)
<1> DEFINE V1 == Do(V0, mv, k)
<1>1. /\ V1 \in Views
      /\ \A n \in Addr, i \in Slot : ~ (n = mv.n /\ i = mv.i) => V1[n][i] = V0[n][i]
  BY DoIsView
<1>2. \A j \in Part : j < KeyLen + 1
  BY Positions DEF Part
<1>3. \A n \in Addr, i \in Slot, j \in Part :
        U[n][i][j] = IF n = mv.n /\ i = mv.i /\ j < KeyLen + 1 THEN V1[n][i][j] ELSE V0[n][i][j]
  BY DEF Partly
<1> HIDE DEF V1
<1>4. \A n \in Addr, i \in Slot, j \in Part : U[n][i][j] = V1[n][i][j]
  BY <1>1, <1>2, <1>3
<1>5. \A n \in Addr, i \in Slot : U[n][i] = V1[n][i]
  <2> TAKE n \in Addr, i \in Slot
  <2>1. U[n][i] \in [Part -> Nat] /\ V1[n][i] \in [Part -> Nat]
    BY <1>1, Slots DEF Vector
  <2> QED
    BY <1>4, <2>1
<1>6. \A n \in Addr : U[n] = V1[n]
  <2> TAKE n \in Addr
  <2>1. U[n] \in [Slot -> Vector] /\ V1[n] \in [Slot -> Vector]
    BY <1>1 DEF Views
  <2> QED
    BY <1>5, <2>1
<1>7. U = V1
  BY <1>1, <1>6 DEF Views
<1> QED
  BY <1>7 DEF V1

(* A move that keeps the pairs keeps them in the middle of it, too.        *)
LEMMA KeptOnTheWay ==
  ASSUME NEW U \in Views, NEW V0 \in Views, NEW k \in Keys, NEW mv \in Moves, NEW x, NEW H,
         Partly(U, V0, Do(V0, mv, k), mv, x), Keeps(V0, mv, H, k)
  PROVE  \A p \in H : p.k = Number(k) \/ \E n \in Addr, i \in Slot : PairOf(U[n][i]) = p
<1> SUFFICES ASSUME NEW p \in H, p.k # Number(k)
             PROVE  \E n \in Addr, i \in Slot : PairOf(U[n][i]) = p
  OBVIOUS
<1>1. PICK n \in Addr, i \in Slot : ~ (n = mv.n /\ i = mv.i) /\ PairOf(V0[n][i]) = p
  BY DEF Keeps
<1>2. \A j \in Part : U[n][i][j] = V0[n][i][j]
  BY <1>1 DEF Partly
<1>3. U[n][i] \in [Part -> Nat] /\ V0[n][i] \in [Part -> Nat]
  BY Slots DEF Vector
<1>4. U[n][i] = V0[n][i]
  BY <1>2, <1>3
<1> QED
  BY <1>1, <1>4

-----------------------------------------------------------------------------
(* The steps of a loop that runs                                           *)

(* A step of a loop leaves what the pairs see as it was, or ends the loop  *)
(* with what it promised.                                                  *)
Ended ==
  /\ ~ Idle /\ Idle' /\ pos' = 0
  /\ \/ /\ key' = Then.key
        /\ Promise(PairsOf(Then.words), Then.row, Then.key, PairsOf(words'), row')
     \/ /\ words' = Then.words /\ row' = Then.row
        /\ Number(key') = N!Dec(Number(Then.key))

LEMMA MovingParts ==
  ASSUME Inv, ~ Idle, Move.op # "dec"
  PROVE  /\ Moving /\ Then = before /\ Move = todo[1]
         /\ Move \in Moves /\ todo \in Seq(Moves) /\ Len(todo) \in Nat \ {0}
<1>1. Moving \/ Decrementing
  BY DEF Inv
<1>2. Then = before
  BY DEF Then
<1>3. ~ Decrementing
  <2>1. Decrementing => Move = [op |-> "dec"]
    BY DEF Decrementing, Move
  <2> QED
    BY <2>1
<1>4. todo # <<>> /\ todo \in Seq(Moves)
  BY <1>1, <1>3 DEF Moving, Goes
<1>5. Move = todo[1] /\ Len(todo) \in Nat \ {0}
  BY <1>4 DEF Move
<1>6. Move \in Moves
  BY <1>4, <1>5
<1> QED
  BY <1>1, <1>2, <1>3, <1>4, <1>5, <1>6

LEMMA FirstMove ==
  ASSUME NEW V, Goes(V, todo, key, Held(before.words, ToSet(before.row))), Len(todo) \in Nat \ {0}
  PROVE  /\ V[0] \in Views /\ V[1] = Do(V[0], todo[1], key)
         /\ Keeps(V[0], todo[1], Held(before.words, ToSet(before.row)), key)
<1>1. 0 \in 0 .. Len(todo) /\ 1 \in 1 .. Len(todo) /\ 1 - 1 = 0
  OBVIOUS
<1>2. V[0] \in Views
  BY <1>1 DEF Goes
<1>3. V[1] = Do(V[1 - 1], todo[1], key)
      /\ Keeps(V[1 - 1], todo[1], Held(before.words, ToSet(before.row)), key)
  BY <1>1 DEF Goes
<1> QED
  BY <1>1, <1>2, <1>3

(* The long that a step of the loop writes is that of the move.            *)
LEMMA longcpyWrites ==
  ASSUME Inv, longcpy
  PROVE  Inv' /\ Then' = Then
<1>1. ~ Idle /\ Move.op # "dec" /\ w < KeyLen
  BY DEF longcpy
<1>2. /\ words' = [words EXCEPT ![Move.n][Geo!bkey(Move.i) + w] = Source(w)]
      /\ w' = w + 1 /\ row' = row /\ key' = key /\ pos' = pos /\ todo' = todo /\ before' = before
  BY DEF longcpy
<1>3. /\ Moving /\ Then = before /\ Move = todo[1]
      /\ Move \in Moves /\ todo \in Seq(Moves) /\ Len(todo) \in Nat \ {0}
  BY <1>1, MovingParts
<1>4. PICK V :
        /\ todo # <<>> /\ key = before.key
        /\ Goes(V, todo, key, Held(before.words, ToSet(before.row)))
        /\ Partly(View(words), V[0], V[1], todo[1], w)
        /\ Promise(PairsOf(before.words), before.row, before.key, PairsIn(V[Len(todo)]), row)
        /\ Sorted(PairsIn(V[Len(todo)]), row)
  BY <1>3 DEF Moving
<1>5. words \in Memory /\ IsRow(row) /\ key \in Keys /\ w \in Part /\ Sound(Then) /\ pos = 0
  BY <1>1 DEF Inv
<1>6. V[0] \in Views /\ V[1] = Do(V[0], Move, key)
  BY <1>3, <1>4, FirstMove
<1>7. Partly(View(words), V[0], Do(V[0], Move, key), Move, w)
  BY <1>3, <1>4, <1>6
<1>8. w \in KeyWord /\ w # KeyLen /\ w + 1 \in Part
  BY <1>1, <1>5, Positions DEF Part, KeyWord
<1>9. Do(V[0], Move, key)[Move.n][Move.i][w] = Source(w)
  <2>1. Do(V[0], Move, key)[Move.n][Move.i][w]
          = IF Move.op = "copy" THEN words[Move.m][Place(Move.j, w)]
            ELSE IF w = KeyLen THEN Move.v ELSE IF Move.op = "store" THEN key[w] ELSE 0
    BY <1>3, <1>5, <1>6, <1>7, ReadsSource
  <2>2. Place(Move.j, w) = Geo!bkey(Move.j) + w
    BY <1>8 DEF Place
  <2>3. Move.op \in {"copy", "store", "clear"}
    BY <1>3, MoveParts
  <2> HIDE DEF Move
  <2> QED
    BY <1>8, <2>1, <2>2, <2>3 DEF Source
<1>10. words' = Written(words, Move.n, Place(Move.i, w), Source(w))
  BY <1>2, <1>8 DEF Place, Written
<1>11. words' \in Memory /\ Partly(View(words'), V[0], Do(V[0], Move, key), Move, w + 1)
  BY <1>3, <1>5, <1>6, <1>7, <1>9, <1>10, NextLong
<1>12. Partly(View(words'), V[0], V[1], todo[1], w + 1)
  BY <1>3, <1>6, <1>11
<1>13. Moving'
  BY <1>2, <1>4, <1>12 DEF Moving
<1>14. Then' = Then
  BY <1>1, <1>2 DEF Then, Idle
<1>15. Sound(Then)'
  BY <1>5, <1>14 DEF Sound
<1> QED
  BY <1>2, <1>5, <1>8, <1>11, <1>13, <1>14, <1>15 DEF Inv

(* After the first move the others go on.                                  *)
LEMMA Shift ==
  ASSUME NEW V, NEW td, NEW k, NEW H, Goes(V, td, k, H), Len(td) > 1
  PROVE  LET U == [e \in 0 .. (Len(td) - 1) |-> V[e + 1]]
         IN /\ Goes(U, Tail(td), k, H) /\ Tail(td) # <<>>
            /\ U[0] = V[1] /\ U[Len(Tail(td))] = V[Len(td)]
<1> DEFINE U == [e \in 0 .. (Len(td) - 1) |-> V[e + 1]]
           l == Len(td)
<1>1. /\ td \in Seq(Moves) /\ V \in [0 .. l -> Views] /\ l \in Nat
      /\ \A e \in 1 .. l : V[e] = Do(V[e - 1], td[e], k) /\ Keeps(V[e - 1], td[e], H, k)
  BY DEF Goes
<1>2. /\ Tail(td) \in Seq(Moves) /\ Len(Tail(td)) = l - 1
      /\ \A e \in 1 .. (l - 1) : Tail(td)[e] = td[e + 1]
  BY <1>1
<1> HIDE DEF l
<1>3. U \in [0 .. (l - 1) -> Views] /\ \A e \in 0 .. (l - 1) : U[e] = V[e + 1]
  BY <1>1 DEF l
<1>4. \A e \in 1 .. (l - 1) : /\ e - 1 \in 0 .. (l - 1) /\ e \in 0 .. (l - 1)
                              /\ e + 1 \in 1 .. l /\ (e + 1) - 1 = e /\ (e - 1) + 1 = e
  BY <1>1
<1>5. \A e \in 1 .. (l - 1) : U[e - 1] = V[e] /\ U[e] = V[e + 1]
  BY <1>3, <1>4
<1>6. l > 1
  BY DEF l
<1> HIDE DEF U
<1>7. \A e \in 1 .. (l - 1) : U[e] = Do(U[e - 1], Tail(td)[e], k) /\ Keeps(U[e - 1], Tail(td)[e], H, k)
  <2> TAKE e \in 1 .. (l - 1)
  <2>1. e + 1 \in 1 .. l /\ (e + 1) - 1 = e
    BY <1>4
  <2>2. V[e + 1] = Do(V[(e + 1) - 1], td[e + 1], k) /\ Keeps(V[(e + 1) - 1], td[e + 1], H, k)
    BY <1>1, <2>1
  <2> QED
    BY <1>2, <1>5, <2>1, <2>2
<1>8. 0 \in 0 .. (l - 1) /\ l - 1 \in 0 .. (l - 1) /\ (l - 1) + 1 = l /\ 0 + 1 = 1
  BY <1>1, <1>6
<1>9. U[0] = V[1] /\ U[l - 1] = V[l]
  BY <1>3, <1>8
<1>10. Goes(U, Tail(td), k, H)
  BY <1>2, <1>3, <1>7 DEF Goes
<1>11. Tail(td) # <<>>
  BY <1>1, <1>2, <1>6
<1>12. U[Len(Tail(td))] = V[l]
  BY <1>2, <1>9
<1> QED
  BY <1>9, <1>10, <1>11, <1>12 DEF U, l

LEMMA setvalWrites ==
  ASSUME Inv, setval
  PROVE  Inv' /\ (Then' = Then \/ Ended)
<1>1. ~ Idle /\ Move.op # "dec" /\ w = KeyLen
  BY DEF setval
<1>2. /\ words' = [words EXCEPT ![Move.n][Geo!bval(Move.i)] =
                     IF Move.op = "copy" THEN bval(Move.m, Move.j) ELSE Move.v]
      /\ row' = row /\ key' = key /\ pos' = pos
      /\ IF Len(todo) = 1 THEN Ends ELSE todo' = Tail(todo) /\ w' = 0 /\ before' = before
  BY DEF setval
<1>3. /\ Moving /\ Then = before /\ Move = todo[1]
      /\ Move \in Moves /\ todo \in Seq(Moves) /\ Len(todo) \in Nat \ {0}
  BY <1>1, MovingParts
<1>4. PICK V :
        /\ todo # <<>> /\ key = before.key
        /\ Goes(V, todo, key, Held(before.words, ToSet(before.row)))
        /\ Partly(View(words), V[0], V[1], todo[1], w)
        /\ Promise(PairsOf(before.words), before.row, before.key, PairsIn(V[Len(todo)]), row)
        /\ Sorted(PairsIn(V[Len(todo)]), row)
  BY <1>3 DEF Moving
<1>5. words \in Memory /\ IsRow(row) /\ key \in Keys /\ w \in Part /\ Sound(Then) /\ pos = 0
  BY <1>1 DEF Inv
<1>6. V[0] \in Views /\ V[1] = Do(V[0], Move, key)
  BY <1>3, <1>4, FirstMove
<1>7. Partly(View(words), V[0], Do(V[0], Move, key), Move, w)
  BY <1>3, <1>4, <1>6
<1>8. w = KeyLen /\ KeyLen \in Part /\ 0 \in Part
  BY <1>1, Positions DEF Part
<1> DEFINE y == IF Move.op = "copy" THEN bval(Move.m, Move.j) ELSE Move.v
<1>9. Do(V[0], Move, key)[Move.n][Move.i][KeyLen] = y
  <2>1. Do(V[0], Move, key)[Move.n][Move.i][KeyLen]
          = IF Move.op = "copy" THEN words[Move.m][Place(Move.j, KeyLen)]
            ELSE IF KeyLen = KeyLen THEN Move.v ELSE IF Move.op = "store" THEN key[KeyLen] ELSE 0
    BY <1>3, <1>5, <1>6, <1>7, <1>8, ReadsSource
  <2>2. Place(Move.j, KeyLen) = Geo!bval(Move.j)
    BY DEF Place
  <2> HIDE DEF Move
  <2> QED
    BY <2>1, <2>2 DEF bval
<1>10. words' = Written(words, Move.n, Place(Move.i, KeyLen), y)
  BY <1>2 DEF Place, Written
<1> HIDE DEF y
<1>11. words' \in Memory /\ Partly(View(words'), V[0], Do(V[0], Move, key), Move, KeyLen + 1)
  BY <1>3, <1>5, <1>6, <1>7, <1>8, <1>9, <1>10, NextLong
<1>12. View(words') = V[1] /\ V[1] \in Views
  <2>1. View(words') \in Views
    BY <1>11 DEF Memory
  <2> QED
    BY <1>3, <1>5, <1>6, <1>11, <2>1, MoveMade
<1>13. PairsOf(words') = PairsIn(V[1])
  BY <1>12, PairsOfView
<1>14. CASE Len(todo) = 1
  <2>1. todo' = <<>> /\ w' = 0
    BY <1>2, <1>14 DEF Ends
  <2>2. Promise(PairsOf(Then.words), Then.row, Then.key, PairsOf(words'), row')
        /\ Sorted(PairsOf(words'), row')
    BY <1>2, <1>3, <1>4, <1>13, <1>14
  <2>3. Ended
    BY <1>1, <1>2, <1>3, <1>4, <1>5, <2>1, <2>2 DEF Ended, Idle
  <2>4. Then' = [words |-> words', row |-> row', key |-> key', pos |-> pos']
    BY <2>1 DEF Then, Idle
  <2>5. Sound(Then)'
    BY <1>2, <1>5, <1>11, <2>2, <2>4 DEF Sound
  <2> QED
    BY <1>2, <1>5, <1>8, <1>11, <2>1, <2>3, <2>5 DEF Inv, Idle
<1>15. CASE Len(todo) # 1
  <2>1. todo' = Tail(todo) /\ w' = 0 /\ before' = before /\ Len(todo) > 1
    <3>1. todo' = Tail(todo) /\ w' = 0 /\ before' = before
      BY <1>2, <1>15
    <3>2. Len(todo) > 1
      BY <1>3, <1>15
    <3> QED
      BY <3>1, <3>2
  <2> DEFINE U == [e \in 0 .. (Len(todo) - 1) |-> V[e + 1]]
             H == Held(before.words, ToSet(before.row))
  <2>2. /\ Goes(U, Tail(todo), key, H) /\ Tail(todo) # <<>>
        /\ U[0] = V[1] /\ U[Len(Tail(todo))] = V[Len(todo)]
    BY <1>4, <2>1, Shift
  <2> HIDE DEF U, H
  <2>3. Partly(View(words'), U[0], U[1], Tail(todo)[1], 0)
    <3>1. \A j \in Part : ~ (j < 0)
      BY Positions DEF Part
    <3> QED
      BY <1>12, <2>2, <3>1 DEF Partly
  <2>4. Moving'
    <3>1. /\ todo' # <<>> /\ key' = before'.key
          /\ Goes(U, todo', key', Held(before'.words, ToSet(before'.row)))
          /\ Partly(View(words'), U[0], U[1], todo'[1], w')
          /\ Promise(PairsOf(before'.words), before'.row, before'.key, PairsIn(U[Len(todo')]), row')
          /\ Sorted(PairsIn(U[Len(todo')]), row')
      BY <1>2, <1>4, <2>1, <2>2, <2>3 DEF H
    <3> QED
      BY <3>1 DEF Moving
  <2>5. Then' = Then
    BY <1>1, <2>1, <2>2 DEF Then, Idle
  <2>6. Sound(Then)'
    BY <1>5, <2>5 DEF Sound
  <2> QED
    BY <1>2, <1>5, <1>8, <1>11, <2>1, <2>4, <2>5, <2>6 DEF Inv
<1> QED
  BY <1>14, <1>15

LEMMA dec_wordWrites ==
  ASSUME Inv, dec_word
  PROVE  Inv' /\ (Then' = Then \/ Ended)
<1>1. ~ Idle /\ Move.op = "dec"
  BY DEF dec_word
<1>2. /\ key' = [key EXCEPT ![w] = (@ - 1) % Base]
      /\ IF key[w] # 0 \/ w = 0 THEN Ends ELSE w' = w - 1 /\ todo' = todo /\ before' = before
      /\ words' = words /\ row' = row /\ pos' = pos
  BY DEF dec_word
<1>3. Then = before
  BY <1>1 DEF Then
<1>4. words \in Memory /\ IsRow(row) /\ key \in Keys /\ w \in Part /\ Sound(Then) /\ pos = 0
  BY <1>1 DEF Inv
<1>5. Decrementing
  <2>1. ~ Moving
    <3> SUFFICES ASSUME NEW V, todo # <<>>, Goes(V, todo, key, Held(before.words, ToSet(before.row)))
                 PROVE  FALSE
      BY DEF Moving
    <3>1. todo \in Seq(Moves)
      BY DEF Goes
    <3>2. Move \in Moves
      BY <3>1 DEF Move
    <3> QED
      BY <1>1, <3>2, MoveParts
  <2> QED
    BY <1>1, <2>1 DEF Inv
<1>6. /\ w \in KeyWord /\ words = before.words /\ row = before.row
      /\ \A j \in KeyWord : /\ j <= w => key[j] = before.key[j]
                            /\ j > w => before.key[j] = 0 /\ key[j] = Base - 1
      /\ todo = <<[op |-> "dec"]>>
  BY <1>5 DEF Decrementing
<1>7. before.key \in Keys
  BY <1>3, <1>4 DEF Sound
<1>8. /\ key[w] = before.key[w] /\ key[w] \in Nat /\ key[w] < Base
      /\ \A j \in KeyWord : key'[j] = IF j = w THEN (key[w] - 1) % Base ELSE key[j]
  BY <1>2, <1>4, <1>6, Positions DEF Keys, Digit, KeyWord
<1>9. /\ key[w] = 0 => (key[w] - 1) % Base = Base - 1
      /\ key[w] # 0 => (key[w] - 1) % Base = key[w] - 1
  BY <1>8, Positions
<1>10. key' \in Keys
  <2>1. (key[w] - 1) % Base \in Digit
    BY <1>8, <1>9, Positions DEF Digit
  <2> QED
    BY <1>2, <1>4, <2>1 DEF Keys
<1>11. CASE key[w] # 0 \/ w = 0
  <2>1. todo' = <<>> /\ w' = 0 /\ Idle'
    BY <1>2, <1>11 DEF Ends, Idle
  <2>2. Number(key') = N!Dec(Number(before.key))
    <3>1. CASE key[w] # 0
      <4>1. \A j \in KeyWord : /\ j < w => key'[j] = before.key[j]
                               /\ j > w => before.key[j] = 0 /\ key'[j] = Base - 1
        BY <1>6, <1>8, Positions
      <4>2. key'[w] = before.key[w] - 1
        BY <1>6, <1>8, <1>9, <3>1
      <4>3. Number(key') = Number(before.key) - 1
        BY <1>6, <1>7, <1>10, <4>1, <4>2, BorrowDecrements
      <4>4. before.key # Zero
        BY <1>6, <1>8, <3>1 DEF Zero
      <4>5. Number(before.key) # 0
        BY <1>7, <4>4, NumberRange
      <4> QED
        BY <4>3, <4>5 DEF N!Dec
    <3>2. CASE key[w] = 0
      <4>1. w = 0
        BY <1>11, <3>2
      <4>2. \A j \in KeyWord : j = 0 \/ j > 0
        BY Positions DEF KeyWord
      <4>3. \A j \in KeyWord : before.key[j] = 0 /\ key'[j] = Base - 1
        BY <1>6, <1>8, <1>9, <3>2, <4>1, <4>2
      <4>4. before.key = Zero
        BY <1>7, <4>3 DEF Zero, Keys
      <4>5. key' = Top
        BY <1>10, <4>3 DEF Top, Keys
      <4> QED
        BY <1>7, <4>4, <4>5, NumberRange DEF N!Dec
    <3> QED
      BY <3>1, <3>2
  <2>3. Ended
    BY <1>1, <1>2, <1>3, <1>4, <1>6, <2>1, <2>2 DEF Ended
  <2>4. Then' = [words |-> words', row |-> row', key |-> key', pos |-> pos']
    BY <2>1 DEF Then
  <2>5. Sound(Then)'
    <3>1. Sorted(PairsOf(words), row)
      BY <1>3, <1>4, <1>6 DEF Sound
    <3> QED
      BY <1>2, <1>4, <1>10, <2>4, <3>1 DEF Sound
  <2>6. w' \in Part
    BY <2>1, Positions DEF Part
  <2> QED
    BY <1>2, <1>4, <1>10, <2>1, <2>3, <2>5, <2>6 DEF Inv
<1>12. CASE ~ (key[w] # 0 \/ w = 0)
  <2>1. w' = w - 1 /\ todo' = todo /\ before' = before /\ key[w] = 0 /\ w # 0
    BY <1>2, <1>12
  <2>2. w - 1 \in KeyWord /\ w - 1 \in Part
    BY <1>6, <2>1, Positions DEF Part, KeyWord
  <2>3. \A j \in KeyWord : (j <= w - 1 <=> j < w) /\ (j > w - 1 <=> j = w \/ j > w)
    BY <1>6, Positions DEF KeyWord
  <2>4. \A j \in KeyWord : /\ j <= w - 1 => key'[j] = before.key[j]
                           /\ j > w - 1 => before.key[j] = 0 /\ key'[j] = Base - 1
    <3> TAKE j \in KeyWord
    <3>1. j <= w - 1 => j <= w /\ j # w
      BY <1>6, Positions DEF KeyWord
    <3>2. j = w => j <= w
      BY <1>6, Positions DEF KeyWord
    <3> QED
      BY <1>6, <1>8, <1>9, <2>1, <2>3, <3>1, <3>2
  <2>5. Decrementing'
    BY <1>2, <1>6, <2>1, <2>2, <2>4 DEF Decrementing
  <2>6. Then' = Then
    BY <1>1, <2>1 DEF Then, Idle
  <2>7. Sound(Then)'
    BY <1>4, <2>6 DEF Sound
  <2> QED
    BY <1>2, <1>4, <1>10, <2>1, <2>2, <2>5, <2>6, <2>7 DEF Inv
<1> QED
  BY <1>11, <1>12

-----------------------------------------------------------------------------
(* The promises of the loops keep the order of the pairs.                  *)

LEMMA PairNode ==
  ASSUME NEW P \in [Addr -> N!NodeOver(Nat)], NEW a \in Addr
  PROVE  /\ P[a] \in N!NodeOver(Nat)
         /\ \A i \in Slot : /\ P[a][i] \in [k : 0 .. Greatest, v : Nat]
                            /\ P[a][i].k \in 0 .. Greatest /\ P[a][i].k \in Nat /\ P[a][i].v \in Nat
<1>1. P[a] \in [Slot -> [k : 0 .. Greatest, v : Nat]]
  BY SameNode
<1>2. \A g \in 0 .. Greatest : g \in Nat
  BY ExtremeKeys, NumberRange
<1> QED
  BY <1>1, <1>2

(* In an ordered node getfill counts the pairs.                            *)
LEMMA FillOf ==
  ASSUME NEW P \in [Addr -> N!NodeOver(Nat)], NEW a \in Addr, N!Ordered(P[a])
  PROVE  /\ N!getfill(P[a], 0) \in 0 .. NoPairs
         /\ \A i \in Slot : i < N!getfill(P[a], 0) <=> P[a][i].v # NULL
<1> DEFINE f == N!getfill(P[a], 0)
<1>1. P[a] \in N!NodeOver(Nat) /\ 0 \in 0 .. NoPairs
  BY PairNode, SlotsOfNode
<1>2. /\ f \in 0 .. NoPairs
      /\ f # NoPairs => P[a][f].v = NULL
      /\ \A j \in Slot : 0 <= j /\ j < f => P[a][j].v # NULL
  BY <1>1, NodeAssumptions, SameNode, N!getfillFinds
<1> HIDE DEF f
<1>3. \A i \in Slot : i >= f => P[a][i].v = NULL
  <2> SUFFICES ASSUME NEW i \in Slot, i >= f, P[a][i].v # NULL PROVE FALSE
    OBVIOUS
  <2>1. f # NoPairs /\ f \in Slot
    BY <1>2, SlotsOfNode
  <2>2. i = f \/ f < i
    BY <1>2, SlotsOfNode
  <2> QED
    BY <1>2, <2>1, <2>2, SameNode DEF N!Ordered
<1>4. \A i \in Slot : i \in Nat
  BY SlotsOfNode
<1> QED
  BY <1>2, <1>3, <1>4 DEF f

(* The place of a key that is inserted or removed.                         *)
LEMMA FillFrom ==
  ASSUME NEW P \in [Addr -> N!NodeOver(Nat)], NEW a \in Addr, N!Ordered(P[a]), NEW k \in Keys
  PROVE  LET p == N!getpos(P[a], Number(k))
             f == N!getfill(P[a], p)
         IN /\ p \in 0 .. NoPairs /\ f \in p .. NoPairs
            /\ \A j \in Slot : j < p => P[a][j].k > Number(k)
            /\ p # NoPairs => p \in Slot /\ P[a][p].k <= Number(k)
            /\ \A j \in Slot : p <= j => (j < f <=> P[a][j].v # NULL)
<1> DEFINE p == N!getpos(P[a], Number(k))
           f == N!getfill(P[a], p)
<1>1. P[a] \in N!NodeOver(Nat) /\ Number(k) \in N!Long
  BY PairNode, NumberRange, SameNode
<1>2. /\ p \in 0 .. NoPairs
      /\ p # NoPairs => p \in N!Slot /\ P[a][p].k <= Number(k)
      /\ \A j \in N!Slot : j < p => P[a][j].k > Number(k)
  BY <1>1, NodeAssumptions, N!getposFinds
<1>3. /\ f \in p .. NoPairs
      /\ f # NoPairs => P[a][f].v = NULL
      /\ \A j \in Slot : p <= j /\ j < f => P[a][j].v # NULL
  BY <1>1, <1>2, NodeAssumptions, SameNode, N!getfillFinds
<1> HIDE DEF p, f
<1>4. \A j \in Slot : p <= j /\ j >= f => P[a][j].v = NULL
  <2> SUFFICES ASSUME NEW j \in Slot, j >= f, P[a][j].v # NULL PROVE FALSE
    OBVIOUS
  <2>1. f # NoPairs /\ f \in Slot
    BY <1>2, <1>3, SlotsOfNode
  <2>2. j = f \/ f < j
    BY <1>2, <1>3, SlotsOfNode
  <2> QED
    BY <1>3, <2>1, <2>2, SameNode DEF N!Ordered
<1>5. \A j \in Slot : j \in Nat
  BY SlotsOfNode
<1>6. f \in Nat
  BY <1>2, <1>3, SlotsOfNode
<1> QED
  BY <1>2, <1>3, <1>4, <1>5, <1>6, SameNode DEF p, f

LEMMA RowNodes ==
  ASSUME NEW r, IsRow(r)
  PROVE  /\ Len(r) \in {1, 2} /\ \A x \in 1 .. Len(r) : r[x] \in Addr
         /\ Len(r) = 2 => r[1] # r[2] /\ r[1] \in Addr /\ r[2] \in Addr /\ r = <<r[1], r[2]>>
         /\ r \in Seq(Addr)
         /\ ToSet(r) = {r[x] : x \in 1 .. Len(r)} /\ ToSet(r) \subseteq Addr
<1>1. CASE \E a \in Addr : r = <<a>>
  BY <1>1 DEF ToSet
<1>2. CASE \E a, b \in Addr : a # b /\ r = <<a, b>>
  <2>1. PICK a \in Addr, b \in Addr : a # b /\ r = <<a, b>>
    BY <1>2
  <2> QED
    BY <2>1 DEF ToSet
<1> QED
  BY <1>1, <1>2 DEF IsRow

LEMMA HalfOf ==
  /\ N!Half \in Nat /\ N!Half >= 1 /\ 2 * N!Half <= NoPairs /\ NoPairs <= 2 * N!Half + 1
  /\ N!Half = NoPairs \div 2
<1>1. \A x \in Nat : 2 * (x \div 2) <= x /\ x <= 2 * (x \div 2) + 1 /\ x \div 2 \in Nat
  OBVIOUS
<1> QED
  BY <1>1, SlotsOfNode DEF N!Half

(* Only node n of the row changes, and its used pairs were pairs of the    *)
(* row's order already, or belong into it.                                 *)
Fits(P, r, x, m, q) ==
  /\ \A i \in Slot : m[i].v # NULL =>
       m[i].k = q \/ \E j \in Slot : P[r[x]][j].v # NULL /\ m[i].k = P[r[x]][j].k
  /\ \A y \in 1 .. Len(r), i \in Slot : P[r[y]][i].v # NULL =>
       (y < x => P[r[y]][i].k > q) /\ (y > x => P[r[y]][i].k < q)

LEMMA OneNodeSorted ==
  ASSUME NEW P \in [Addr -> N!NodeOver(Nat)], NEW r, IsRow(r), Sorted(P, r),
         NEW x \in 1 .. Len(r), NEW m, N!Ordered(m), NEW q \in Nat, Fits(P, r, x, m, q),
         NEW Q, Q = [P EXCEPT ![r[x]] = m]
  PROVE  Sorted(Q, r)
<1>1. /\ Len(r) \in {1, 2} /\ \A y \in 1 .. Len(r) : r[y] \in Addr
      /\ Len(r) = 2 => r[1] # r[2] /\ r[1] \in Addr /\ r[2] \in Addr
  BY RowNodes
<1>2. Q[r[x]] = m /\ \A y \in 1 .. Len(r) : r[y] # r[x] => Q[r[y]] = P[r[y]]
  BY <1>1
<1>3. \A i \in Slot : m[i].v # NULL =>
        m[i].k = q \/ \E j \in Slot : P[r[x]][j].v # NULL /\ m[i].k = P[r[x]][j].k
  BY DEF Fits
<1>7. \A y \in 1 .. Len(r), i \in Slot : P[r[y]][i].v # NULL =>
        (y < x => P[r[y]][i].k > q) /\ (y > x => P[r[y]][i].k < q)
  BY DEF Fits
<1>4. \A y \in 1 .. Len(r) : N!Ordered(Q[r[y]])
  BY <1>2 DEF Sorted
<1>5. ASSUME Len(r) = 2, NEW i \in Slot, NEW j \in Slot,
             Q[r[1]][i].v # NULL, Q[r[2]][j].v # NULL
      PROVE  Q[r[1]][i].k > Q[r[2]][j].k
  <2>1. 1 \in 1 .. Len(r) /\ 2 \in 1 .. Len(r) /\ (x = 1 \/ x = 2)
    BY <1>5
  <2>2. \A s \in Slot, t \in Slot :
          P[r[1]][s].v # NULL /\ P[r[2]][t].v # NULL => P[r[1]][s].k > P[r[2]][t].k
    BY <1>5 DEF Sorted
  <2>3. CASE x = 1
    <3>1. Q[r[1]] = m /\ Q[r[2]] = P[r[2]]
      BY <1>1, <1>2, <1>5, <2>1, <2>3
    <3>2. P[r[2]][j].k < q
      BY <1>5, <1>7, <2>1, <2>3, <3>1
    <3>3. q > P[r[2]][j].k
      BY <1>1, <1>5, <3>2, PairNode
    <3> QED
      BY <1>3, <1>5, <2>2, <2>3, <3>1, <3>3
  <2>4. CASE x = 2
    <3>1. Q[r[2]] = m /\ Q[r[1]] = P[r[1]]
      BY <1>1, <1>2, <1>5, <2>1, <2>4
    <3>2. P[r[1]][i].k > q
      BY <1>5, <1>7, <2>1, <2>4, <3>1
    <3> QED
      BY <1>3, <1>5, <2>2, <2>4, <3>1, <3>2
  <2> QED
    BY <2>1, <2>3, <2>4
<1> QED
  BY <1>4, <1>5 DEF Sorted

LEMMA InsertedSorted ==
  ASSUME NEW P \in [Addr -> N!NodeOver(Nat)], NEW r, IsRow(r), Sorted(P, r), NEW k \in Keys,
         NEW Q, NEW r1, Inserted(P, r, k, Q, r1)
  PROVE  Sorted(Q, r1) /\ IsRow(r1)
<1>1. PICK x, c : 
        /\ x \in 1 .. Len(r) /\ c \in ClientKeys
        /\ LET n == r[x]
               p == N!getpos(P[n], Number(k))
               fill == N!getfill(P[n], p)
           IN /\ k = c /\ fill < NoPairs /\ P[n][p].k # Number(k)
              /\ \A y \in 1 .. Len(r), i \in Slot : P[r[y]][i].v # NULL =>
                   (y < x => P[r[y]][i].k > Number(k)) /\ (y > x => P[r[y]][i].k < Number(k))
              /\ Q = [P EXCEPT ![n] = N!insert_pair(P[n], p, fill, Number(k), ValueOf[c])]
              /\ r1 = r
  BY DEF Inserted
<1> DEFINE n == r[x]
           p == N!getpos(P[n], Number(k))
           fill == N!getfill(P[n], p)
           m == N!insert_pair(P[n], p, fill, Number(k), ValueOf[c])
<1>2. n \in Addr /\ N!Ordered(P[n]) /\ P[n] \in N!NodeOver(Nat)
  BY <1>1, RowNodes, PairNode DEF Sorted
<1>3. ValueOf[c] \in Nat /\ ValueOf[c] # NULL /\ Number(k) \in N!Long /\ Number(k) \in Nat
  BY <1>1, ValuesAssumption, NumberRange, NumberInNat, SameNode DEF NULL
<1>4. /\ p \in 0 .. NoPairs /\ fill \in p .. NoPairs /\ fill < NoPairs
      /\ \A j \in Slot : p <= j => (j < fill <=> P[n][j].v # NULL)
  BY <1>1, <1>2, FillFrom
<1>5. N!Ordered(m)
  <2>1. fill # NoPairs /\ (p < fill => P[n][p].k # Number(k))
    BY <1>1, <1>4, SlotsOfNode
  <2> QED
    BY <1>2, <1>3, <2>1, NodeAssumptions, N!InsertKeepsOrder
<1>6. \A i \in Slot : m[i].v # NULL =>
        m[i].k = Number(k) \/ \E j \in Slot : P[n][j].v # NULL /\ m[i].k = P[n][j].k
  <2> SUFFICES ASSUME NEW i \in Slot, m[i].v # NULL, i # p
               PROVE  \E j \in Slot : P[n][j].v # NULL /\ m[i].k = P[n][j].k
    <3>1. \A i \in Slot : i = p => m[i].k = Number(k)
      BY SameNode DEF N!insert_pair
    <3> QED
      BY <3>1
  <2>1. m[i] = IF i \in (p + 1) .. fill THEN P[n][i - 1] ELSE P[n][i]
    BY SameNode DEF N!insert_pair
  <2>2. i \in (p + 1) .. fill => i - 1 \in Slot
    BY <1>4, SlotsOfNode
  <2> HIDE DEF m
  <2> QED
    BY <2>1, <2>2
<1>7. Q = [P EXCEPT ![r[x]] = m] /\ r1 = r
  BY <1>1
<1>8. \A y \in 1 .. Len(r), i \in Slot : P[r[y]][i].v # NULL =>
        (y < x => P[r[y]][i].k > Number(k)) /\ (y > x => P[r[y]][i].k < Number(k))
  BY <1>1
<1>9. x \in 1 .. Len(r)
  BY <1>1
<1> HIDE DEF m, p, fill
<1>10. Fits(P, r, x, m, Number(k))
  BY <1>6, <1>8 DEF Fits
<1>11. Sorted(Q, r)
  BY <1>3, <1>5, <1>7, <1>9, <1>10, OneNodeSorted
<1> QED
  BY <1>7, <1>11

LEMMA ClientKeyNumber ==
  ASSUME NEW c \in ClientKeys
  PROVE  c \in Keys /\ Number(c) # 0 /\ Number(c) \in Nat /\ ValueOf[c] \in Nat /\ ValueOf[c] # NULL
<1>1. c \in Keys /\ c # Zero
  BY KeysAssumption DEF Keys, Digit, Zero
<1> QED
  BY <1>1, NumberRange, NumberInNat, ValuesAssumption DEF NULL

LEMMA RemovedSorted ==
  ASSUME NEW P \in [Addr -> N!NodeOver(Nat)], NEW r, IsRow(r), Sorted(P, r), NEW k \in Keys,
         NEW Q, NEW r1, Removed(P, r, k, Q, r1)
  PROVE  Sorted(Q, r1) /\ IsRow(r1)
<1>1. PICK x, c : 
        /\ x \in 1 .. Len(r) /\ c \in ClientKeys
        /\ LET n == r[x]
               p == N!getpos(P[n], Number(k))
           IN /\ k = c /\ p \in Slot /\ P[n][p].k = Number(k)
              /\ Q = [P EXCEPT ![n] = N!remove_pair(P[n], p, N!getfill(P[n], p))]
              /\ r1 = r
  BY DEF Removed
<1> DEFINE n == r[x]
           p == N!getpos(P[n], Number(k))
           fill == N!getfill(P[n], p)
           m == N!remove_pair(P[n], p, fill)
<1>2. n \in Addr /\ N!Ordered(P[n]) /\ P[n] \in N!NodeOver(Nat)
  BY <1>1, RowNodes, PairNode DEF Sorted
<1>3. P[n][p].v # NULL /\ p \in Slot
  <2>1. P[n][p].k # 0 /\ p \in Slot
    BY <1>1, ClientKeyNumber
  <2> QED
    BY <1>2, <2>1, SameNode DEF N!Ordered
<1>4. /\ p \in 0 .. NoPairs /\ fill \in p .. NoPairs
      /\ \A j \in Slot : p <= j => (j < fill <=> P[n][j].v # NULL)
  BY <1>1, <1>2, FillFrom
<1>5. N!Ordered(m)
  BY <1>2, <1>3, NodeAssumptions, SameNode, N!RemoveKeepsOrder
<1>6. \A i \in Slot : m[i].v # NULL =>
        m[i].k = P[n][p].k \/ \E j \in Slot : P[n][j].v # NULL /\ m[i].k = P[n][j].k
  <2> SUFFICES ASSUME NEW i \in Slot, m[i].v # NULL
               PROVE  \E j \in Slot : P[n][j].v # NULL /\ m[i].k = P[n][j].k
    OBVIOUS
  <2>1. m[i] = IF i = fill - 1 THEN N!Empty
               ELSE IF i \in p .. (fill - 2) THEN P[n][i + 1]
               ELSE IF fill = 0 /\ i = NoPairs - 1 THEN [P[n][i] EXCEPT !.k = 0] ELSE P[n][i]
    BY SameNode DEF N!remove_pair
  <2>2. fill # 0
    BY <1>3, <1>4, SlotsOfNode
  <2>3. i \in p .. (fill - 2) => i + 1 \in Slot
    BY <1>4, SlotsOfNode
  <2>4. N!Empty.v = NULL
    BY DEF N!Empty
  <2> HIDE DEF m
  <2> QED
    BY <2>1, <2>2, <2>3, <2>4
<1>7. Q = [P EXCEPT ![r[x]] = m] /\ r1 = r
  BY <1>1
<1>8. x \in 1 .. Len(r) /\ P[n][p].k \in Nat
  BY <1>1, <1>2, PairNode
<1>9. \A y \in 1 .. Len(r), i \in Slot : P[r[y]][i].v # NULL =>
        (y < x => P[r[y]][i].k > P[n][p].k) /\ (y > x => P[r[y]][i].k < P[n][p].k)
  <2> SUFFICES ASSUME NEW y \in 1 .. Len(r), NEW i \in Slot, P[r[y]][i].v # NULL
               PROVE  (y < x => P[r[y]][i].k > P[n][p].k) /\ (y > x => P[r[y]][i].k < P[n][p].k)
    OBVIOUS
  <2>1. Len(r) \in {1, 2} /\ r[y] \in Addr
    BY RowNodes
  <2>2. CASE y < x
    <3>1. Len(r) = 2 /\ y = 1 /\ x = 2
      BY <1>8, <2>1, <2>2
    <3> QED
      BY <1>3, <3>1 DEF Sorted
  <2>3. CASE y > x
    <3>1. Len(r) = 2 /\ y = 2 /\ x = 1
      BY <1>8, <2>1, <2>3
    <3>2. P[n][p].k > P[r[y]][i].k
      BY <1>3, <3>1 DEF Sorted
    <3>3. P[r[y]][i].k \in Nat
      BY <2>1, PairNode
    <3> QED
      BY <1>8, <3>1, <3>2, <3>3
  <2>4. \A a \in 1 .. Len(r) : a \in Nat
    BY RowNodes
  <2>5. ~ (y < x /\ y > x)
    BY <1>8, <2>4
  <2> QED
    BY <2>2, <2>3
<1> HIDE DEF m, p, fill
<1>10. Fits(P, r, x, m, P[n][p].k)
  BY <1>6, <1>9 DEF Fits
<1>11. Sorted(Q, r)
  BY <1>5, <1>7, <1>8, <1>10, OneNodeSorted
<1> QED
  BY <1>7, <1>11

LEMMA SplitSorted ==
  ASSUME NEW P \in [Addr -> N!NodeOver(Nat)], NEW r, Sorted(P, r),
         NEW Q, NEW r1, Split(P, r, Q, r1)
  PROVE  Sorted(Q, r1) /\ IsRow(r1)
<1>1. PICK n \in Addr, new \in Addr :
        /\ n # new /\ r = <<n>> /\ r1 = <<new, n>>
        /\ N!getfill(P[n], 0) = NoPairs /\ P[new] = N!EmptyNode
        /\ Q = [a \in Addr |-> IF a = n THEN N!lower_half(P[n])
                               ELSE IF a = new THEN N!upper_half(P[n], P[new]) ELSE P[a]]
  BY DEF Split
<1> DEFINE lower == N!lower_half(P[n])
           upper == N!upper_half(P[n], P[new])
           h == N!Half
<1>2. /\ Q[n] = lower /\ Q[new] = upper
      /\ \A i \in Slot : /\ lower[i] = IF i + h < NoPairs THEN P[n][i + h] ELSE N!Empty
                         /\ upper[i] = IF i < h THEN P[n][i] ELSE N!Empty
  BY <1>1, SameNode DEF N!lower_half, N!upper_half, N!EmptyNode
<1>3. N!Ordered(P[n])
  BY <1>1 DEF Sorted
<1>4. /\ \A i \in Slot : P[n][i].v # NULL /\ P[n][i].k \in Nat
      /\ \A i \in Slot, j \in Slot : i < j => P[n][i].k > P[n][j].k
  <2>1. \A i \in Slot : P[n][i].v # NULL /\ P[n][i].k \in Nat
    BY <1>1, <1>3, FillOf, PairNode, SlotsOfNode
  <2> QED
    BY <1>3, <2>1, SameNode DEF N!Ordered
<1>5. h \in Nat /\ h >= 1 /\ 2 * h <= NoPairs /\ \A i \in Slot : i \in Nat /\ (i + h < NoPairs => i + h \in Slot)
  BY HalfOf, SlotsOfNode
<1>6. N!Empty.v = NULL /\ N!Empty.k = 0
  BY DEF N!Empty
<1> HIDE DEF lower, upper, h
<1>7. N!Ordered(lower)
  <2>1. \A i \in Slot : lower[i].v = NULL => lower[i].k = 0
    BY <1>2, <1>4, <1>5, <1>6
  <2>2. ASSUME NEW i \in Slot, NEW j \in Slot, i < j, lower[j].v # NULL
        PROVE  lower[i].v # NULL /\ lower[i].k > lower[j].k
    <3>1. j + h < NoPairs
      BY <1>2, <1>6, <2>2
    <3>2. i + h < NoPairs /\ i + h < j + h
      BY <1>5, <2>2, <3>1, SlotsOfNode
    <3> QED
      BY <1>2, <1>4, <1>5, <3>1, <3>2
  <2> QED
    BY <2>1, <2>2, SameNode DEF N!Ordered
<1>8. N!Ordered(upper)
  <2>1. \A i \in Slot : upper[i].v = NULL => upper[i].k = 0
    BY <1>2, <1>4, <1>6
  <2>2. ASSUME NEW i \in Slot, NEW j \in Slot, i < j, upper[j].v # NULL
        PROVE  upper[i].v # NULL /\ upper[i].k > upper[j].k
    <3>1. j < h
      BY <1>2, <1>6, <2>2
    <3>2. i < h
      <4>1. i \in Nat /\ j \in Nat /\ h \in Nat
        BY <1>5
      <4> QED
        BY <2>2, <3>1, <4>1
    <3> QED
      BY <1>2, <1>4, <2>2, <3>1, <3>2
  <2> QED
    BY <2>1, <2>2, SameNode DEF N!Ordered
<1>9. ASSUME NEW i \in Slot, NEW j \in Slot, upper[i].v # NULL, lower[j].v # NULL
      PROVE  upper[i].k > lower[j].k
  <2>1. i < h /\ j + h < NoPairs
    BY <1>2, <1>6, <1>9
  <2>2. j + h \in Slot /\ i < j + h
    <3>1. i \in Nat /\ j \in Nat /\ h \in Nat /\ j + h \in Slot
      BY <1>5, <2>1
    <3> QED
      BY <2>1, <3>1
  <2> QED
    BY <1>2, <1>4, <2>1, <2>2
<1>10. r1[1] = new /\ r1[2] = n /\ Len(r1) = 2 /\ IsRow(r1)
  BY <1>1 DEF IsRow
<1> QED
  BY <1>2, <1>7, <1>8, <1>9, <1>10 DEF Sorted

LEMMA MergedSorted ==
  ASSUME NEW P \in [Addr -> N!NodeOver(Nat)], NEW r, Sorted(P, r),
         NEW Q, NEW r1, Merged(P, r, Q, r1)
  PROVE  Sorted(Q, r1) /\ IsRow(r1)
<1>1. PICK a \in Addr, b \in Addr :
        LET afill == N!getfill(P[a], 0)
            bfill == N!getfill(P[b], 0)
        IN /\ a # b /\ r = <<a, b>> /\ r1 = <<a>> /\ afill + bfill <= NoPairs
           /\ Q = [P EXCEPT ![a] = N!append_pairs(P[a], afill, P[b], bfill)]
  BY DEF Merged
<1> DEFINE x == N!getfill(P[a], 0)
           y == N!getfill(P[b], 0)
           m == N!append_pairs(P[a], x, P[b], y)
<1>2. N!Ordered(P[a]) /\ N!Ordered(P[b])
  <2>1. r[1] = a /\ r[2] = b /\ 1 \in 1 .. Len(r) /\ 2 \in 1 .. Len(r)
    BY <1>1
  <2> QED
    BY <2>1 DEF Sorted
<1>3. /\ x \in 0 .. NoPairs /\ y \in 0 .. NoPairs
      /\ \A i \in Slot : i < x <=> P[a][i].v # NULL
      /\ \A i \in Slot : i < y <=> P[b][i].v # NULL
  BY <1>2, FillOf
<1>4. \A i \in Slot : m[i] = IF i \in x .. (x + y - 1) THEN P[b][i - x] ELSE P[a][i]
  BY SameNode DEF N!append_pairs
<1>5. \A i \in Slot, j \in Slot : P[a][i].v # NULL /\ P[b][j].v # NULL => P[a][i].k > P[b][j].k
  BY <1>1 DEF Sorted
<1>6. Q[a] = m /\ r1[1] = a /\ Len(r1) = 1 /\ IsRow(r1)
  BY <1>1 DEF IsRow
<1> HIDE DEF m, x, y
<1>7. \A i \in Slot : i \in Nat /\ (i \in x .. (x + y - 1) => i - x \in Slot /\ i - x < y)
  BY <1>3, SlotsOfNode
<1>8. \A i \in Slot : i \notin x .. (x + y - 1) => i < x \/ i >= x + y
  BY <1>3, <1>7
<1>9. N!Ordered(m)
  <2>1. \A i \in Slot : m[i].v = NULL => m[i].k = 0
    BY <1>2, <1>4, <1>7, SameNode DEF N!Ordered
  <2>2. ASSUME NEW i \in Slot, NEW j \in Slot, i < j, m[j].v # NULL
        PROVE  m[i].v # NULL /\ m[i].k > m[j].k
    <3>1. CASE j \in x .. (x + y - 1)
      <4>1. m[j] = P[b][j - x] /\ j - x \in Slot /\ P[b][j - x].v # NULL
        BY <1>4, <1>7, <2>2, <3>1
      <4>2. CASE i \in x .. (x + y - 1)
        <5>1. m[i] = P[b][i - x] /\ i - x \in Slot /\ i - x < j - x
          BY <1>3, <1>4, <1>7, <2>2, <4>2
        <5> QED
          BY <1>2, <4>1, <5>1, SameNode DEF N!Ordered
      <4>3. CASE i \notin x .. (x + y - 1)
        <5>1. i < x /\ m[i] = P[a][i]
          BY <1>3, <1>4, <1>7, <1>8, <2>2, <3>1, <4>3
        <5> QED
          BY <1>3, <1>5, <4>1, <5>1
      <4> QED
        BY <4>2, <4>3
    <3>2. CASE j \notin x .. (x + y - 1)
      <4>1. m[j] = P[a][j] /\ j < x
        BY <1>3, <1>4, <2>2, <3>2
      <4>2. i \notin x .. (x + y - 1) /\ m[i] = P[a][i]
        BY <1>3, <1>4, <1>7, <2>2, <4>1
      <4> QED
        BY <1>2, <2>2, <4>1, <4>2, SameNode DEF N!Ordered
    <3> QED
      BY <3>1, <3>2
  <2> QED
    BY <2>1, <2>2, SameNode DEF N!Ordered
<1>10. \A z \in 1 .. Len(r1) : r1[z] = a
  BY <1>6
<1> QED
  BY <1>6, <1>9, <1>10 DEF Sorted

LEMMA PromiseSorted ==
  ASSUME NEW P \in [Addr -> N!NodeOver(Nat)], NEW r, IsRow(r), Sorted(P, r), NEW k \in Keys,
         NEW Q, NEW r1, Promise(P, r, k, Q, r1)
  PROVE  Sorted(Q, r1) /\ IsRow(r1)
BY InsertedSorted, RemovedSorted, SplitSorted, MergedSorted DEF Promise

-----------------------------------------------------------------------------
(* The loops begin: each is a chain of moves that keeps its promise.       *)

(* The pairs that views hold, as memory does.                              *)
HeldIn(V, S) == {p \in UNION {{PairOf(V[n][i]) : i \in Slot} : n \in S} : p.v # NULL}

LEMMA HeldOfView ==
  ASSUME NEW ws, NEW S, S \subseteq Addr
  PROVE  /\ Held(ws, S) = HeldIn(View(ws), S)
         /\ \A p \in HeldIn(View(ws), S) : \E n \in S, i \in Slot :
              p = PairOf(View(ws)[n][i]) /\ View(ws)[n][i][KeyLen] # NULL
<1>1. \A n \in S, i \in Slot : /\ PairsOf(ws)[n][i] = PairOf(View(ws)[n][i])
                               /\ PairsOf(ws)[n][i].v = View(ws)[n][i][KeyLen]
  BY PairsOfView DEF PairsIn, PairOf
<1>2. \A p : p \in Held(ws, S) <=>
        \E n \in S, i \in Slot : p = PairsOf(ws)[n][i] /\ p.v # NULL
  BY DEF Held
<1>3. \A p : p \in HeldIn(View(ws), S) <=>
        \E n \in S, i \in Slot : p = PairOf(View(ws)[n][i]) /\ View(ws)[n][i][KeyLen] # NULL
  <2>1. \A p : p \in HeldIn(View(ws), S) <=>
          \E n \in S, i \in Slot : p = PairOf(View(ws)[n][i]) /\ p.v # NULL
    BY DEF HeldIn
  <2> QED
    BY <2>1 DEF PairOf
<1>4. \A p : p \in Held(ws, S) <=> p \in HeldIn(View(ws), S)
  BY <1>1, <1>2, <1>3
<1> QED
  BY <1>3, <1>4

(* A chain of views, slot by slot, whose moves spare what V0 holds in S.   *)
Spares(V, mv, V0, S, k) ==
  \A n \in S, i \in Slot :
    V0[n][i][KeyLen] # NULL /\ PairOf(V0[n][i]).k # Number(k) =>
      \E m \in Addr, j \in Slot : ~ (m = mv.n /\ j = mv.i) /\ V[m][j] = V0[n][i]

LEMMA Chain ==
  ASSUME NEW td \in Seq(Moves), NEW k \in Keys, NEW V0 \in Views, NEW S, S \subseteq Addr,
         NEW V, V \in [0 .. Len(td) -> Views],
         \A e \in 1 .. Len(td) : \A n \in Addr, i \in Slot :
           V[e][n][i] = IF n = td[e].n /\ i = td[e].i THEN Given(V[e - 1], td[e], k)
                        ELSE V[e - 1][n][i],
         \A e \in 1 .. Len(td) : Spares(V[e - 1], td[e], V0, S, k)
  PROVE  Goes(V, td, k, HeldIn(V0, S))
<1> SUFFICES ASSUME NEW e \in 1 .. Len(td)
             PROVE  /\ V[e] = Do(V[e - 1], td[e], k)
                    /\ Keeps(V[e - 1], td[e], HeldIn(V0, S), k)
  BY DEF Goes
<1>1. V[e] \in Views /\ V[e - 1] \in Views /\ td[e] \in Moves
  OBVIOUS
<1> DEFINE D == Do(V[e - 1], td[e], k)
<1>2. D \in Views /\ \A n \in Addr, i \in Slot :
        D[n][i] = IF n = td[e].n /\ i = td[e].i THEN Given(V[e - 1], td[e], k) ELSE V[e - 1][n][i]
  BY <1>1, DoIsView
<1> HIDE DEF D
<1>3. \A n \in Addr, i \in Slot : V[e][n][i] = D[n][i]
  BY <1>2
<1>4. \A n \in Addr : V[e][n] = D[n]
  <2> TAKE n \in Addr
  <2>1. V[e][n] \in [Slot -> Vector] /\ D[n] \in [Slot -> Vector]
    BY <1>1, <1>2 DEF Views
  <2> QED
    BY <1>3, <2>1
<1>5. V[e] = D
  BY <1>1, <1>2, <1>4 DEF Views
<1>6. Keeps(V[e - 1], td[e], HeldIn(V0, S), k)
  <2> SUFFICES ASSUME NEW p \in HeldIn(V0, S), p.k # Number(k)
               PROVE  \E n \in Addr, i \in Slot :
                        ~ (n = td[e].n /\ i = td[e].i) /\ PairOf(V[e - 1][n][i]) = p
    BY DEF Keeps
  <2>1. PICK n \in S, i \in Slot : p = PairOf(V0[n][i]) /\ V0[n][i][KeyLen] # NULL
    BY DEF HeldIn, PairOf
  <2>2. PICK m \in Addr, j \in Slot :
          ~ (m = td[e].n /\ j = td[e].i) /\ V[e - 1][m][j] = V0[n][i]
    BY <2>1 DEF Spares
  <2> QED
    BY <2>1, <2>2
<1> QED
  BY <1>5, <1>6 DEF D

(* A sequence of moves and one more.                                       *)
LEMMA AndThen ==
  ASSUME NEW S, NEW l \in Nat, NEW f \in [1 .. l -> S], NEW x \in S
  PROVE  /\ f \o <<x>> \in Seq(S) /\ Len(f \o <<x>>) = l + 1
         /\ \A c \in 1 .. l : (f \o <<x>>)[c] = f[c]
         /\ (f \o <<x>>)[l + 1] = x
<1>1. f \in Seq(S) /\ Len(f) = l /\ <<x>> \in Seq(S) /\ Len(<<x>>) = 1
  OBVIOUS
<1>2. /\ f \o <<x>> \in Seq(S) /\ Len(f \o <<x>>) = Len(f) + Len(<<x>>)
      /\ \A c \in 1 .. Len(f) + Len(<<x>>) :
           (f \o <<x>>)[c] = IF c <= Len(f) THEN f[c] ELSE <<x>>[c - Len(f)]
  BY <1>1, ConcatProperties
<1> QED
  BY <1>1, <1>2

LEMMA MoveTypes ==
  ASSUME NEW n \in Addr, NEW i \in Slot
  PROVE  /\ Clear(n, i) \in Moves
         /\ \A v \in Nat : Store(n, i, v) \in Moves
         /\ \A m \in Addr, j \in Slot : n # m \/ i # j => Copy(n, i, m, j) \in Moves
BY DEF Clear, Store, Copy, Moves, NULL

(* What moves do to slot i of node n, whatever the views are.              *)
CopiesTo(mv, n, i, m, j) == mv.n = n /\ mv.i = i /\ \A V, k : Given(V, mv, k) = V[m][j]
Clears(mv, n, i) == mv.n = n /\ mv.i = i /\ \A V, k : Given(V, mv, k) = [x \in Part |-> 0]

LEMMA CopiesClears ==
  ASSUME NEW n, NEW i
  PROVE  Clears(Clear(n, i), n, i) /\ \A m, j : CopiesTo(Copy(n, i, m, j), n, i, m, j)
BY DEF Given, Copy, Clear, NULL, CopiesTo, Clears

(* The pair that is stored.                                                *)
LEMMA Stored ==
  ASSUME NEW n \in Addr, NEW i \in Slot, NEW v \in Nat, NEW k \in Keys, NEW V0 \in Views
  PROVE  LET s == Given(V0, Store(n, i, v), k)
         IN /\ s \in Vector /\ PairOf(s) = [k |-> Number(k), v |-> v]
            /\ \A V : Given(V, Store(n, i, v), k) = s
<1> DEFINE s == Given(V0, Store(n, i, v), k)
<1>1. s \in Vector
  BY MoveTypes, DoIsView
<1>2. \A V : Given(V, Store(n, i, v), k) = [x \in Part |-> IF x = KeyLen THEN v ELSE k[x]]
  BY DEF Given, Store
<1>3. \A j \in KeyWord : j \in Part /\ j # KeyLen
  BY Positions DEF Part, KeyWord
<1>4. KeyOf(s) = [j \in KeyWord |-> k[j]] /\ s[KeyLen] = v
  BY <1>2, <1>3, Positions DEF KeyOf, Part
<1>5. KeyOf(s) = k
  BY <1>4 DEF Keys
<1>6. PairOf(s) = [k |-> Number(k), v |-> v]
  BY <1>4, <1>5 DEF PairOf
<1>7. \A V : Given(V, Store(n, i, v), k) = s
  BY <1>2
<1> QED
  BY <1>1, <1>6, <1>7

LEMMA InsertMoves ==
  ASSUME NEW n \in Addr, NEW p \in Slot, NEW f \in Slot, p <= f, NEW v \in Nat
  PROVE  LET td == insert_moves(n, p, f, v)
         IN /\ td \in Seq(Moves) /\ Len(td) = f - p + 1
            /\ \A e \in 1 .. (f - p) : CopiesTo(td[e], n, f - e + 1, n, f - e)
            /\ td[f - p + 1] = Store(n, p, v)
<1> DEFINE h == [c \in 1 .. (f - p) |-> Copy(n, f - c + 1, n, f - c)]
<1>1. f \in Nat /\ p \in Nat /\ f - p \in Nat
  BY SlotsOfNode
<1>2. \A c \in 1 .. (f - p) : f - c + 1 \in Slot /\ f - c \in Slot /\ f - c + 1 # f - c
  BY <1>1, SlotsOfNode
<1>3. h \in [1 .. (f - p) -> Moves]
  BY <1>2, MoveTypes
<1>4. Store(n, p, v) \in Moves
  BY MoveTypes
<1>5. insert_moves(n, p, f, v) = h \o <<Store(n, p, v)>>
  BY DEF insert_moves
<1>6. \A e \in 1 .. (f - p) : h[e] = Copy(n, f - e + 1, n, f - e)
  OBVIOUS
<1> HIDE DEF h
<1>7. /\ h \o <<Store(n, p, v)>> \in Seq(Moves) /\ Len(h \o <<Store(n, p, v)>>) = f - p + 1
      /\ \A c \in 1 .. (f - p) : (h \o <<Store(n, p, v)>>)[c] = h[c]
      /\ (h \o <<Store(n, p, v)>>)[f - p + 1] = Store(n, p, v)
  BY <1>1, <1>3, <1>4, AndThen
<1>8. \A e \in 1 .. (f - p) : CopiesTo(h[e], n, f - e + 1, n, f - e)
  BY <1>6, CopiesClears
<1> QED
  BY <1>5, <1>7, <1>8

LEMMA InsertChain ==
  ASSUME NEW V0 \in Views, NEW k \in Keys, NEW n \in Addr, NEW p \in Slot, NEW f \in Slot, p <= f,
         NEW v \in Nat, V0[n][f][KeyLen] = NULL, NEW S, S \subseteq Addr
  PROVE  LET td == insert_moves(n, p, f, v)
         IN \E V : /\ Goes(V, td, k, HeldIn(V0, S)) /\ V[0] = V0 /\ td # <<>>
                   /\ PairsIn(V[Len(td)]) = [PairsIn(V0) EXCEPT
                        ![n] = N!insert_pair(PairsIn(V0)[n], p, f, Number(k), v)]
<1> DEFINE td == insert_moves(n, p, f, v)
           l == f - p
           s == Given(V0, Store(n, p, v), k)
           W(e, m, i) == IF m = n /\ e = l + 1 /\ i = p THEN s
                         ELSE IF m = n /\ f - e < i /\ i <= f /\ p < i THEN V0[n][i - 1]
                         ELSE V0[m][i]
           V == [e \in 0 .. (l + 1) |-> [m \in Addr |-> [i \in Slot |-> W(e, m, i)]]]
<1>1. /\ f \in Nat /\ p \in Nat /\ l \in Nat
      /\ \A i \in Slot : i \in Nat /\ (p < i => i - 1 \in Slot)
  BY SlotsOfNode
<1>2. /\ td \in Seq(Moves) /\ Len(td) = l + 1
      /\ \A e \in 1 .. l : CopiesTo(td[e], n, f - e + 1, n, f - e)
      /\ td[l + 1] = Store(n, p, v)
  BY InsertMoves
<1>3. s \in Vector /\ PairOf(s) = [k |-> Number(k), v |-> v]
      /\ \A U : Given(U, Store(n, p, v), k) = s
  BY Stored
<1>4. \A m \in Addr, i \in Slot : V0[m][i] \in Vector
  BY Slots
<1> HIDE DEF td, s
<1>5. \A e \in 0 .. (l + 1), m \in Addr, i \in Slot : W(e, m, i) \in Vector
  BY <1>1, <1>3, <1>4
<1>6. V \in [0 .. Len(td) -> Views]
  BY <1>2, <1>5 DEF Views
<1>7. \A e \in 0 .. (l + 1), m \in Addr, i \in Slot : V[e][m][i] = W(e, m, i)
  OBVIOUS
<1>8. V[0] = V0
  <2>1. \A m \in Addr, i \in Slot : W(0, m, i) = V0[m][i]
    BY <1>1
  <2>2. V[0] = [m \in Addr |-> [i \in Slot |-> W(0, m, i)]]
    BY <1>1
  <2> HIDE DEF V, W
  <2>3. V[0] = [m \in Addr |-> [i \in Slot |-> V0[m][i]]]
    BY <2>1, <2>2
  <2> QED
    BY <2>3 DEF Views
<1> HIDE DEF V
<1>9. \A e \in 1 .. Len(td) : \A m \in Addr, i \in Slot :
        V[e][m][i] = IF m = td[e].n /\ i = td[e].i THEN Given(V[e - 1], td[e], k)
                     ELSE V[e - 1][m][i]
  <2> SUFFICES ASSUME NEW e \in 1 .. (l + 1), NEW m \in Addr, NEW i \in Slot
               PROVE  V[e][m][i] = IF m = td[e].n /\ i = td[e].i THEN Given(V[e - 1], td[e], k)
                                   ELSE V[e - 1][m][i]
    BY <1>2
  <2>1. e \in 0 .. (l + 1) /\ e - 1 \in 0 .. (l + 1) /\ e \in Nat /\ i \in Nat
    BY <1>1
  <2>2. V[e][m][i] = W(e, m, i) /\ V[e - 1][m][i] = W(e - 1, m, i)
    BY <1>7, <2>1
  <2>3. CASE e \in 1 .. l
    <3>1. /\ td[e].n = n /\ td[e].i = f - e + 1
          /\ Given(V[e - 1], td[e], k) = V[e - 1][n][f - e]
      <4>1. CopiesTo(td[e], n, f - e + 1, n, f - e)
        BY <1>2, <2>3
      <4> QED
        BY <4>1 DEF CopiesTo
    <3>2. f - e \in Slot /\ f - e + 1 \in Slot /\ p < f - e + 1
      BY <1>1, <2>3, SlotsOfNode
    <3>3. V[e - 1][n][f - e] = W(e - 1, n, f - e)
      BY <1>7, <2>1, <3>2
    <3>4. W(e - 1, n, f - e) = V0[n][f - e] /\ W(e, n, f - e + 1) = V0[n][f - e]
      BY <1>1, <2>3, <3>2
    <3>5. m # n \/ i # f - e + 1 => W(e, m, i) = W(e - 1, m, i)
      BY <1>1, <2>1, <2>3, <3>2
    <3> HIDE DEF W
    <3> QED
      BY <2>2, <3>1, <3>3, <3>4, <3>5
  <2>4. CASE e = l + 1
    <3>1. td[e].n = n /\ td[e].i = p /\ Given(V[e - 1], td[e], k) = s
      <4>1. td[e] = Store(n, p, v)
        BY <1>2, <2>4
      <4>2. Store(n, p, v).n = n /\ Store(n, p, v).i = p
        BY DEF Store
      <4> QED
        BY <1>3, <4>1, <4>2
    <3>2. W(e, n, p) = s
      BY <2>4
    <3>3. m # n \/ i # p => W(e, m, i) = W(e - 1, m, i)
      BY <1>1, <2>1, <2>4
    <3> HIDE DEF W
    <3> QED
      BY <2>2, <3>1, <3>2, <3>3
  <2> QED
    BY <1>1, <2>3, <2>4
<1>10. \A e \in 1 .. Len(td) : Spares(V[e - 1], td[e], V0, S, k)
  <2> SUFFICES ASSUME NEW e \in 1 .. (l + 1) PROVE Spares(V[e - 1], td[e], V0, S, k)
    BY <1>2
  <2> SUFFICES ASSUME NEW m \in S, NEW i \in Slot,
                      V0[m][i][KeyLen] # NULL
               PROVE  \E m2 \in Addr, j \in Slot :
                        ~ (m2 = td[e].n /\ j = td[e].i) /\ V[e - 1][m2][j] = V0[m][i]
    BY DEF Spares
  <2>1. e \in 0 .. (l + 1) /\ e - 1 \in 0 .. (l + 1) /\ e \in Nat /\ i \in Nat /\ m \in Addr
    BY <1>1
  <2>2. td[e].n = n /\ td[e].i = f - e + 1
    <3>1. CASE e \in 1 .. l
      BY <1>2, <3>1 DEF CopiesTo
    <3>2. CASE e = l + 1
      <4>1. f - e + 1 = p
        BY <1>1, <3>2
      <4> QED
        BY <1>2, <3>2, <4>1 DEF Store
    <3> QED
      BY <1>1, <3>1, <3>2
  <2>3. CASE m = n /\ f - e < i /\ i < f
    <3>1. i + 1 \in Slot /\ i + 1 # f - e + 1
      BY <1>1, <2>1, <2>3, SlotsOfNode
    <3>2. W(e - 1, n, i + 1) = V0[n][i]
      BY <1>1, <2>1, <2>3
    <3> HIDE DEF W
    <3> QED
      BY <1>7, <2>1, <2>2, <2>3, <3>1, <3>2
  <2>4. CASE ~ (m = n /\ f - e < i /\ i < f)
    <3>1. ~ (m = n /\ i = f)
      OBVIOUS
    <3>2. W(e - 1, m, i) = V0[m][i] /\ ~ (m = n /\ i = f - e + 1)
      BY <1>1, <2>1, <2>4, <3>1
    <3> HIDE DEF W
    <3> QED
      BY <1>7, <2>1, <2>2, <3>2
  <2> QED
    BY <2>3, <2>4
<1>11. Goes(V, td, k, HeldIn(V0, S))
  BY <1>2, <1>6, <1>9, <1>10, Chain
<1>12. PairsIn(V[l + 1]) = [PairsIn(V0) EXCEPT
                              ![n] = N!insert_pair(PairsIn(V0)[n], p, f, Number(k), v)]
  <2> DEFINE P == PairsIn(V0)
             m0 == N!insert_pair(P[n], p, f, Number(k), v)
  <2>1. \A m \in Addr, i \in Slot : PairOf(V[l + 1][m][i]) = IF m = n THEN m0[i] ELSE P[m][i]
    <3> SUFFICES ASSUME NEW m \in Addr, NEW i \in Slot
                 PROVE  PairOf(V[l + 1][m][i]) = IF m = n THEN m0[i] ELSE P[m][i]
      OBVIOUS
    <3>1. V[l + 1][m][i] = W(l + 1, m, i)
      BY <1>1, <1>7
    <3>2. \A j \in Slot : P[m][j] = PairOf(V0[m][j])
      BY DEF PairsIn
    <3>3. m0[i] = IF i = p THEN [k |-> Number(k), v |-> v]
                  ELSE IF i \in (p + 1) .. f THEN P[n][i - 1] ELSE P[n][i]
      BY SameNode DEF N!insert_pair
    <3>4. i \in (p + 1) .. f <=> f - (l + 1) < i /\ i <= f /\ p < i
      BY <1>1
    <3>5. p < i => i - 1 \in Slot
      BY <1>1
    <3> HIDE DEF P, m0
    <3> QED
      BY <1>3, <3>1, <3>2, <3>3, <3>4, <3>5
  <2>2. m0 = [i \in Slot |-> m0[i]]
    BY SameNode DEF N!insert_pair
  <2>3. P = [m \in Addr |-> [i \in Slot |-> P[m][i]]]
    BY DEF PairsIn
  <2> HIDE DEF P, m0
  <2>4. PairsIn(V[l + 1]) = [m \in Addr |-> [i \in Slot |-> IF m = n THEN m0[i] ELSE P[m][i]]]
    BY <2>1 DEF PairsIn
  <2>5. [P EXCEPT ![n] = m0] = [m \in Addr |-> IF m = n THEN m0 ELSE P[m]]
    BY <2>3
  <2>6. \A m \in Addr : [i \in Slot |-> IF m = n THEN m0[i] ELSE P[m][i]] = IF m = n THEN m0 ELSE P[m]
    BY <2>2, <2>3
  <2>7. PairsIn(V[l + 1]) = [P EXCEPT ![n] = m0]
    BY <2>4, <2>5, <2>6
  <2> QED
    BY <2>7 DEF P, m0
<1>13. td # <<>>
  BY <1>1, <1>2
<1> HIDE DEF l
<1> QED
  BY <1>2, <1>8, <1>11, <1>12, <1>13 DEF td

LEMMA Cleared ==
  LET z == [x \in Part |-> 0] IN z \in Vector /\ PairOf(z) = N!Empty
<1> DEFINE z == [x \in Part |-> 0]
<1>1. \A j \in KeyWord : j \in Part /\ z[j] = 0
  BY Positions DEF Part, KeyWord
<1>2. 0 \in Digit
  BY Positions DEF Digit
<1>3. z \in Vector
  BY <1>1, <1>2 DEF Vector
<1>4. z[KeyLen] = 0
  BY Positions DEF Part
<1> HIDE DEF z
<1>5. KeyOf(z) = Zero
  BY <1>1 DEF KeyOf, Zero
<1>6. PairOf(z) = [k |-> 0, v |-> 0]
  BY <1>4, <1>5, ExtremeKeys, NumberRange DEF PairOf
<1> QED
  BY <1>3, <1>6 DEF N!Empty, NULL, z

LEMMA RemoveMoves ==
  ASSUME NEW n \in Addr, NEW p \in Slot, NEW f \in 1 .. NoPairs, p < f
  PROVE  LET td == remove_moves(n, p, f)
         IN /\ td \in Seq(Moves) /\ Len(td) = f - 1 - p + 1
            /\ \A e \in 1 .. (f - 1 - p) : CopiesTo(td[e], n, p + e - 1, n, p + e)
            /\ Clears(td[f - 1 - p + 1], n, f - 1)
<1> DEFINE h == [c \in 1 .. (f - 1 - p) |-> Copy(n, p + c - 1, n, p + c)]
           x == Clear(n, f - 1)
<1>1. f \in Nat /\ p \in Nat /\ f - 1 - p \in Nat /\ f - 1 \in Slot
  BY SlotsOfNode
<1>2. \A c \in 1 .. (f - 1 - p) : p + c - 1 \in Slot /\ p + c \in Slot /\ p + c - 1 # p + c
  BY <1>1, SlotsOfNode
<1>3. h \in [1 .. (f - 1 - p) -> Moves]
  BY <1>2, MoveTypes
<1>4. x \in Moves
  BY <1>1, MoveTypes
<1>5. remove_moves(n, p, f) = h \o <<x>>
  BY DEF remove_moves
<1>6. \A e \in 1 .. (f - 1 - p) : h[e] = Copy(n, p + e - 1, n, p + e)
  OBVIOUS
<1>7. Clears(x, n, f - 1)
  BY CopiesClears
<1>8. \A e \in 1 .. (f - 1 - p) : CopiesTo(h[e], n, p + e - 1, n, p + e)
  BY <1>6, CopiesClears
<1> HIDE DEF h, x
<1>9. /\ h \o <<x>> \in Seq(Moves) /\ Len(h \o <<x>>) = f - 1 - p + 1
      /\ \A c \in 1 .. (f - 1 - p) : (h \o <<x>>)[c] = h[c]
      /\ (h \o <<x>>)[f - 1 - p + 1] = x
  BY <1>1, <1>3, <1>4, AndThen
<1> QED
  BY <1>5, <1>7, <1>8, <1>9

LEMMA RemoveChain ==
  ASSUME NEW V0 \in Views, NEW k \in Keys, NEW n \in Addr, NEW p \in Slot, NEW f \in 1 .. NoPairs,
         p < f, PairOf(V0[n][p]).k = Number(k), NEW S, S \subseteq Addr
  PROVE  LET td == remove_moves(n, p, f)
         IN \E V : /\ Goes(V, td, k, HeldIn(V0, S)) /\ V[0] = V0 /\ td # <<>>
                   /\ PairsIn(V[Len(td)]) = [PairsIn(V0) EXCEPT
                        ![n] = N!remove_pair(PairsIn(V0)[n], p, f)]
<1> DEFINE td == remove_moves(n, p, f)
           l == f - 1 - p
           z == [x \in Part |-> 0]
           W(e, m, i) == IF m = n /\ e = l + 1 /\ i = f - 1 THEN z
                         ELSE IF m = n /\ p <= i /\ i < p + e /\ i < f - 1 THEN V0[n][i + 1]
                         ELSE V0[m][i]
           V == [e \in 0 .. (l + 1) |-> [m \in Addr |-> [i \in Slot |-> W(e, m, i)]]]
<1>1. /\ f \in Nat /\ p \in Nat /\ l \in Nat /\ f - 1 \in Slot
      /\ \A i \in Slot : i \in Nat /\ (i < f - 1 => i + 1 \in Slot)
  BY SlotsOfNode
<1>2. /\ td \in Seq(Moves) /\ Len(td) = l + 1
      /\ \A e \in 1 .. l : CopiesTo(td[e], n, p + e - 1, n, p + e)
      /\ Clears(td[l + 1], n, f - 1)
  BY RemoveMoves
<1>3. z \in Vector /\ PairOf(z) = N!Empty
  BY Cleared
<1>4. \A m \in Addr, i \in Slot : V0[m][i] \in Vector
  BY Slots
<1>z. \A mv, U, i : Clears(mv, n, i) => Given(U, mv, k) = z
  BY DEF Clears
<1> HIDE DEF td, z
<1>5. \A e \in 0 .. (l + 1), m \in Addr, i \in Slot : W(e, m, i) \in Vector
  BY <1>1, <1>3, <1>4
<1>6. V \in [0 .. Len(td) -> Views]
  BY <1>2, <1>5 DEF Views
<1>7. \A e \in 0 .. (l + 1), m \in Addr, i \in Slot : V[e][m][i] = W(e, m, i)
  OBVIOUS
<1>8. V[0] = V0
  <2>1. \A m \in Addr, i \in Slot : W(0, m, i) = V0[m][i]
    BY <1>1
  <2>2. V[0] = [m \in Addr |-> [i \in Slot |-> W(0, m, i)]]
    BY <1>1
  <2> HIDE DEF V, W
  <2>3. V[0] = [m \in Addr |-> [i \in Slot |-> V0[m][i]]]
    BY <2>1, <2>2
  <2> QED
    BY <2>3 DEF Views
<1> HIDE DEF V
<1>9. \A e \in 1 .. Len(td) : \A m \in Addr, i \in Slot :
        V[e][m][i] = IF m = td[e].n /\ i = td[e].i THEN Given(V[e - 1], td[e], k)
                     ELSE V[e - 1][m][i]
  <2> SUFFICES ASSUME NEW e \in 1 .. (l + 1), NEW m \in Addr, NEW i \in Slot
               PROVE  V[e][m][i] = IF m = td[e].n /\ i = td[e].i THEN Given(V[e - 1], td[e], k)
                                   ELSE V[e - 1][m][i]
    BY <1>2
  <2>1. e \in 0 .. (l + 1) /\ e - 1 \in 0 .. (l + 1) /\ e \in Nat /\ i \in Nat
    BY <1>1
  <2>2. V[e][m][i] = W(e, m, i) /\ V[e - 1][m][i] = W(e - 1, m, i)
    BY <1>7, <2>1
  <2>3. CASE e \in 1 .. l
    <3>1. /\ td[e].n = n /\ td[e].i = p + e - 1
          /\ Given(V[e - 1], td[e], k) = V[e - 1][n][p + e]
      <4>1. CopiesTo(td[e], n, p + e - 1, n, p + e)
        BY <1>2, <2>3
      <4> QED
        BY <4>1 DEF CopiesTo
    <3>2. p + e \in Slot /\ p + e - 1 \in Slot /\ p + e - 1 < f - 1 /\ (p + e - 1) + 1 = p + e
      BY <1>1, <2>3, SlotsOfNode
    <3>3. V[e - 1][n][p + e] = W(e - 1, n, p + e)
      BY <1>7, <2>1, <3>2
    <3>4. W(e - 1, n, p + e) = V0[n][p + e] /\ W(e, n, p + e - 1) = V0[n][p + e]
      BY <1>1, <2>3, <3>2
    <3>5. m # n \/ i # p + e - 1 => W(e, m, i) = W(e - 1, m, i)
      BY <1>1, <2>1, <2>3, <3>2
    <3> HIDE DEF W
    <3> QED
      BY <2>2, <3>1, <3>3, <3>4, <3>5
  <2>4. CASE e = l + 1
    <3>1. td[e].n = n /\ td[e].i = f - 1 /\ Given(V[e - 1], td[e], k) = z
      <4>1. Clears(td[e], n, f - 1)
        BY <1>2, <2>4
      <4> QED
        BY <1>z, <4>1 DEF Clears
    <3>2. W(e, n, f - 1) = z
      BY <2>4
    <3>3. m # n \/ i # f - 1 => W(e, m, i) = W(e - 1, m, i)
      BY <1>1, <2>1, <2>4
    <3> HIDE DEF W
    <3> QED
      BY <2>2, <3>1, <3>2, <3>3
  <2> QED
    BY <1>1, <2>3, <2>4
<1>10. \A e \in 1 .. Len(td) : Spares(V[e - 1], td[e], V0, S, k)
  <2> SUFFICES ASSUME NEW e \in 1 .. (l + 1) PROVE Spares(V[e - 1], td[e], V0, S, k)
    BY <1>2
  <2> SUFFICES ASSUME NEW m \in S, NEW i \in Slot,
                      PairOf(V0[m][i]).k # Number(k)
               PROVE  \E m2 \in Addr, j \in Slot :
                        ~ (m2 = td[e].n /\ j = td[e].i) /\ V[e - 1][m2][j] = V0[m][i]
    BY DEF Spares
  <2>1. e \in 0 .. (l + 1) /\ e - 1 \in 0 .. (l + 1) /\ e \in Nat /\ i \in Nat /\ m \in Addr
    BY <1>1
  <2>2. td[e].n = n /\ td[e].i = p + e - 1
    <3>1. CASE e \in 1 .. l
      BY <1>2, <3>1 DEF CopiesTo
    <3>2. CASE e = l + 1
      <4>1. p + e - 1 = f - 1
        BY <1>1, <3>2
      <4> QED
        BY <1>2, <3>2, <4>1 DEF Clears
    <3> QED
      BY <1>1, <3>1, <3>2
  <2>3. ~ (m = n /\ i = p)
    OBVIOUS
  <2>4. CASE m = n /\ p < i /\ i < p + e
    <3>1. i - 1 \in Slot /\ i - 1 # p + e - 1 /\ (i - 1) + 1 = i /\ i - 1 < f - 1
      <4>1. /\ i \in Nat /\ p \in Nat /\ e \in Nat /\ f \in Nat /\ e <= (f - 1 - p) + 1
            /\ NoPairs \in Nat /\ Slot = 0 .. (NoPairs - 1) /\ i <= NoPairs - 1
        BY <1>1, <2>1, SlotsOfNode
      <4>2. p < i /\ i < p + e
        BY <2>4
      <4> QED
        BY <4>1, <4>2
    <3>2. W(e - 1, n, i - 1) = V0[n][i]
      BY <1>1, <2>1, <2>4, <3>1
    <3> HIDE DEF W
    <3> QED
      BY <1>7, <2>1, <2>2, <2>4, <3>1, <3>2
  <2>5. CASE ~ (m = n /\ p < i /\ i < p + e)
    <3>1. W(e - 1, m, i) = V0[m][i] /\ ~ (m = n /\ i = p + e - 1)
      BY <1>1, <2>1, <2>3, <2>5
    <3> HIDE DEF W
    <3> QED
      BY <1>7, <2>1, <2>2, <3>1
  <2> QED
    BY <2>4, <2>5
<1>11. Goes(V, td, k, HeldIn(V0, S))
  BY <1>2, <1>6, <1>9, <1>10, Chain
<1>12. PairsIn(V[l + 1]) = [PairsIn(V0) EXCEPT ![n] = N!remove_pair(PairsIn(V0)[n], p, f)]
  <2> DEFINE P == PairsIn(V0)
             m0 == N!remove_pair(P[n], p, f)
  <2>1. \A m \in Addr, i \in Slot : PairOf(V[l + 1][m][i]) = IF m = n THEN m0[i] ELSE P[m][i]
    <3> SUFFICES ASSUME NEW m \in Addr, NEW i \in Slot
                 PROVE  PairOf(V[l + 1][m][i]) = IF m = n THEN m0[i] ELSE P[m][i]
      OBVIOUS
    <3>1. V[l + 1][m][i] = W(l + 1, m, i)
      BY <1>1, <1>7
    <3>2. \A j \in Slot : P[m][j] = PairOf(V0[m][j])
      BY DEF PairsIn
    <3>3. m0[i] = IF i = f - 1 THEN N!Empty
                  ELSE IF i \in p .. (f - 2) THEN P[n][i + 1]
                  ELSE IF f = 0 /\ i = NoPairs - 1 THEN [P[n][i] EXCEPT !.k = 0] ELSE P[n][i]
      BY SameNode DEF N!remove_pair
    <3>4. (i \in p .. (f - 2) <=> p <= i /\ i < p + (l + 1) /\ i < f - 1) /\ f # 0
      BY <1>1
    <3>5. i < f - 1 => i + 1 \in Slot
      BY <1>1
    <3> HIDE DEF P, m0
    <3> QED
      BY <1>3, <3>1, <3>2, <3>3, <3>4, <3>5
  <2>2. m0 = [i \in Slot |-> m0[i]]
    BY SameNode DEF N!remove_pair
  <2>3. P = [m \in Addr |-> [i \in Slot |-> P[m][i]]]
    BY DEF PairsIn
  <2> HIDE DEF P, m0
  <2>4. PairsIn(V[l + 1]) = [m \in Addr |-> [i \in Slot |-> IF m = n THEN m0[i] ELSE P[m][i]]]
    BY <2>1 DEF PairsIn
  <2>5. [P EXCEPT ![n] = m0] = [m \in Addr |-> IF m = n THEN m0 ELSE P[m]]
    BY <2>3
  <2>6. \A m \in Addr : [i \in Slot |-> IF m = n THEN m0[i] ELSE P[m][i]] = IF m = n THEN m0 ELSE P[m]
    BY <2>2, <2>3
  <2>7. PairsIn(V[l + 1]) = [P EXCEPT ![n] = m0]
    BY <2>4, <2>5, <2>6
  <2> QED
    BY <2>7 DEF P, m0
<1>13. td # <<>>
  BY <1>1, <1>2
<1> HIDE DEF l
<1> QED
  BY <1>2, <1>8, <1>11, <1>12, <1>13 DEF td

LEMMA MergeMoves ==
  ASSUME NEW a \in Addr, NEW b \in Addr, a # b, NEW x \in 0 .. NoPairs, NEW y \in 1 .. NoPairs,
         x + y <= NoPairs
  PROVE  LET td == merge_moves(a, x, b, y)
         IN /\ td \in Seq(Moves) /\ Len(td) = y
            /\ \A e \in 1 .. y : CopiesTo(td[e], a, x + e - 1, b, e - 1)
<1>1. x \in Nat /\ y \in Nat
  BY SlotsOfNode
<1>2. \A c \in 1 .. y : x + c - 1 \in Slot /\ c - 1 \in Slot
  BY <1>1, SlotsOfNode
<1>3. merge_moves(a, x, b, y) \in [1 .. y -> Moves]
  BY <1>2, MoveTypes DEF merge_moves
<1>4. \A e \in 1 .. y : CopiesTo(merge_moves(a, x, b, y)[e], a, x + e - 1, b, e - 1)
  BY CopiesClears DEF merge_moves
<1> QED
  BY <1>1, <1>3, <1>4

LEMMA MergeChain ==
  ASSUME NEW V0 \in Views, NEW k \in Keys, NEW a \in Addr, NEW b \in Addr, a # b,
         NEW x \in 0 .. NoPairs, NEW y \in 1 .. NoPairs, x + y <= NoPairs,
         \A i \in Slot : i >= x => V0[a][i][KeyLen] = NULL, NEW S, S \subseteq Addr
  PROVE  LET td == merge_moves(a, x, b, y)
         IN \E V : /\ Goes(V, td, k, HeldIn(V0, S)) /\ V[0] = V0 /\ td # <<>>
                   /\ PairsIn(V[Len(td)]) = [PairsIn(V0) EXCEPT
                        ![a] = N!append_pairs(PairsIn(V0)[a], x, PairsIn(V0)[b], y)]
<1> DEFINE td == merge_moves(a, x, b, y)
           W(e, m, i) == IF m = a /\ x <= i /\ i < x + e THEN V0[b][i - x] ELSE V0[m][i]
           V == [e \in 0 .. y |-> [m \in Addr |-> [i \in Slot |-> W(e, m, i)]]]
<1>1. /\ x \in Nat /\ y \in Nat
      /\ \A i \in Slot : i \in Nat /\ (x <= i => i - x \in Slot)
  BY SlotsOfNode
<1>2. /\ td \in Seq(Moves) /\ Len(td) = y
      /\ \A e \in 1 .. y : CopiesTo(td[e], a, x + e - 1, b, e - 1)
  BY MergeMoves
<1>4. \A m \in Addr, i \in Slot : V0[m][i] \in Vector
  BY Slots
<1> HIDE DEF td
<1>5. \A e \in 0 .. y, m \in Addr, i \in Slot : W(e, m, i) \in Vector
  BY <1>1, <1>4
<1>6. V \in [0 .. Len(td) -> Views]
  BY <1>2, <1>5 DEF Views
<1>7. \A e \in 0 .. y, m \in Addr, i \in Slot : V[e][m][i] = W(e, m, i)
  OBVIOUS
<1>8. V[0] = V0
  <2>1. \A m \in Addr, i \in Slot : W(0, m, i) = V0[m][i]
    BY <1>1
  <2>2. V[0] = [m \in Addr |-> [i \in Slot |-> W(0, m, i)]]
    BY <1>1
  <2> HIDE DEF V, W
  <2>3. V[0] = [m \in Addr |-> [i \in Slot |-> V0[m][i]]]
    BY <2>1, <2>2
  <2> QED
    BY <2>3 DEF Views
<1> HIDE DEF V
<1>9. \A e \in 1 .. Len(td) : \A m \in Addr, i \in Slot :
        V[e][m][i] = IF m = td[e].n /\ i = td[e].i THEN Given(V[e - 1], td[e], k)
                     ELSE V[e - 1][m][i]
  <2> SUFFICES ASSUME NEW e \in 1 .. y, NEW m \in Addr, NEW i \in Slot
               PROVE  V[e][m][i] = IF m = td[e].n /\ i = td[e].i THEN Given(V[e - 1], td[e], k)
                                   ELSE V[e - 1][m][i]
    BY <1>2
  <2>1. e \in 0 .. y /\ e - 1 \in 0 .. y /\ e \in Nat /\ i \in Nat
    BY <1>1
  <2>2. V[e][m][i] = W(e, m, i) /\ V[e - 1][m][i] = W(e - 1, m, i)
    BY <1>7, <2>1
  <2>3. /\ td[e].n = a /\ td[e].i = x + e - 1
        /\ Given(V[e - 1], td[e], k) = V[e - 1][b][e - 1]
    <3>1. CopiesTo(td[e], a, x + e - 1, b, e - 1)
      BY <1>2
    <3> QED
      BY <3>1 DEF CopiesTo
  <2>4. e - 1 \in Slot /\ (x + e - 1) - x = e - 1
    BY <1>1, SlotsOfNode
  <2>5. V[e - 1][b][e - 1] = V0[b][e - 1]
    BY <1>7, <2>1, <2>4
  <2>6. W(e, a, x + e - 1) = V0[b][e - 1]
    BY <1>1, <2>1, <2>4
  <2>7. m # a \/ i # x + e - 1 => W(e, m, i) = W(e - 1, m, i)
    BY <1>1, <2>1
  <2> HIDE DEF W
  <2> QED
    BY <2>2, <2>3, <2>5, <2>6, <2>7
<1>10. \A e \in 1 .. Len(td) : Spares(V[e - 1], td[e], V0, S, k)
  <2> SUFFICES ASSUME NEW e \in 1 .. y PROVE Spares(V[e - 1], td[e], V0, S, k)
    BY <1>2
  <2> SUFFICES ASSUME NEW m \in S, NEW i \in Slot,
                      V0[m][i][KeyLen] # NULL, PairOf(V0[m][i]).k # Number(k)
               PROVE  \E m2 \in Addr, j \in Slot :
                        ~ (m2 = td[e].n /\ j = td[e].i) /\ V[e - 1][m2][j] = V0[m][i]
    BY DEF Spares
  <2>1. e \in 0 .. y /\ e - 1 \in 0 .. y /\ e \in Nat /\ i \in Nat /\ m \in Addr
    BY <1>1
  <2>2. td[e].n = a /\ td[e].i = x + e - 1
    BY <1>2 DEF CopiesTo
  <2>3. ~ (m = a /\ i >= x)
    OBVIOUS
  <2>4. W(e - 1, m, i) = V0[m][i] /\ ~ (m = a /\ i = x + e - 1)
    BY <1>1, <2>1, <2>3
  <2> HIDE DEF W
  <2> QED
    BY <1>7, <2>1, <2>2, <2>4
<1>11. Goes(V, td, k, HeldIn(V0, S))
  BY <1>2, <1>6, <1>9, <1>10, Chain
<1>12. PairsIn(V[y]) = [PairsIn(V0) EXCEPT
                          ![a] = N!append_pairs(PairsIn(V0)[a], x, PairsIn(V0)[b], y)]
  <2> DEFINE P == PairsIn(V0)
             m0 == N!append_pairs(P[a], x, P[b], y)
  <2>1. \A m \in Addr, i \in Slot : PairOf(V[y][m][i]) = IF m = a THEN m0[i] ELSE P[m][i]
    <3> SUFFICES ASSUME NEW m \in Addr, NEW i \in Slot
                 PROVE  PairOf(V[y][m][i]) = IF m = a THEN m0[i] ELSE P[m][i]
      OBVIOUS
    <3>1. V[y][m][i] = W(y, m, i)
      BY <1>1, <1>7
    <3>2. \A c \in Addr, j \in Slot : P[c][j] = PairOf(V0[c][j])
      BY DEF PairsIn
    <3>3. m0[i] = IF i \in x .. (x + y - 1) THEN P[b][i - x] ELSE P[a][i]
      BY SameNode DEF N!append_pairs
    <3>4. i \in x .. (x + y - 1) <=> x <= i /\ i < x + y
      BY <1>1
    <3>5. x <= i => i - x \in Slot
      BY <1>1
    <3> HIDE DEF P, m0
    <3> QED
      BY <3>1, <3>2, <3>3, <3>4, <3>5
  <2>2. m0 = [i \in Slot |-> m0[i]]
    BY SameNode DEF N!append_pairs
  <2>3. P = [m \in Addr |-> [i \in Slot |-> P[m][i]]]
    BY DEF PairsIn
  <2> HIDE DEF P, m0
  <2>4. PairsIn(V[y]) = [m \in Addr |-> [i \in Slot |-> IF m = a THEN m0[i] ELSE P[m][i]]]
    BY <2>1 DEF PairsIn
  <2>5. [P EXCEPT ![a] = m0] = [m \in Addr |-> IF m = a THEN m0 ELSE P[m]]
    BY <2>3
  <2>6. \A m \in Addr : [i \in Slot |-> IF m = a THEN m0[i] ELSE P[m][i]] = IF m = a THEN m0 ELSE P[m]
    BY <2>2, <2>3
  <2>7. PairsIn(V[y]) = [P EXCEPT ![a] = m0]
    BY <2>4, <2>5, <2>6
  <2> QED
    BY <2>7 DEF P, m0
<1>13. td # <<>>
  BY <1>1, <1>2
<1> QED
  BY <1>2, <1>8, <1>11, <1>12, <1>13 DEF td

(* Every position in the split's loop is the first, second or third move   *)
(* of a round.                                                             *)
LEMMA Rounds ==
  ASSUME NEW h \in Nat
  PROVE  /\ \A e \in 1 .. 3 * h : \E r \in 0 .. (h - 1) :
              e = 3 * r + 1 \/ e = 3 * r + 2 \/ e = 3 * r + 3
         /\ \A r \in 0 .. (h - 1) :
              /\ 3 * r + 1 \in 1 .. 3 * h /\ (3 * r + 1) % 3 = 1 /\ (3 * r + 1 - 1) \div 3 = r
              /\ 3 * r + 2 \in 1 .. 3 * h /\ (3 * r + 2) % 3 = 2 /\ (3 * r + 2 - 1) \div 3 = r
              /\ 3 * r + 3 \in 1 .. 3 * h /\ (3 * r + 3) % 3 = 0 /\ (3 * r + 3 - 1) \div 3 = r
<1>1. ASSUME NEW e \in 1 .. 3 * h
      PROVE  \E r \in 0 .. (h - 1) : e = 3 * r + 1 \/ e = 3 * r + 2 \/ e = 3 * r + 3
  <2> DEFINE r == (e - 1) \div 3
  <2>1. r \in Int /\ 3 * r <= e - 1 /\ e - 1 <= 3 * r + 2
    OBVIOUS
  <2> HIDE DEF r
  <2>2. r \in 0 .. (h - 1)
    BY <2>1
  <2>3. e = 3 * r + 1 \/ e = 3 * r + 2 \/ e = 3 * r + 3
    BY <2>1
  <2> QED
    BY <2>2, <2>3
<1>2. ASSUME NEW r \in 0 .. (h - 1)
      PROVE  /\ 3 * r + 1 \in 1 .. 3 * h /\ (3 * r + 1) % 3 = 1 /\ (3 * r + 1 - 1) \div 3 = r
             /\ 3 * r + 2 \in 1 .. 3 * h /\ (3 * r + 2) % 3 = 2 /\ (3 * r + 2 - 1) \div 3 = r
             /\ 3 * r + 3 \in 1 .. 3 * h /\ (3 * r + 3) % 3 = 0 /\ (3 * r + 3 - 1) \div 3 = r
  <2>1. r \in Nat /\ r <= h - 1
    OBVIOUS
  <2>2. 3 * r + 1 \in 1 .. 3 * h /\ 3 * r + 2 \in 1 .. 3 * h /\ 3 * r + 3 \in 1 .. 3 * h
    BY <2>1
  <2>3. (3 * r + 1) % 3 = 1 /\ (3 * r + 2) % 3 = 2 /\ (3 * r + 3) % 3 = 0
    BY <2>1
  <2>4. (3 * r + 1 - 1) \div 3 = r /\ (3 * r + 2 - 1) \div 3 = r /\ (3 * r + 3 - 1) \div 3 = r
    BY <2>1
  <2> QED
    BY <2>2, <2>3, <2>4
<1> QED
  BY <1>1, <1>2

(* The moves of a split of n in the order of the loop, new being empty.    *)
Odd == NoPairs = 2 * N!Half + 1
SplitLen == IF Odd THEN 3 * N!Half + 2 ELSE 3 * N!Half

LEMMA SplitMoves ==
  ASSUME NEW n \in Addr, NEW new \in Addr, n # new
  PROVE  LET td == split_moves(n, new, NoPairs)
             h == N!Half
         IN /\ td \in Seq(Moves) /\ Len(td) = SplitLen
            /\ \A r \in 0 .. (h - 1) : /\ CopiesTo(td[3 * r + 1], new, r, n, r)
                                       /\ CopiesTo(td[3 * r + 2], n, r, n, r + h)
                                       /\ Clears(td[3 * r + 3], n, r + h)
            /\ Odd => /\ CopiesTo(td[3 * h + 1], n, h, n, 2 * h)
                      /\ Clears(td[3 * h + 2], n, 2 * h)
<1> DEFINE h == N!Half
           round(c, i) == CASE c % 3 = 1 -> Copy(new, i, n, i)
                            [] c % 3 = 2 -> Copy(n, i, n, i + h)
                            [] c % 3 = 0 -> Clear(n, i + h)
           f == [c \in 1 .. 3 * h |-> round(c, (c - 1) \div 3)]
           x == Copy(n, h, n, NoPairs - 1)
           y == Clear(n, NoPairs - 1)
           td == split_moves(n, new, NoPairs)
<1>1. h \in Nat /\ h >= 1 /\ 2 * h <= NoPairs /\ NoPairs <= 2 * h + 1 /\ h = NoPairs \div 2
  BY HalfOf
<1>2. td = f \o IF NoPairs % 2 = 1 THEN <<x, y>> ELSE <<>>
  BY <1>1 DEF split_moves
<1>3. NoPairs % 2 = 1 <=> Odd
  <2>1. NoPairs = 2 * (NoPairs \div 2) + (NoPairs % 2) /\ NoPairs % 2 \in 0 .. 1
    BY SlotsOfNode
  <2> QED
    BY <1>1, <2>1 DEF Odd
<1> HIDE DEF h, td
<1>4. ASSUME NEW r \in 0 .. (h - 1)
      PROVE  f[3 * r + 1] = Copy(new, r, n, r) /\ f[3 * r + 2] = Copy(n, r, n, r + h)
             /\ f[3 * r + 3] = Clear(n, r + h)
  <2>1. /\ 3 * r + 1 \in 1 .. 3 * h /\ (3 * r + 1) % 3 = 1 /\ (3 * r + 1 - 1) \div 3 = r
        /\ 3 * r + 2 \in 1 .. 3 * h /\ (3 * r + 2) % 3 = 2 /\ (3 * r + 2 - 1) \div 3 = r
        /\ 3 * r + 3 \in 1 .. 3 * h /\ (3 * r + 3) % 3 = 0 /\ (3 * r + 3 - 1) \div 3 = r
    BY <1>1, Rounds
  <2>2. f[3 * r + 1] = round(3 * r + 1, r) /\ f[3 * r + 2] = round(3 * r + 2, r)
        /\ f[3 * r + 3] = round(3 * r + 3, r)
    <3> HIDE DEF round
    <3> QED
      BY <2>1
  <2>3. \A c : c % 3 = 1 => round(c, r) = Copy(new, r, n, r)
    OBVIOUS
  <2>4. \A c : c % 3 = 2 => round(c, r) = Copy(n, r, n, r + h)
    OBVIOUS
  <2>5. \A c : c % 3 = 0 => round(c, r) = Clear(n, r + h)
    OBVIOUS
  <2> HIDE DEF round, f
  <2> QED
    BY <2>1, <2>2, <2>3, <2>4, <2>5
<1>5. ASSUME NEW r \in 0 .. (h - 1)
      PROVE  r \in Slot /\ r + h \in Slot /\ r # r + h
  BY <1>1, SlotsOfNode
<1>6. \A e \in 1 .. 3 * h : f[e] \in Moves
  <2> SUFFICES ASSUME NEW e \in 1 .. 3 * h PROVE f[e] \in Moves
    OBVIOUS
  <2>1. PICK r \in 0 .. (h - 1) : e = 3 * r + 1 \/ e = 3 * r + 2 \/ e = 3 * r + 3
    BY <1>1, Rounds
  <2>2. r \in Slot /\ r + h \in Slot /\ r # r + h
    BY <1>5
  <2>3. Copy(new, r, n, r) \in Moves /\ Copy(n, r, n, r + h) \in Moves /\ Clear(n, r + h) \in Moves
    BY <2>2, MoveTypes
  <2> HIDE DEF f
  <2> QED
    BY <1>4, <2>1, <2>3
<1>7. f \in [1 .. 3 * h -> Moves] /\ 3 * h \in Nat
  <2>1. 3 * h \in Nat
    BY <1>1
  <2> DEFINE D == 1 .. 3 * h
  <2>2. f = [e \in D |-> f[e]]
    OBVIOUS
  <2>3. \A e \in D : f[e] \in Moves
    BY <1>6
  <2> HIDE DEF f, D
  <2>4. f \in [D -> Moves]
    BY <2>2, <2>3
  <2> QED
    BY <2>1, <2>4 DEF D
<1> HIDE DEF f
<1>8. ASSUME NEW r \in 0 .. (h - 1)
      PROVE  /\ 3 * r + 1 \in 1 .. 3 * h /\ 3 * r + 2 \in 1 .. 3 * h /\ 3 * r + 3 \in 1 .. 3 * h
             /\ CopiesTo(f[3 * r + 1], new, r, n, r) /\ CopiesTo(f[3 * r + 2], n, r, n, r + h)
             /\ Clears(f[3 * r + 3], n, r + h)
  <2>1. 3 * r + 1 \in 1 .. 3 * h /\ 3 * r + 2 \in 1 .. 3 * h /\ 3 * r + 3 \in 1 .. 3 * h
    BY <1>1, Rounds
  <2>2. f[3 * r + 1] = Copy(new, r, n, r) /\ f[3 * r + 2] = Copy(n, r, n, r + h)
        /\ f[3 * r + 3] = Clear(n, r + h)
    BY <1>4
  <2> QED
    BY <2>1, <2>2, CopiesClears
<1>9. CASE Odd
  <2>1. NoPairs - 1 = 2 * h /\ h \in Slot /\ 2 * h \in Slot /\ h # 2 * h
    BY <1>1, <1>9, SlotsOfNode DEF Odd, h
  <2>2. x \in Moves /\ y \in Moves
    BY <2>1, MoveTypes
  <2>3. CopiesTo(x, n, h, n, 2 * h) /\ Clears(y, n, 2 * h)
    BY <2>1, CopiesClears
  <2> HIDE DEF x, y
  <2>4. <<x, y>> \in Seq(Moves) /\ Len(<<x, y>>) = 2 /\ f \in Seq(Moves) /\ Len(f) = 3 * h
    BY <1>7, <2>2
  <2>5. /\ f \o <<x, y>> \in Seq(Moves) /\ Len(f \o <<x, y>>) = 3 * h + 2
        /\ \A c \in 1 .. 3 * h + 2 :
             (f \o <<x, y>>)[c] = IF c <= 3 * h THEN f[c] ELSE <<x, y>>[c - 3 * h]
    BY <2>4, ConcatProperties
  <2>6. td = f \o <<x, y>>
    BY <1>2, <1>3, <1>9
  <2>7. \A c \in 1 .. 3 * h : td[c] = f[c]
    BY <1>7, <2>5, <2>6
  <2>8. td[3 * h + 1] = x /\ td[3 * h + 2] = y
    <3>1. 3 * h + 1 \in 1 .. 3 * h + 2 /\ 3 * h + 2 \in 1 .. 3 * h + 2
          /\ (3 * h + 1) - 3 * h = 1 /\ (3 * h + 2) - 3 * h = 2
          /\ ~ (3 * h + 1 <= 3 * h) /\ ~ (3 * h + 2 <= 3 * h)
      BY <1>7
    <3> QED
      BY <2>5, <2>6, <3>1
  <2> QED
    BY <1>8, <1>9, <2>3, <2>5, <2>6, <2>7, <2>8 DEF td, h, SplitLen
<1>10. CASE ~ Odd
  <2>3. td = f \o <<>>
    BY <1>2, <1>3, <1>10
  <2>1. f \in Seq(Moves) /\ Len(f) = 3 * h
    BY <1>7
  <2>2. td = f
    BY <2>1, <2>3, ConcatEmptySeq
  <2> QED
    BY <1>8, <1>10, <2>1, <2>2 DEF td, h, SplitLen
<1> QED
  BY <1>9, <1>10

(* V goes from V0 through the moves of the loop that splits n into new.    *)
SplitGoes(V, V0, n, new, k) ==
  LET td == split_moves(n, new, NoPairs)
      P == PairsIn(V0)
  IN /\ Goes(V, td, k, HeldIn(V0, {n})) /\ V[0] = V0 /\ td # <<>>
     /\ PairsIn(V[Len(td)]) =
          [a \in Addr |-> IF a = n THEN N!lower_half(P[n])
                          ELSE IF a = new THEN N!upper_half(P[n], P[new]) ELSE P[a]]

LEMMA SplitChain ==
  ASSUME NEW V0 \in Views, NEW k \in Keys, NEW n \in Addr, NEW new \in Addr, n # new
  PROVE  \E V : SplitGoes(V, V0, n, new, k)
<1> DEFINE td == split_moves(n, new, NoPairs)
           h == N!Half
           l == SplitLen
           z == [x \in Part |-> 0]
           W(e, m, i) == IF m = new /\ i < h /\ 3 * i + 1 <= e THEN V0[n][i]
                         ELSE IF m = n /\ i < h /\ 3 * i + 2 <= e THEN V0[n][i + h]
                         ELSE IF m = n /\ i = h /\ e > 3 * h THEN V0[n][2 * h]
                         ELSE IF m = n /\ h <= i /\ i < 2 * h /\ 3 * (i - h) + 3 <= e THEN z
                         ELSE IF m = n /\ i = 2 * h /\ e = 3 * h + 2 THEN z
                         ELSE V0[m][i]
           V == [e \in 0 .. l |-> [m \in Addr |-> [i \in Slot |-> W(e, m, i)]]]
<1>1. /\ h \in Nat /\ h >= 1 /\ 2 * h <= NoPairs /\ NoPairs <= 2 * h + 1
      /\ \A i \in Slot : i \in Nat /\ i < NoPairs /\ (i < h => i + h \in Slot)
      /\ Odd => 2 * h \in Slot /\ h \in Slot /\ NoPairs = 2 * h + 1 /\ l = 3 * h + 2
      /\ ~ Odd => NoPairs = 2 * h /\ l = 3 * h
      /\ l \in Nat /\ 3 * h <= l /\ l <= 3 * h + 2 /\ (l > 3 * h => Odd)
  BY HalfOf, SlotsOfNode DEF Odd, SplitLen
<1>2. /\ td \in Seq(Moves) /\ Len(td) = l
      /\ \A r \in 0 .. (h - 1) : /\ CopiesTo(td[3 * r + 1], new, r, n, r)
                                 /\ CopiesTo(td[3 * r + 2], n, r, n, r + h)
                                 /\ Clears(td[3 * r + 3], n, r + h)
      /\ Odd => /\ CopiesTo(td[3 * h + 1], n, h, n, 2 * h)
                /\ Clears(td[3 * h + 2], n, 2 * h)
  BY SplitMoves
<1>3. z \in Vector /\ PairOf(z) = N!Empty
  BY Cleared
<1>4. \A m \in Addr, i \in Slot : V0[m][i] \in Vector
  BY Slots
<1>z. \A mv, U, i : Clears(mv, n, i) => Given(U, mv, k) = z
  BY DEF Clears
<1> HIDE DEF td, z, h, l
<1>5. \A e \in 0 .. l, m \in Addr, i \in Slot : W(e, m, i) \in Vector
  <2> SUFFICES ASSUME NEW e \in 0 .. l, NEW m \in Addr, NEW i \in Slot PROVE W(e, m, i) \in Vector
    OBVIOUS
  <2>1. V0[m][i] \in Vector /\ V0[n][i] \in Vector /\ (i < h => V0[n][i + h] \in Vector)
    BY <1>1, <1>4
  <2>2. e > 3 * h => V0[n][2 * h] \in Vector
    <3>1. e > 3 * h => 2 * h \in Slot
      BY <1>1
    <3> QED
      BY <1>4, <3>1
  <2> QED
    BY <1>3, <2>1, <2>2
<1>6. V \in [0 .. Len(td) -> Views]
  <2> HIDE DEF W
  <2> QED
    BY <1>2, <1>5 DEF Views
<1>7. \A e \in 0 .. l, m \in Addr, i \in Slot : V[e][m][i] = W(e, m, i)
  <2> HIDE DEF W
  <2> QED
    OBVIOUS
<1>8. V[0] = V0
  <2>1. \A m \in Addr, i \in Slot : W(0, m, i) = V0[m][i]
    BY <1>1
  <2> HIDE DEF W
  <2>2. V[0] = [m \in Addr |-> [i \in Slot |-> W(0, m, i)]]
    BY <1>1
  <2> HIDE DEF V
  <2>3. V[0] = [m \in Addr |-> [i \in Slot |-> V0[m][i]]]
    BY <2>1, <2>2
  <2> QED
    BY <2>3 DEF Views
<1> HIDE DEF V
(* Where each move goes, and what it takes from where.                     *)
<1>9. \A e \in 1 .. l :
        \/ \E r \in 0 .. (h - 1) : \/ e = 3 * r + 1 /\ CopiesTo(td[e], new, r, n, r)
                                   \/ e = 3 * r + 2 /\ CopiesTo(td[e], n, r, n, r + h)
                                   \/ e = 3 * r + 3 /\ Clears(td[e], n, r + h)
        \/ Odd /\ e = 3 * h + 1 /\ CopiesTo(td[e], n, h, n, 2 * h)
        \/ Odd /\ e = 3 * h + 2 /\ Clears(td[e], n, 2 * h)
  <2> SUFFICES ASSUME NEW e \in 1 .. l
               PROVE  \/ \E r \in 0 .. (h - 1) :
                           \/ e = 3 * r + 1 /\ CopiesTo(td[e], new, r, n, r)
                           \/ e = 3 * r + 2 /\ CopiesTo(td[e], n, r, n, r + h)
                           \/ e = 3 * r + 3 /\ Clears(td[e], n, r + h)
                      \/ Odd /\ e = 3 * h + 1 /\ CopiesTo(td[e], n, h, n, 2 * h)
                      \/ Odd /\ e = 3 * h + 2 /\ Clears(td[e], n, 2 * h)
    OBVIOUS
  <2>1. CASE e <= 3 * h
    <3>1. e \in 1 .. 3 * h
      BY <1>1, <2>1
    <3>2. PICK r \in 0 .. (h - 1) : e = 3 * r + 1 \/ e = 3 * r + 2 \/ e = 3 * r + 3
      BY <1>1, <3>1, Rounds
    <3> QED
      BY <1>2, <3>2
  <2>2. CASE ~ (e <= 3 * h)
    <3>1. Odd /\ (e = 3 * h + 1 \/ e = 3 * h + 2)
      BY <1>1, <2>2
    <3> QED
      BY <1>2, <3>1
  <2> QED
    BY <2>1, <2>2
<1>10. \A e \in 1 .. Len(td) : \A m \in Addr, i \in Slot :
        V[e][m][i] = IF m = td[e].n /\ i = td[e].i THEN Given(V[e - 1], td[e], k)
                     ELSE V[e - 1][m][i]
  <2> SUFFICES ASSUME NEW e \in 1 .. l, NEW m \in Addr, NEW i \in Slot
               PROVE  V[e][m][i] = IF m = td[e].n /\ i = td[e].i THEN Given(V[e - 1], td[e], k)
                                   ELSE V[e - 1][m][i]
    BY <1>2
  <2>1. e \in 0 .. l /\ e - 1 \in 0 .. l /\ e \in Nat /\ i \in Nat /\ i < NoPairs
    BY <1>1
  <2>2. V[e][m][i] = W(e, m, i) /\ V[e - 1][m][i] = W(e - 1, m, i)
    BY <1>7, <2>1
  <2>3. ASSUME NEW r \in 0 .. (h - 1), e = 3 * r + 1, CopiesTo(td[e], new, r, n, r)
        PROVE  V[e][m][i] = IF m = td[e].n /\ i = td[e].i THEN Given(V[e - 1], td[e], k)
                            ELSE V[e - 1][m][i]
    <3>1. td[e].n = new /\ td[e].i = r /\ Given(V[e - 1], td[e], k) = V[e - 1][n][r]
      BY <2>3 DEF CopiesTo
    <3>2. r \in Slot /\ r \in Nat /\ r < h
      BY <1>1, SlotsOfNode
    <3>3. V[e - 1][n][r] = W(e - 1, n, r)
      BY <1>7, <2>1, <3>2
    <3>4. W(e - 1, n, r) = V0[n][r] /\ W(e, new, r) = V0[n][r]
      BY <1>1, <2>3, <3>2
    <3>5. m # new \/ i # r => W(e, m, i) = W(e - 1, m, i)
      BY <1>1, <2>1, <2>3, <3>2
    <3> HIDE DEF W
    <3> QED
      BY <2>2, <3>1, <3>3, <3>4, <3>5
  <2>4. ASSUME NEW r \in 0 .. (h - 1), e = 3 * r + 2, CopiesTo(td[e], n, r, n, r + h)
        PROVE  V[e][m][i] = IF m = td[e].n /\ i = td[e].i THEN Given(V[e - 1], td[e], k)
                            ELSE V[e - 1][m][i]
    <3>1. td[e].n = n /\ td[e].i = r /\ Given(V[e - 1], td[e], k) = V[e - 1][n][r + h]
      BY <2>4 DEF CopiesTo
    <3>2. r \in Slot /\ r + h \in Slot /\ r \in Nat /\ r < h /\ (r + h) - h = r
      BY <1>1, SlotsOfNode
    <3>3. V[e - 1][n][r + h] = W(e - 1, n, r + h)
      BY <1>7, <2>1, <3>2
    <3>4. W(e - 1, n, r + h) = V0[n][r + h] /\ W(e, n, r) = V0[n][r + h]
      BY <1>1, <2>4, <3>2
    <3>5. m # n \/ i # r => W(e, m, i) = W(e - 1, m, i)
      BY <1>1, <2>1, <2>4, <3>2
    <3> HIDE DEF W
    <3> QED
      BY <2>2, <3>1, <3>3, <3>4, <3>5
  <2>5. ASSUME NEW r \in 0 .. (h - 1), e = 3 * r + 3, Clears(td[e], n, r + h)
        PROVE  V[e][m][i] = IF m = td[e].n /\ i = td[e].i THEN Given(V[e - 1], td[e], k)
                            ELSE V[e - 1][m][i]
    <3>1. td[e].n = n /\ td[e].i = r + h /\ Given(V[e - 1], td[e], k) = z
      BY <1>z, <2>5 DEF Clears
    <3>2. r + h \in Slot /\ r \in Nat /\ r < h /\ (r + h) - h = r
      BY <1>1, SlotsOfNode
    <3>3. W(e, n, r + h) = z
      BY <1>1, <2>5, <3>2
    <3>4. m # n \/ i # r + h => W(e, m, i) = W(e - 1, m, i)
      BY <1>1, <2>1, <2>5, <3>2
    <3> HIDE DEF W
    <3> QED
      BY <2>2, <3>1, <3>3, <3>4
  <2>6. ASSUME Odd, e = 3 * h + 1, CopiesTo(td[e], n, h, n, 2 * h)
        PROVE  V[e][m][i] = IF m = td[e].n /\ i = td[e].i THEN Given(V[e - 1], td[e], k)
                            ELSE V[e - 1][m][i]
    <3>1. td[e].n = n /\ td[e].i = h /\ Given(V[e - 1], td[e], k) = V[e - 1][n][2 * h]
      BY <2>6 DEF CopiesTo
    <3>2. 2 * h \in Slot
      BY <1>1, <2>6
    <3>3. V[e - 1][n][2 * h] = W(e - 1, n, 2 * h)
      BY <1>7, <2>1, <3>2
    <3>4. W(e - 1, n, 2 * h) = V0[n][2 * h] /\ W(e, n, h) = V0[n][2 * h]
      BY <1>1, <2>6
    <3>5. m # n \/ i # h => W(e, m, i) = W(e - 1, m, i)
      BY <1>1, <2>1, <2>6
    <3> HIDE DEF W
    <3> QED
      BY <2>2, <3>1, <3>3, <3>4, <3>5
  <2>7. ASSUME Odd, e = 3 * h + 2, Clears(td[e], n, 2 * h)
        PROVE  V[e][m][i] = IF m = td[e].n /\ i = td[e].i THEN Given(V[e - 1], td[e], k)
                            ELSE V[e - 1][m][i]
    <3>1. td[e].n = n /\ td[e].i = 2 * h /\ Given(V[e - 1], td[e], k) = z
      BY <1>z, <2>7 DEF Clears
    <3>2. W(e, n, 2 * h) = z
      BY <1>1, <2>7
    <3>3. m # n \/ i # 2 * h => W(e, m, i) = W(e - 1, m, i)
      BY <1>1, <2>1, <2>7
    <3> HIDE DEF W
    <3> QED
      BY <2>2, <3>1, <3>2, <3>3
  <2> HIDE DEF W
  <2> QED
    BY <1>9, <2>3, <2>4, <2>5, <2>6, <2>7
<1>11. \A e \in 1 .. Len(td) : Spares(V[e - 1], td[e], V0, {n}, k)
  <2> SUFFICES ASSUME NEW e \in 1 .. l PROVE Spares(V[e - 1], td[e], V0, {n}, k)
    BY <1>2
  <2> SUFFICES ASSUME NEW i \in Slot
               PROVE  \E m \in Addr, j \in Slot :
                        ~ (m = td[e].n /\ j = td[e].i) /\ V[e - 1][m][j] = V0[n][i]
    BY DEF Spares
  <2>1. e - 1 \in 0 .. l /\ e \in Nat /\ i \in Nat /\ i < NoPairs
    BY <1>1
  <2>8. h <= i => i - h \in Slot /\ (i - h) + h = i
    <3>1. h \in Nat
      BY <1>1
    <3> QED
      BY <2>1, <3>1, SlotsOfNode
  <2> DEFINE Found(m, j) == /\ m \in Addr /\ j \in Slot /\ W(e - 1, m, j) = V0[n][i]
                            /\ ~ (m = td[e].n /\ j = td[e].i)
  <2>2. ASSUME NEW m, NEW j, Found(m, j)
        PROVE  \E m1 \in Addr, j1 \in Slot :
                 ~ (m1 = td[e].n /\ j1 = td[e].i) /\ V[e - 1][m1][j1] = V0[n][i]
    <3>1. V[e - 1][m][j] = W(e - 1, m, j)
      BY <1>7, <2>1, <2>2
    <3> HIDE DEF W
    <3> QED
      BY <2>2, <3>1
  <2>3. ASSUME NEW r \in 0 .. (h - 1), e = 3 * r + 1, CopiesTo(td[e], new, r, n, r)
        PROVE  \E m, j : Found(m, j)
    <3>1. td[e].n = new /\ td[e].i = r /\ r \in Nat /\ r < h
      BY <1>1, <2>3 DEF CopiesTo
    <3>2. CASE i < r
      <4>1. Found(new, i)
        BY <1>1, <2>1, <2>3, <3>1, <3>2
      <4> QED
        BY <4>1
    <3>3. CASE h <= i /\ i < h + r
      <4>1. i - h \in Slot /\ (i - h) + h = i
        BY <2>8, <3>3
      <4>2. Found(n, i - h)
        BY <1>1, <2>1, <2>3, <3>1, <3>3, <4>1
      <4> QED
        BY <4>2
    <3>4. CASE ~ (i < r) /\ ~ (h <= i /\ i < h + r)
      <4>1. Found(n, i)
        BY <1>1, <2>1, <2>3, <3>1, <3>4
      <4> QED
        BY <4>1
    <3> QED
      BY <3>2, <3>3, <3>4
  <2>4. ASSUME NEW r \in 0 .. (h - 1), e = 3 * r + 2, CopiesTo(td[e], n, r, n, r + h)
        PROVE  \E m, j : Found(m, j)
    <3>1. td[e].n = n /\ td[e].i = r /\ r \in Nat /\ r < h
      BY <1>1, <2>4 DEF CopiesTo
    <3>2. CASE i <= r
      <4>1. Found(new, i)
        BY <1>1, <2>1, <2>4, <3>1, <3>2
      <4> QED
        BY <4>1
    <3>3. CASE h <= i /\ i < h + r
      <4>1. i - h \in Slot /\ (i - h) + h = i
        BY <2>8, <3>3
      <4>2. Found(n, i - h)
        BY <1>1, <2>1, <2>4, <3>1, <3>3, <4>1
      <4> QED
        BY <4>2
    <3>4. CASE ~ (i <= r) /\ ~ (h <= i /\ i < h + r)
      <4>1. Found(n, i)
        BY <1>1, <2>1, <2>4, <3>1, <3>4
      <4> QED
        BY <4>1
    <3> QED
      BY <3>2, <3>3, <3>4
  <2>5. ASSUME NEW r \in 0 .. (h - 1), e = 3 * r + 3, Clears(td[e], n, r + h)
        PROVE  \E m, j : Found(m, j)
    <3>1. td[e].n = n /\ td[e].i = r + h /\ r \in Nat /\ r < h
      BY <1>1, <2>5 DEF Clears
    <3>2. CASE i <= r
      <4>1. Found(new, i)
        BY <1>1, <2>1, <2>5, <3>1, <3>2
      <4> QED
        BY <4>1
    <3>3. CASE h <= i /\ i <= h + r
      <4>1. i - h \in Slot /\ (i - h) + h = i
        BY <2>8, <3>3
      <4>2. Found(n, i - h)
        BY <1>1, <2>1, <2>5, <3>1, <3>3, <4>1
      <4> QED
        BY <4>2
    <3>4. CASE ~ (i <= r) /\ ~ (h <= i /\ i <= h + r)
      <4>1. Found(n, i)
        BY <1>1, <2>1, <2>5, <3>1, <3>4
      <4> QED
        BY <4>1
    <3> QED
      BY <3>2, <3>3, <3>4
  <2>6. ASSUME Odd, \/ e = 3 * h + 1 /\ CopiesTo(td[e], n, h, n, 2 * h)
                    \/ e = 3 * h + 2 /\ Clears(td[e], n, 2 * h)
        PROVE  \E m, j : Found(m, j)
    <3>1. /\ td[e].n = n /\ e > 3 * h
          /\ \/ e = 3 * h + 1 /\ td[e].i = h
             \/ e = 3 * h + 2 /\ td[e].i = 2 * h
      BY <1>1, <2>6 DEF CopiesTo, Clears
    <3>2. CASE i < h
      <4>1. Found(new, i)
        BY <1>1, <2>1, <3>1, <3>2
      <4> QED
        BY <4>1
    <3>3. CASE h <= i /\ i < 2 * h
      <4>1. i - h \in Slot /\ (i - h) + h = i
        BY <2>8, <3>3
      <4>2. Found(n, i - h)
        BY <1>1, <2>1, <3>1, <3>3, <4>1
      <4> QED
        BY <4>2
    <3>4. CASE i = 2 * h /\ e = 3 * h + 1
      <4>1. Found(n, i)
        BY <1>1, <2>1, <3>1, <3>4
      <4> QED
        BY <4>1
    <3>5. CASE i = 2 * h /\ e = 3 * h + 2
      <4>1. Found(n, h)
        BY <1>1, <2>1, <2>6, <3>1, <3>5
      <4> QED
        BY <4>1
    <3> QED
      BY <1>1, <2>1, <2>6, <3>1, <3>2, <3>3, <3>4, <3>5
  <2> HIDE DEF Found
  <2>7. \E m, j : Found(m, j)
    BY <1>9, <2>3, <2>4, <2>5, <2>6
  <2> QED
    BY <2>2, <2>7
<1>12. Goes(V, td, k, HeldIn(V0, {n}))
  BY <1>2, <1>6, <1>10, <1>11, Chain
<1>13. PairsIn(V[l]) = [a \in Addr |->
          IF a = n THEN N!lower_half(PairsIn(V0)[n])
          ELSE IF a = new THEN N!upper_half(PairsIn(V0)[n], PairsIn(V0)[new]) ELSE PairsIn(V0)[a]]
  <2> DEFINE P == PairsIn(V0)
             lo == N!lower_half(P[n])
             up == N!upper_half(P[n], P[new])
             Q == [a \in Addr |-> IF a = n THEN lo ELSE IF a = new THEN up ELSE P[a]]
  <2>1. \A m \in Addr, i \in Slot : PairOf(V[l][m][i]) = Q[m][i]
    <3> SUFFICES ASSUME NEW m \in Addr, NEW i \in Slot
                 PROVE  PairOf(V[l][m][i]) = IF m = n THEN lo[i] ELSE IF m = new THEN up[i] ELSE P[m][i]
      OBVIOUS
    <3>1. V[l][m][i] = W(l, m, i)
      BY <1>1, <1>7
    <3>2. \A c \in Addr, j \in Slot : P[c][j] = PairOf(V0[c][j])
      BY DEF PairsIn
    <3>3. lo[i] = IF i + h < NoPairs THEN P[n][i + h] ELSE N!Empty
      BY SameNode DEF N!lower_half, h
    <3>4. up[i] = IF i < h THEN P[n][i] ELSE P[new][i]
      BY SameNode DEF N!upper_half, h
    <3>5. i \in Nat /\ i < NoPairs /\ (i + h < NoPairs => i + h \in Slot)
      BY <1>1, SlotsOfNode
    <3> HIDE DEF P, lo, up
    <3>6. CASE m = n
      <4>1. CASE i + h < NoPairs
        <5>1. W(l, m, i) = V0[n][i + h]
          <6>1. CASE i < h
            BY <1>1, <3>5, <3>6, <6>1
          <6>2. CASE ~ (i < h)
            <7>1. i = h /\ Odd /\ l > 3 * h /\ i + h = 2 * h
              BY <1>1, <3>5, <4>1, <6>2
            <7> QED
              BY <3>6, <6>2, <7>1
          <6> QED
            BY <6>1, <6>2
        <5> HIDE DEF W
        <5> QED
          BY <3>1, <3>2, <3>3, <3>5, <3>6, <4>1, <5>1
      <4>2. CASE ~ (i + h < NoPairs)
        <5>1. W(l, m, i) = z
          BY <1>1, <3>5, <3>6, <4>2
        <5> HIDE DEF W
        <5> QED
          BY <1>3, <3>1, <3>3, <3>6, <4>2, <5>1
      <4> QED
        BY <4>1, <4>2
    <3>7. CASE m # n
      <4>1. W(l, m, i) = IF m = new /\ i < h THEN V0[n][i] ELSE V0[m][i]
        BY <1>1, <3>5, <3>7
      <4> HIDE DEF W
      <4> QED
        BY <3>1, <3>2, <3>4, <3>7, <4>1
    <3> QED
      BY <3>6, <3>7
  <2>2. \A m \in Addr : Q[m] = [i \in Slot |-> Q[m][i]]
    <3>1. lo = [i \in Slot |-> lo[i]]
      BY SameNode DEF N!lower_half
    <3>2. up = [i \in Slot |-> up[i]]
      BY SameNode DEF N!upper_half
    <3>3. \A m \in Addr : P[m] = [i \in Slot |-> P[m][i]]
      BY DEF PairsIn
    <3> HIDE DEF lo, up, P
    <3> QED
      BY <3>1, <3>2, <3>3
  <2>3. Q = [m \in Addr |-> Q[m]]
    OBVIOUS
  <2> HIDE DEF Q
  <2>4. PairsIn(V[l]) = [m \in Addr |-> [i \in Slot |-> Q[m][i]]]
    BY <2>1 DEF PairsIn
  <2>5. PairsIn(V[l]) = Q
    BY <2>2, <2>3, <2>4
  <2> QED
    BY <2>5 DEF Q
<1>14. td # <<>>
  BY <1>1, <1>2
<1> HIDE DEF W
<1> QED
  <2>1. SplitGoes(V, V0, n, new, k)
    BY <1>2, <1>8, <1>12, <1>13, <1>14 DEF td, SplitGoes
  <2> QED
    BY <2>1

LEMMA AtRest ==
  ASSUME Inv, Idle
  PROVE  /\ Then = [words |-> words, row |-> row, key |-> key, pos |-> pos]
         /\ words \in Memory /\ key \in Keys /\ IsRow(row)
         /\ Sorted(PairsOf(words), row)
         /\ View(words) \in Views /\ PairsOf(words) = PairsIn(View(words))
         /\ PairsOf(words) \in [Addr -> N!NodeOver(Nat)]
<1>1. Then = [words |-> words, row |-> row, key |-> key, pos |-> pos]
  BY DEF Then
<1>2. words \in Memory /\ key \in Keys /\ IsRow(row) /\ Sorted(PairsOf(words), row)
  BY <1>1 DEF Inv, Sound
<1>3. View(words) \in Views /\ PairsOf(words) = PairsIn(View(words))
  BY <1>2, PairsOfView DEF Memory
<1> QED
  BY <1>1, <1>2, <1>3, PairsAreNodes

(* A loop that begins finds the longs ws, those before it or those that an *)
(* allocation has left.                                                    *)
LEMMA Begins ==
  ASSUME Inv, NEW td, NEW ws, Begin(td, 0, ws), ws \in Memory, Sorted(PairsOf(ws), row),
         NEW V, Goes(V, td, key, HeldIn(View(ws), ToSet(row))),
         V[0] = View(ws), td # <<>>,
         Promise(PairsOf(ws), row, key, PairsIn(V[Len(td)]), row')
  PROVE  Inv' /\ Then' = [words |-> ws, row |-> row, key |-> key, pos |-> pos]
<1>1. /\ Idle /\ todo' = td /\ w' = 0 /\ pos' = 0 /\ words' = ws /\ key' = key
      /\ before' = [words |-> ws, row |-> row, key |-> key, pos |-> pos]
  BY DEF Begin
<1>2. /\ key \in Keys /\ IsRow(row)
      /\ View(ws) \in Views /\ PairsOf(ws) \in [Addr -> N!NodeOver(Nat)]
  <2>1. View(ws) \in Views
    BY DEF Memory
  <2> QED
    BY <1>1, <2>1, AtRest, PairsOfView, PairsAreNodes
<1>3. Then' = [words |-> ws, row |-> row, key |-> key, pos |-> pos]
  BY <1>1 DEF Then, Idle
<1>4. Sorted(PairsIn(V[Len(td)]), row') /\ IsRow(row')
  BY <1>2, PromiseSorted
<1>5. Held(ws, ToSet(row)) = HeldIn(View(ws), ToSet(row))
  BY <1>2, RowNodes, HeldOfView
<1>6. Partly(View(ws), V[0], V[1], td[1], 0)
  <2>1. \A j \in Part : ~ (j < 0)
    BY Positions DEF Part
  <2> QED
    BY <2>1 DEF Partly
<1>7. Moving'
  <2>1. /\ todo' # <<>> /\ key' = before'.key
        /\ Goes(V, todo', key', Held(before'.words, ToSet(before'.row)))
        /\ Partly(View(words'), V[0], V[1], todo'[1], w')
        /\ Promise(PairsOf(before'.words), before'.row, before'.key, PairsIn(V[Len(todo')]), row')
        /\ Sorted(PairsIn(V[Len(todo')]), row')
    BY <1>1, <1>4, <1>5, <1>6
  <2> QED
    BY <2>1 DEF Moving
<1>8. Sound(Then)'
  BY <1>2, <1>3 DEF Sound
<1>9. 0 \in Part
  BY Positions DEF Part
<1> QED
  BY <1>1, <1>2, <1>3, <1>4, <1>7, <1>8, <1>9 DEF Inv

LEMMA Starts ==
  ASSUME Inv, NEW td, Start(td), NEW V, Goes(V, td, key, HeldIn(View(words), ToSet(row))),
         V[0] = View(words), td # <<>>,
         Promise(PairsOf(words), row, key, PairsIn(V[Len(td)]), row')
  PROVE  Inv' /\ Then' = Then
<1>1. Begin(td, 0, words) /\ Idle
  BY DEF Start, Begin
<1>2. /\ Then = [words |-> words, row |-> row, key |-> key, pos |-> pos]
      /\ words \in Memory /\ Sorted(PairsOf(words), row)
  BY <1>1, AtRest
<1> QED
  BY <1>1, <1>2, Begins

LEMMA insertBegins ==
  ASSUME Inv, NEW n \in Addr, insert(n)
  PROVE  Inv' /\ Then' = Then
<1> DEFINE p == getpos(n)
           fill == getfill(n, p)
           P == PairsOf(words)
           td == insert_moves(n, p, fill, ValueOf[key])
<1>1. /\ key \in ClientKeys /\ fill < NoPairs
      /\ \E i \in 1 .. Len(row) : row[i] = n /\ Belongs(key, i)
      /\ ~ (p < fill /\ keycmp(n, p, key) = 0)
      /\ Start(td) /\ row' = row
  BY DEF insert
<1>2. Idle
  BY <1>1 DEF Start, Begin
<1>3. /\ words \in Memory /\ key \in Keys /\ IsRow(row) /\ Sorted(P, row)
      /\ View(words) \in Views /\ P = PairsIn(View(words))
      /\ P \in [Addr -> N!NodeOver(Nat)]
  BY <1>2, AtRest
<1>4. PICK x \in 1 .. Len(row) : row[x] = n /\ Belongs(key, x)
  BY <1>1
<1>5. N!Ordered(P[n])
  BY <1>3, <1>4 DEF Sorted
<1>6. p = N!getpos(P[n], Number(key)) /\ p \in 0 .. NoPairs
  BY <1>3, <1>5, SameSearch, FillFrom
<1>7. p \in Nat
  BY <1>6, SlotsOfNode
<1>8. /\ fill = N!getfill(P[n], p) /\ fill \in p .. NoPairs
      /\ \A j \in Slot : p <= j => (j < fill <=> P[n][j].v # NULL)
  BY <1>3, <1>5, <1>6, <1>7, SameSearch, FillFrom
<1>9. /\ \A i \in Slot : /\ keycmp(n, i, key) = 0 <=> P[n][i].k = Number(key)
                         /\ bval(n, i) = P[n][i].v
  BY <1>3, SameSearch
<1> HIDE DEF p, fill, P
<1>10. p \in Slot /\ fill \in Slot /\ p <= fill /\ ~ (fill < fill)
  BY <1>1, <1>6, <1>8, SlotsOfNode
<1>11. ValueOf[key] \in Nat /\ ValueOf[key] # NULL /\ Number(key) # 0
  BY <1>1, ClientKeyNumber
<1>12. P[n][fill].v = NULL
  BY <1>8, <1>10
<1>13. P[n][p].k # Number(key)
  <2>1. CASE p < fill
    BY <1>1, <1>9, <1>10, <2>1
  <2>2. CASE ~ (p < fill)
    <3>1. p = fill
      BY <1>7, <1>8, <1>10, <2>2
    <3>2. P[n][p].k = 0
      BY <1>5, <1>10, <1>12, <3>1, SameNode DEF N!Ordered
    <3> QED
      BY <1>11, <3>2
  <2> QED
    BY <2>1, <2>2
<1>14. View(words)[n][fill][KeyLen] = NULL
  BY <1>3, <1>10, <1>12 DEF PairsIn, PairOf
<1>15. ToSet(row) \subseteq Addr
  BY <1>3, RowNodes
<1> DEFINE V0 == View(words)
           S == ToSet(row)
           v == ValueOf[key]
           after == [P EXCEPT ![n] = N!insert_pair(P[n], p, fill, Number(key), v)]
<1>16. PICK V : /\ Goes(V, td, key, HeldIn(V0, S)) /\ V[0] = V0 /\ td # <<>>
                /\ PairsIn(V[Len(td)]) = after
  <2>1. /\ V0 \in Views /\ key \in Keys /\ v \in Nat /\ S \subseteq Addr /\ P = PairsIn(V0)
        /\ V0[n][fill][KeyLen] = NULL
    BY <1>3, <1>11, <1>14, <1>15
  <2> HIDE DEF V0, S, v
  <2>2. \E V : /\ Goes(V, td, key, HeldIn(V0, S)) /\ V[0] = V0 /\ td # <<>>
               /\ PairsIn(V[Len(td)]) = [PairsIn(V0) EXCEPT
                    ![n] = N!insert_pair(PairsIn(V0)[n], p, fill, Number(key), v)]
    BY <1>10, <2>1, InsertChain DEF v
  <2>3. [PairsIn(V0) EXCEPT ![n] = N!insert_pair(PairsIn(V0)[n], p, fill, Number(key), v)] = after
    BY <2>1
  <2> HIDE DEF after, td
  <2> QED
    BY <2>2, <2>3
<1>17. \A y \in 1 .. Len(row), i \in Slot : P[row[y]][i].v # NULL =>
         (y < x => P[row[y]][i].k > Number(key)) /\ (y > x => P[row[y]][i].k < Number(key))
  <2> SUFFICES ASSUME NEW y \in 1 .. Len(row), NEW i \in Slot, P[row[y]][i].v # NULL
               PROVE  /\ y < x => P[row[y]][i].k > Number(key)
                      /\ y > x => P[row[y]][i].k < Number(key)
    OBVIOUS
  <2> DEFINE a == row[y]
             q == bkey(a, i)
  <2>1. a \in Addr
    BY <1>3, RowNodes
  <2>2. View(words)[a][i] \in Vector
    BY <1>3, <2>1, Slots
  <2>3. q = KeyOf(View(words)[a][i]) /\ bval(a, i) = View(words)[a][i][KeyLen]
    BY <2>1, PairsOfView DEF bkey, bval
  <2>4. q \in Keys /\ P[a][i].k = Number(q) /\ P[a][i].v = bval(a, i)
    BY <1>3, <2>1, <2>2, <2>3, KeyOfVector DEF PairsIn, PairOf
  <2>5. q \in KeysIn(a)
    BY <2>4 DEF KeysIn
  <2>6. (y < x => longcmp(q, key) > 0) /\ (y > x => longcmp(q, key) < 0)
    BY <1>4, <2>5 DEF Belongs
  <2>7. /\ longcmp(q, key) \in {-1, 0, 1}
        /\ longcmp(q, key) < 0 <=> Number(q) < Number(key)
        /\ longcmp(q, key) = 0 <=> Number(q) = Number(key)
    BY <1>3, <2>4, LongcmpOrders
  <2>8. Number(q) \in Nat /\ Number(key) \in Nat
    BY <1>3, <2>4, NumberInNat
  <2> HIDE DEF q, a
  <2>9. longcmp(q, key) > 0 => Number(q) > Number(key)
    BY <2>7, <2>8
  <2>10. (y < x => Number(q) > Number(key)) /\ (y > x => Number(q) < Number(key))
    BY <2>6, <2>7, <2>9
  <2> QED
    BY <2>4, <2>10 DEF a
<1>18. Inserted(P, row, key, PairsIn(V[Len(td)]), row')
  <2> DEFINE Q == PairsIn(V[Len(td)])
  <2>1. Q = [P EXCEPT ![n] = N!insert_pair(P[n], p, fill, Number(key), ValueOf[key])]
    BY <1>16
  <2> HIDE DEF Q
  <2> QED
    BY <1>1, <1>4, <1>6, <1>8, <1>13, <1>17, <2>1 DEF Inserted, Q
<1>19. Promise(P, row, key, PairsIn(V[Len(td)]), row')
  BY <1>18 DEF Promise
<1> HIDE DEF td
<1> QED
  BY <1>1, <1>16, <1>19, Starts DEF P

LEMMA removeBegins ==
  ASSUME Inv, NEW n \in Used, remove(n)
  PROVE  Inv' /\ Then' = Then
<1> DEFINE p == getpos(n)
           fill == getfill(n, p)
           P == PairsOf(words)
           td == remove_moves(n, p, fill)
<1>1. /\ key \in ClientKeys /\ p \in Slot /\ keycmp(n, p, key) = 0
      /\ Start(td) /\ row' = row
  BY DEF remove
<1>2. Idle
  BY <1>1 DEF Start, Begin
<1>3. /\ words \in Memory /\ key \in Keys /\ IsRow(row) /\ Sorted(P, row)
      /\ View(words) \in Views /\ P = PairsIn(View(words))
      /\ P \in [Addr -> N!NodeOver(Nat)]
  BY <1>2, AtRest
<1>4. PICK x \in 1 .. Len(row) : row[x] = n
  BY <1>3, RowNodes DEF Used
<1>5. n \in Addr /\ N!Ordered(P[n])
  BY <1>3, <1>4, RowNodes DEF Sorted
<1>6. p = N!getpos(P[n], Number(key))
  BY <1>3, <1>5, SameSearch
<1>7. p \in Nat /\ p < NoPairs
  BY <1>1, SlotsOfNode
<1>8. /\ fill = N!getfill(P[n], p) /\ fill \in p .. NoPairs
      /\ \A j \in Slot : p <= j => (j < fill <=> P[n][j].v # NULL)
  BY <1>3, <1>5, <1>6, <1>7, SameSearch, FillFrom
<1>9. P[n][p].k = Number(key)
  BY <1>1, <1>3, <1>5, SameSearch
<1> HIDE DEF p, fill, P
<1>10. Number(key) # 0
  BY <1>1, ClientKeyNumber
<1>11. P[n][p].v # NULL
  BY <1>1, <1>5, <1>9, <1>10, SameNode DEF N!Ordered
<1>12. p <= p /\ p < fill
  BY <1>1, <1>7, <1>8, <1>11
<1>13. fill \in 1 .. NoPairs
  BY <1>7, <1>8, <1>12, SlotsOfNode
<1>14. PairOf(View(words)[n][p]).k = Number(key)
  BY <1>1, <1>3, <1>5, <1>9 DEF PairsIn
<1>15. ToSet(row) \subseteq Addr
  BY <1>3, RowNodes
<1> DEFINE V0 == View(words)
           S == ToSet(row)
           after == [P EXCEPT ![n] = N!remove_pair(P[n], p, fill)]
<1>16. PICK V : /\ Goes(V, td, key, HeldIn(V0, S)) /\ V[0] = V0 /\ td # <<>>
                /\ PairsIn(V[Len(td)]) = after
  <2>1. /\ V0 \in Views /\ key \in Keys /\ S \subseteq Addr /\ P = PairsIn(V0)
        /\ PairOf(V0[n][p]).k = Number(key)
    BY <1>3, <1>14, <1>15
  <2> HIDE DEF V0, S
  <2>2. \E V : /\ Goes(V, td, key, HeldIn(V0, S)) /\ V[0] = V0 /\ td # <<>>
               /\ PairsIn(V[Len(td)]) = [PairsIn(V0) EXCEPT
                    ![n] = N!remove_pair(PairsIn(V0)[n], p, fill)]
    BY <1>1, <1>5, <1>12, <1>13, <2>1, RemoveChain
  <2>3. [PairsIn(V0) EXCEPT ![n] = N!remove_pair(PairsIn(V0)[n], p, fill)] = after
    BY <2>1
  <2> HIDE DEF after, td
  <2> QED
    BY <2>2, <2>3
<1>17. Removed(P, row, key, PairsIn(V[Len(td)]), row')
  <2> DEFINE Q == PairsIn(V[Len(td)])
  <2>1. Q = [P EXCEPT ![n] = N!remove_pair(P[n], p, fill)]
    BY <1>16
  <2> HIDE DEF Q
  <2> QED
    BY <1>1, <1>4, <1>6, <1>8, <1>9, <2>1 DEF Removed, Q
<1>18. Promise(P, row, key, PairsIn(V[Len(td)]), row')
  BY <1>17 DEF Promise
<1> HIDE DEF td
<1> QED
  BY <1>1, <1>16, <1>18, Starts DEF P

LEMMA mergeBegins ==
  ASSUME Inv, NEW a \in Used, NEW b \in Used, merge(a, b)
  PROVE  Inv' /\ Then' = Then
<1> DEFINE P == PairsOf(words)
           x == getfill(a, 0)
           y == getfill(b, 0)
           td == merge_moves(a, x, b, y)
<1>1. /\ row = <<a, b>> /\ y > 0 /\ x + y <= NoPairs
      /\ Start(td) /\ row' = <<a>>
  BY DEF merge
<1>2. Idle
  BY <1>1 DEF Start, Begin
<1>3. /\ words \in Memory /\ key \in Keys /\ IsRow(row) /\ Sorted(P, row)
      /\ View(words) \in Views /\ P = PairsIn(View(words))
      /\ P \in [Addr -> N!NodeOver(Nat)]
  BY <1>2, AtRest
<1>4. a \in Addr /\ b \in Addr /\ a # b /\ N!Ordered(P[a]) /\ N!Ordered(P[b])
  <2>1. Len(row) = 2 /\ row[1] = a /\ row[2] = b
    BY <1>1
  <2> QED
    BY <1>3, <2>1, RowNodes DEF Sorted
<1>5. x = N!getfill(P[a], 0) /\ y = N!getfill(P[b], 0)
  BY <1>3, <1>4, SameSearch
<1>6. /\ x \in 0 .. NoPairs /\ y \in 0 .. NoPairs
      /\ \A i \in Slot : i < x <=> P[a][i].v # NULL
  BY <1>3, <1>4, <1>5, FillOf
<1> HIDE DEF P, x, y
<1>7. \A i \in Slot : i >= x => P[a][i].v = NULL
  BY <1>6, SlotsOfNode
<1>8. \A i \in Slot : i >= x => View(words)[a][i][KeyLen] = NULL
  BY <1>3, <1>4, <1>7 DEF PairsIn, PairOf
<1>9. ToSet(row) \subseteq Addr /\ y \in 1 .. NoPairs
  BY <1>1, <1>3, <1>6, SlotsOfNode, RowNodes
<1> DEFINE V0 == View(words)
           S == ToSet(row)
           after == [P EXCEPT ![a] = N!append_pairs(P[a], x, P[b], y)]
<1>10. PICK V : /\ Goes(V, td, key, HeldIn(V0, S)) /\ V[0] = V0 /\ td # <<>>
                /\ PairsIn(V[Len(td)]) = after
  <2>1. /\ V0 \in Views /\ key \in Keys /\ S \subseteq Addr /\ P = PairsIn(V0)
        /\ \A i \in Slot : i >= x => V0[a][i][KeyLen] = NULL
    BY <1>3, <1>8, <1>9
  <2> HIDE DEF V0, S
  <2>2. \E V : /\ Goes(V, td, key, HeldIn(V0, S)) /\ V[0] = V0 /\ td # <<>>
               /\ PairsIn(V[Len(td)]) = [PairsIn(V0) EXCEPT
                    ![a] = N!append_pairs(PairsIn(V0)[a], x, PairsIn(V0)[b], y)]
    BY <1>1, <1>4, <1>6, <1>9, <2>1, MergeChain
  <2>3. [PairsIn(V0) EXCEPT ![a] = N!append_pairs(PairsIn(V0)[a], x, PairsIn(V0)[b], y)] = after
    BY <2>1
  <2> HIDE DEF after, td
  <2> QED
    BY <2>2, <2>3
<1>11. Merged(P, row, PairsIn(V[Len(td)]), row')
  <2> DEFINE Q == PairsIn(V[Len(td)])
  <2>1. Q = [P EXCEPT ![a] = N!append_pairs(P[a], x, P[b], y)]
    BY <1>10
  <2> HIDE DEF Q
  <2> QED
    BY <1>1, <1>4, <1>5, <2>1 DEF Merged, Q
<1>12. Promise(P, row, key, PairsIn(V[Len(td)]), row')
  BY <1>11 DEF Promise
<1> HIDE DEF td
<1> QED
  BY <1>1, <1>10, <1>12, Starts DEF P

LEMMA decBegins ==
  ASSUME Inv, dec_key
  PROVE  Inv' /\ Then' = Then
<1>1. /\ Idle /\ todo' = <<[op |-> "dec"]>> /\ w' = KeyLen - 1 /\ pos' = 0
      /\ words' = words /\ key' = key /\ row' = row
      /\ before' = [words |-> words, row |-> row, key |-> key, pos |-> pos]
  BY DEF dec_key, Begin
<1>2. /\ Then = [words |-> words, row |-> row, key |-> key, pos |-> pos]
      /\ words \in Memory /\ key \in Keys /\ IsRow(row)
  BY <1>1, AtRest
<1>3. Then' = Then
  BY <1>1, <1>2 DEF Then, Idle
<1>4. KeyLen - 1 \in KeyWord /\ KeyLen - 1 \in Part /\ \A j \in KeyWord : ~ (j > KeyLen - 1)
  BY GeometryAssumption DEF KeyWord, Part
<1>5. Decrementing'
  BY <1>1, <1>4 DEF Decrementing
<1>6. Sound(Then)'
  <2>1. Sound(Then)
    BY DEF Inv
  <2> QED
    BY <1>3, <2>1 DEF Sound
<1> QED
  BY <1>1, <1>2, <1>3, <1>4, <1>5, <1>6 DEF Inv

(* The steps that leave every node in use as it is.                        *)
LEMMA RestsOn ==
  ASSUME Inv, Idle, words' \in Memory, key' \in Keys, row' = row, todo' = todo, w' = w,
         \A n \in Used : PairsOf(words')[n] = PairsOf(words)[n]
  PROVE  Inv'
<1>1. IsRow(row) /\ Sorted(PairsOf(words), row) /\ w \in Part
  BY AtRest DEF Inv
<1>2. Idle'
  BY DEF Idle
<1>3. Then' = [words |-> words', row |-> row', key |-> key', pos |-> pos']
  BY <1>2 DEF Then
<1>4. Sorted(PairsOf(words'), row)
  <2> DEFINE P == PairsOf(words)
             Q == PairsOf(words')
  <2>1. \A x \in 1 .. Len(row) : Q[row[x]] = P[row[x]]
    BY <1>1, RowNodes DEF Used
  <2> HIDE DEF P, Q
  <2>2. Sorted(P, row)
    BY <1>1 DEF P
  <2>3. Sorted(Q, row)
    <3>1. \A x \in 1 .. Len(row) : N!Ordered(Q[row[x]])
      BY <2>1, <2>2 DEF Sorted
    <3>2. Len(row) = 2 => Q[row[1]] = P[row[1]] /\ Q[row[2]] = P[row[2]]
      BY <2>1
    <3> QED
      BY <2>2, <3>1, <3>2 DEF Sorted
  <2> QED
    BY <2>3 DEF Q
<1>5. Sound(Then)'
  BY <1>1, <1>3, <1>4 DEF Sound
<1> QED
  BY <1>1, <1>2, <1>5 DEF Inv

LEMMA set_keyRests ==
  ASSUME Inv, set_key
  PROVE  Inv'
<1>1. Idle /\ key' \in Keys /\ UNCHANGED <<words, row, todo, w>>
  BY ClientKeyNumber DEF set_key
<1> QED
  BY <1>1, AtRest, RestsOn

LEMMA searchRests ==
  ASSUME Inv, NEW n, search(n)
  PROVE  Inv'
<1>1. Idle /\ UNCHANGED <<key, words, row, todo, w>>
  BY DEF search
<1> QED
  BY <1>1, AtRest, RestsOn

(* When the cache's words are apart from the pairs of other nodes, an      *)
(* allocation changes no slot but those of its node.                       *)
LEMMA AllocatedLongs ==
  ASSUME Apart, NEW ws \in [Addr -> [Geo!InNode -> Nat]], NEW n \in Addr,
         NEW queued \in BOOLEAN
  PROVE  LET wn == cbtree_node_alloc(ws, n, queued)
         IN /\ wn \in [Addr -> [Geo!InNode -> Nat]]
            /\ \A m \in Addr, i \in Slot, j \in Part :
                 wn[m][Place(i, j)] = IF m = n THEN 0 ELSE ws[m][Place(i, j)]
<1> DEFINE cleared == [ws EXCEPT ![n] = [j \in Geo!InNode |-> 0]]
           wn == cbtree_node_alloc(ws, n, queued)
<1>1. /\ cleared \in [Addr -> [Geo!InNode -> Nat]]
      /\ \A m \in Addr, q \in Geo!InNode : cleared[m][q] = IF m = n THEN 0 ELSE ws[m][q]
  OBVIOUS
<1>2. \A i \in Slot, j \in Part : Place(i, j) \in Geo!InNode /\ Place(i, j) # Geo!arr_len
  BY PlacesApart, PlacesBefore
<1>3. \/ wn = cleared
      \/ Inside /\ wn = [cleared EXCEPT ![n][Geo!arr_len] = Queue]
  BY DEF cbtree_node_alloc, Apart
<1> HIDE DEF cleared, wn
<1>4. CASE wn = cleared
  BY <1>1, <1>2, <1>4 DEF wn
<1>5. CASE Inside /\ wn = [cleared EXCEPT ![n][Geo!arr_len] = Queue]
  <2>1. Geo!arr_len \in Geo!InNode /\ Queue \in Nat
    BY <1>5, QueueAssumption DEF Inside
  <2>2. /\ wn \in [Addr -> [Geo!InNode -> Nat]]
        /\ \A m \in Addr, q \in Geo!InNode : q # Geo!arr_len => wn[m][q] = cleared[m][q]
    BY <1>1, <1>5, <2>1
  <2> QED
    BY <1>1, <1>2, <2>2 DEF wn
<1> QED
  BY <1>3, <1>4, <1>5

(* It empties those, and what is stored behind them is no pair.            *)
LEMMA AllocatedNode ==
  ASSUME Apart, NEW ws \in [Addr -> [Geo!InNode -> Nat]], NEW n \in Addr,
         NEW queued \in BOOLEAN, \A m \in Addr \ {n}, i \in Slot : View(ws)[m][i] \in Vector
  PROVE  LET wn == cbtree_node_alloc(ws, n, queued)
         IN wn \in Memory /\ PairsOf(wn) = [PairsOf(ws) EXCEPT ![n] = N!EmptyNode]
<1> DEFINE wn == cbtree_node_alloc(ws, n, queued)
           z == [j \in Part |-> 0]
<1>1. /\ wn \in [Addr -> [Geo!InNode -> Nat]]
      /\ \A m \in Addr, i \in Slot, j \in Part :
           wn[m][Place(i, j)] = IF m = n THEN 0 ELSE ws[m][Place(i, j)]
  BY AllocatedLongs
<1> HIDE DEF wn
<1>2. \A m \in Addr, i \in Slot : View(wn)[m][i] = IF m = n THEN z ELSE View(ws)[m][i]
  <2> TAKE m \in Addr, i \in Slot
  <2>1. View(wn)[m][i] = [j \in Part |-> wn[m][Place(i, j)]]
    BY DEF View
  <2>2. View(ws)[m][i] = [j \in Part |-> ws[m][Place(i, j)]]
    BY DEF View
  <2>3. CASE m = n
    BY <1>1, <2>1, <2>3
  <2>4. CASE m # n
    BY <1>1, <2>1, <2>2, <2>4
  <2> QED
    BY <2>3, <2>4
<1>3. z \in Vector /\ PairOf(z) = N!Empty
  BY Cleared
<1> HIDE DEF z
<1>4. \A m \in Addr, i \in Slot : View(wn)[m][i] \in Vector
  BY <1>2, <1>3
<1>5. View(wn) \in Views
  <2>1. View(wn) = [m \in Addr |-> [i \in Slot |-> View(wn)[m][i]]]
    BY DEF View
  <2> QED
    BY <1>4, <2>1 DEF Views
<1>6. PairsOf(wn) = PairsIn(View(wn)) /\ PairsOf(ws) = PairsIn(View(ws))
  BY PairsOfView
<1>7. PairsIn(View(wn)) = [PairsIn(View(ws)) EXCEPT ![n] = N!EmptyNode]
  <2> DEFINE P == PairsIn(View(ws))
             Q == PairsIn(View(wn))
  <2>1. /\ P = [m \in Addr |-> [i \in Slot |-> PairOf(View(ws)[m][i])]]
        /\ Q = [m \in Addr |-> [i \in Slot |-> PairOf(View(wn)[m][i])]]
    BY DEF PairsIn
  <2>2. N!EmptyNode = [i \in Slot |-> N!Empty]
    BY SameNode DEF N!EmptyNode
  <2> HIDE DEF P, Q
  <2>3. \A m \in Addr : Q[m] = IF m = n THEN N!EmptyNode ELSE P[m]
    BY <1>2, <1>3, <2>1, <2>2
  <2>4. Q = [m \in Addr |-> Q[m]] /\ P = [m \in Addr |-> P[m]]
    BY <2>1
  <2>5. Q = [P EXCEPT ![n] = N!EmptyNode]
    BY <2>3, <2>4
  <2> QED
    BY <2>5 DEF P, Q
<1> QED
  BY <1>1, <1>5, <1>6, <1>7 DEF Memory, wn

(* A split's allocation, while no loop runs.                               *)
LEMMA SplitAllocates ==
  ASSUME Apart, Inv, Idle, NEW n \in Addr \ Used, NEW queued \in BOOLEAN
  PROVE  LET wn == cbtree_node_alloc(words, n, queued)
         IN /\ wn \in Memory /\ Sorted(PairsOf(wn), row)
            /\ PairsOf(wn) = [PairsOf(words) EXCEPT ![n] = N!EmptyNode]
            /\ \A m \in Used : PairsOf(wn)[m] = PairsOf(words)[m]
<1> DEFINE wn == cbtree_node_alloc(words, n, queued)
           P == PairsOf(words)
           Q == PairsOf(wn)
<1>1. /\ words \in [Addr -> [Geo!InNode -> Nat]] /\ View(words) \in Views
      /\ IsRow(row) /\ Sorted(P, row) /\ P \in [Addr -> N!NodeOver(Nat)]
  BY AtRest DEF Memory
<1>2. wn \in Memory /\ Q = [P EXCEPT ![n] = N!EmptyNode]
  <2>1. \A m \in Addr \ {n}, i \in Slot : View(words)[m][i] \in Vector
    BY <1>1, Slots
  <2> QED
    BY <1>1, <2>1, AllocatedNode
<1>3. Used \subseteq Addr /\ \A x \in 1 .. Len(row) : row[x] \in Used
  BY <1>1, RowNodes DEF Used
<1> HIDE DEF P, Q
<1>4. \A m \in Used : Q[m] = P[m]
  BY <1>1, <1>2, <1>3
<1>5. Sorted(Q, row)
  <2>1. \A x \in 1 .. Len(row) : Q[row[x]] = P[row[x]]
    BY <1>3, <1>4
  <2>2. \A x \in 1 .. Len(row) : N!Ordered(Q[row[x]])
    BY <1>1, <2>1 DEF Sorted
  <2>3. Len(row) = 2 => Q[row[1]] = P[row[1]] /\ Q[row[2]] = P[row[2]]
    BY <2>1
  <2> QED
    BY <1>1, <2>2, <2>3 DEF Sorted
<1> QED
  BY <1>2, <1>4, <1>5 DEF P, Q

LEMMA splitBegins ==
  ASSUME Apart, Inv, NEW n \in Used, NEW new \in Addr \ Used, NEW queued \in BOOLEAN,
         split(n, new, queued)
  PROVE  /\ Inv'
         /\ Then' = [words |-> cbtree_node_alloc(words, new, queued),
                     row |-> row, key |-> key, pos |-> pos]
<1> DEFINE ws == cbtree_node_alloc(words, new, queued)
           P == PairsOf(ws)
           td == split_moves(n, new, NoPairs)
<1>1. /\ row = <<n>> /\ getfill(n, 0) = NoPairs
      /\ Begin(td, 0, ws) /\ row' = <<new, n>>
  BY DEF split
<1>2. Idle
  BY <1>1 DEF Begin
<1>3. words \in Memory /\ key \in Keys /\ IsRow(row) /\ Sorted(PairsOf(words), row)
  BY <1>2, AtRest
<1>4. n \in Addr /\ n # new /\ ToSet(row) = {n}
  <2>1. Len(row) = 1 /\ row[1] = n
    BY <1>1
  <2> QED
    BY <1>3, <2>1, RowNodes DEF Used
<1>5. /\ ws \in Memory /\ Sorted(P, row) /\ P[n] = PairsOf(words)[n]
      /\ P = [PairsOf(words) EXCEPT ![new] = N!EmptyNode]
  BY <1>2, SplitAllocates
<1>6. P[new] = N!EmptyNode
  <2>1. DOMAIN PairsOf(words) = Addr
    BY DEF PairsOf
  <2> HIDE DEF P
  <2> QED
    BY <1>5, <2>1
<1>7. N!getfill(P[n], 0) = NoPairs
  BY <1>1, <1>3, <1>4, <1>5, SameSearch
<1>8. View(ws) \in Views /\ P = PairsIn(View(ws))
  BY <1>5, PairsOfView DEF Memory
<1> HIDE DEF P, ws
<1> DEFINE V0 == View(ws)
           after == [a \in Addr |-> IF a = n THEN N!lower_half(P[n])
                                    ELSE IF a = new THEN N!upper_half(P[n], P[new]) ELSE P[a]]
<1>9. PICK V : /\ Goes(V, td, key, HeldIn(V0, ToSet(row))) /\ V[0] = V0 /\ td # <<>>
               /\ PairsIn(V[Len(td)]) = after
  <2>1. V0 \in Views /\ key \in Keys /\ P = PairsIn(V0)
    BY <1>3, <1>8
  <2>2. n \in Addr /\ new \in Addr /\ n # new
    BY <1>4
  <2> HIDE DEF V0, after, td
  <2>3. PICK V : SplitGoes(V, V0, n, new, key)
    BY <2>1, <2>2, SplitChain
  <2>4. /\ Goes(V, td, key, HeldIn(V0, ToSet(row))) /\ V[0] = V0 /\ td # <<>>
        /\ PairsIn(V[Len(td)]) = after
    BY <1>4, <2>1, <2>3 DEF SplitGoes, td, after
  <2> QED
    BY <2>4
<1>10. Split(P, row, PairsIn(V[Len(td)]), row')
  <2> DEFINE Q == PairsIn(V[Len(td)])
  <2>1. Q = after
    BY <1>9
  <2> HIDE DEF Q
  <2> QED
    BY <1>1, <1>4, <1>6, <1>7, <2>1 DEF Split, Q
<1>11. Promise(P, row, key, PairsIn(V[Len(td)]), row')
  BY <1>10 DEF Promise
<1> HIDE DEF td
<1>12. Inv' /\ Then' = [words |-> ws, row |-> row, key |-> key, pos |-> pos]
  BY <1>1, <1>5, <1>9, <1>11, Begins DEF P
<1> QED
  BY <1>12 DEF ws

LEMMA split_failsRests ==
  ASSUME Apart, Inv, NEW n, NEW new \in Addr \ Used, NEW queued \in BOOLEAN,
         split_fails(n, new, queued)
  PROVE  Inv'
<1>1. /\ Idle /\ UNCHANGED <<key, row, todo, w>>
      /\ words' = cbtree_node_alloc(words, new, queued)
  BY DEF split_fails
<1>2. words' \in Memory /\ \A m \in Used : PairsOf(words')[m] = PairsOf(words)[m]
  BY <1>1, SplitAllocates
<1> QED
  BY <1>1, <1>2, AtRest, RestsOn

(* The first node of a tree is empty.                                      *)
LEMMA InitNode ==
  ASSUME Apart, Init
  PROVE  /\ words \in Memory
         /\ \E n \in Addr : row = <<n>>
         /\ PairsOf(words) = [n \in Addr |-> N!EmptyNode]
<1> DEFINE zero == [m \in Addr |-> [j \in Geo!InNode |-> 0]]
           z == [j \in Part |-> 0]
<1>1. PICK n \in Addr, queued \in BOOLEAN :
        words = cbtree_node_alloc(zero, n, queued) /\ row = <<n>>
  BY DEF Init
<1>2. zero \in [Addr -> [Geo!InNode -> Nat]]
  OBVIOUS
<1>3. z \in Vector /\ PairOf(z) = N!Empty
  BY Cleared
<1>4. \A m \in Addr, i \in Slot : View(zero)[m][i] = z
  <2> TAKE m \in Addr, i \in Slot
  <2>1. \A j \in Part : zero[m][Place(i, j)] = 0
    BY PlacesApart
  <2>2. View(zero)[m][i] = [j \in Part |-> zero[m][Place(i, j)]]
    BY DEF View
  <2> HIDE DEF zero
  <2> QED
    BY <2>1, <2>2
<1> HIDE DEF zero, z
<1>5. words \in Memory /\ PairsOf(words) = [PairsOf(zero) EXCEPT ![n] = N!EmptyNode]
  BY <1>1, <1>2, <1>3, <1>4, AllocatedNode
<1>6. PairsOf(zero) = [m \in Addr |-> N!EmptyNode]
  <2>1. PairsOf(zero) = [m \in Addr |-> [i \in Slot |-> PairOf(View(zero)[m][i])]]
    BY PairsOfView DEF PairsIn
  <2>2. N!EmptyNode = [i \in Slot |-> N!Empty]
    BY SameNode DEF N!EmptyNode
  <2> QED
    BY <1>3, <1>4, <2>1, <2>2
<1> QED
  BY <1>1, <1>5, <1>6

LEMMA InitInv ==
  ASSUME Apart, Init
  PROVE  Inv
<1>1. key \in Keys /\ pos = 0 /\ Idle /\ w = 0
  BY ClientKeyNumber DEF Init, Idle
<1>2. PICK a \in Addr : row = <<a>>
  BY InitNode
<1>3. words \in Memory /\ PairsOf(words) = [n \in Addr |-> N!EmptyNode]
  BY InitNode
<1>4. N!Ordered(N!EmptyNode)
  BY SameNode DEF N!Ordered, N!EmptyNode, N!Empty
<1>5. IsRow(row) /\ Len(row) = 1 /\ row[1] = a
  BY <1>2 DEF IsRow
<1>6. Sorted(PairsOf(words), row)
  <2> DEFINE P == PairsOf(words)
  <2>1. \A x \in 1 .. Len(row) : P[row[x]] = N!EmptyNode
    BY <1>3, <1>5
  <2> HIDE DEF P
  <2>2. Sorted(P, row)
    BY <1>4, <1>5, <2>1 DEF Sorted
  <2> QED
    BY <2>2 DEF P
<1>7. Then = [words |-> words, row |-> row, key |-> key, pos |-> pos]
  BY <1>1 DEF Then
<1>8. Sound(Then)
  BY <1>1, <1>3, <1>5, <1>6, <1>7 DEF Sound
<1>9. 0 \in Part
  BY Positions DEF Part
<1> QED
  BY <1>1, <1>3, <1>5, <1>8, <1>9 DEF Inv

-----------------------------------------------------------------------------
(* The invariant holds                                                     *)

LEMMA NextInv ==
  ASSUME Apart, Inv, [Next]_vars
  PROVE  Inv'
<1>1. CASE set_key
  BY <1>1, set_keyRests
<1>2. CASE dec_key
  BY <1>2, decBegins
<1>3. ASSUME NEW n \in Used, search(n)
      PROVE  Inv'
  BY <1>3, searchRests
<1>4. ASSUME NEW n \in Used, remove(n)
      PROVE  Inv'
  BY <1>4, removeBegins
<1>5. ASSUME NEW n \in Used, insert(n)
      PROVE  Inv'
  <2>1. n \in Addr
    BY RowNodes DEF Inv, Used
  <2> QED
    BY <1>5, <2>1, insertBegins
<1>6. ASSUME NEW n \in Used, NEW m \in Addr \ Used, NEW queued \in BOOLEAN, split(n, m, queued)
      PROVE  Inv'
  BY <1>6, splitBegins
<1>7. ASSUME NEW n \in Used, NEW m \in Used, merge(n, m)
      PROVE  Inv'
  BY <1>7, mergeBegins
<1>8. ASSUME NEW n \in Used, NEW m \in Addr \ Used, NEW queued \in BOOLEAN,
             split_fails(n, m, queued)
      PROVE  Inv'
  BY <1>8, split_failsRests
<1>9. CASE longcpy
  BY <1>9, longcpyWrites
<1>10. CASE setval
  BY <1>10, setvalWrites
<1>11. CASE dec_word
  BY <1>11, dec_wordWrites
<1>12. CASE UNCHANGED vars
  <2>1. /\ words' = words /\ row' = row /\ key' = key /\ pos' = pos
        /\ todo' = todo /\ w' = w /\ before' = before
    BY <1>12 DEF vars
  <2>2. Then' = Then /\ (Idle' <=> Idle)
    BY <2>1 DEF Then, Idle
  <2>3. Sound(Then)' <=> Sound(Then)
    BY <2>2 DEF Sound
  <2>4. Moving' <=> Moving
    BY <2>1 DEF Moving
  <2>5. Decrementing' <=> Decrementing
    BY <2>1 DEF Decrementing
  <2> QED
    BY <2>1, <2>2, <2>3, <2>4, <2>5 DEF Inv
<1> QED
  BY <1>1, <1>2, <1>3, <1>4, <1>5, <1>6, <1>7, <1>8, <1>9, <1>10, <1>11, <1>12 DEF Next, Caller

(* Inv: between two loops the nodes are sorted as numbers, and while one   *)
(* runs the moves that it has still to make lead to what it promised.      *)
THEOREM WordsInvariant ==
  ASSUME Apart PROVE Spec => []Inv
<1>1. Init => Inv
  BY InitInv
<1>2. Inv /\ [Next]_vars => Inv'
  BY NextInv
<1> QED
  BY <1>1, <1>2, PTL DEF Spec

(* Apart: keys of one long, which is all that btree_profiling uses, leave  *)
(* room for the queue, on every machine whose cache lines are an even      *)
(* number of longs.                                                        *)
THEOREM OneLongKeysApart ==
  ASSUME KeyLen = 1, NEW m \in Nat, Geo!NODESIZE = 2 * LongBytes * m
  PROVE  Apart
<1>1. /\ Geo!arr_len = G!arr_len /\ Geo!NODESIZE = G!NODESIZE
  BY SameGeometry DEF Geo!arr_len, G!arr_len, Geo!no_longs, G!no_longs, NoPairs,
                      Geo!NODESIZE, G!NODESIZE
<1>2. G!arr_len + 2 = G!NODESIZE \div LongBytes
  BY <1>1, GeoAssumptions, G!DeletedMarkPastEnd
<1>3. G!arr_len \in Int
  BY GeoAssumptions, G!Sizes
<1>4. 0 <= G!arr_len
  BY GeoAssumptions, SlotsOfNode, SameGeometry, Positions DEF G!arr_len, G!no_longs
<1>5. G!InNode = 0 .. ((G!arr_len + 2) - 1)
  BY <1>2 DEF G!InNode
<1>6. G!arr_len \in G!InNode
  BY <1>3, <1>4, <1>5
<1> QED
  BY <1>1, <1>6, SameGeometry DEF Apart, Inside

(* The keys that the longs of a node hold are those of its pairs.          *)
LEMMA KeysOfNode ==
  ASSUME words \in Memory, NEW n \in Addr, NEW q \in KeysIn(n)
  PROVE  q \in Keys /\ \E i \in Slot : /\ PairsOf(words)[n][i].v # NULL
                                       /\ PairsOf(words)[n][i].k = Number(q)
<1>1. PICK i \in Slot : q = bkey(n, i) /\ bval(n, i) # NULL
  BY DEF KeysIn
<1>2. View(words) \in Views
  BY DEF Memory
<1> DEFINE s == View(words)[n][i]
<1>3. s \in Vector
  BY <1>2, Slots
<1>4. q = KeyOf(s) /\ bval(n, i) = s[KeyLen]
  BY <1>1, PairsOfView DEF bkey, bval
<1>5. PairsOf(words)[n][i] = PairOf(s)
  BY PairsOfView DEF PairsIn
<1> HIDE DEF s
<1> QED
  BY <1>1, <1>3, <1>4, <1>5, KeyOfVector DEF PairOf

LEMMA RowIsInOrder ==
  ASSUME Inv
  PROVE  RowInOrder
<1> SUFFICES ASSUME Idle
             PROVE  /\ \A n \in Used : Pairs!Ordered(PairsOf(words)[n])
                    /\ Len(row) = 2 =>
                         \A p \in KeysIn(row[1]), q \in KeysIn(row[2]) : longcmp(p, q) > 0
  BY DEF RowInOrder
<1> DEFINE P == PairsOf(words)
<1>1. words \in Memory /\ IsRow(row) /\ Sorted(P, row)
  BY AtRest
<1>2. \A n \in Used : N!Ordered(P[n])
  BY <1>1, RowNodes DEF Used, Sorted
<1>3. \A m : N!Ordered(m) <=> Pairs!Ordered(m)
  BY SameNode DEF N!Ordered, Pairs!Ordered
<1>4. ASSUME Len(row) = 2, NEW p \in KeysIn(row[1]), NEW q \in KeysIn(row[2])
      PROVE  longcmp(p, q) > 0
  <2>1. row[1] \in Addr /\ row[2] \in Addr
    BY <1>1, <1>4, RowNodes
  <2> HIDE DEF P
  <2>2. p \in Keys /\ \E i \in Slot : P[row[1]][i].v # NULL /\ P[row[1]][i].k = Number(p)
    BY <1>1, <2>1, KeysOfNode DEF P
  <2>3. q \in Keys /\ \E i \in Slot : P[row[2]][i].v # NULL /\ P[row[2]][i].k = Number(q)
    BY <1>1, <2>1, KeysOfNode DEF P
  <2>4. Number(p) > Number(q)
    BY <1>1, <1>4, <2>2, <2>3 DEF Sorted
  <2>5. Number(p) \in Nat /\ Number(q) \in Nat
    BY <2>2, <2>3, NumberInNat
  <2>6. /\ longcmp(p, q) \in {-1, 0, 1}
        /\ longcmp(p, q) < 0 <=> Number(p) < Number(q)
        /\ longcmp(p, q) = 0 <=> Number(p) = Number(q)
    BY <2>2, <2>3, LongcmpOrders
  <2> QED
    BY <2>4, <2>5, <2>6
<1> QED
  BY <1>2, <1>3, <1>4

(* RowInOrder: getpos may take the keys of every node it is called for to  *)
(* descend in the order of longcmp, whatever loops ran before, unless the  *)
(* queue of a node lands among the keys of the one behind it.              *)
THEOREM RowStaysInOrder ==
  ASSUME Apart PROVE Spec => []RowInOrder
BY WordsInvariant, RowIsInOrder, PTL

LEMMA PairsAreKept ==
  ASSUME Inv
  PROVE  PairsKept
<1> SUFFICES ASSUME ~ Idle, NEW p \in Held(before.words, ToSet(before.row))
             PROVE  p \in Held(words, Addr) \/ p.k = Number(key)
  BY DEF PairsKept
<1> DEFINE S == ToSet(before.row)
<1>1. IsRow(before.row) /\ words \in Memory
  BY DEF Inv, Sound, Then
<1>2. S \subseteq Addr
  BY <1>1, RowNodes
<1>3. p.v # NULL
  BY DEF Held
<1>4. ASSUME Decrementing
      PROVE  p \in Held(words, Addr)
  <2>1. words = before.words
    BY <1>4 DEF Decrementing
  <2>2. p \in UNION {{PairsOf(words)[n][i] : i \in Slot} : n \in S}
    BY <2>1 DEF Held
  <2> HIDE DEF S
  <2>3. p \in UNION {{PairsOf(words)[n][i] : i \in Slot} : n \in Addr}
    BY <1>2, <2>2
  <2> QED
    BY <1>3, <2>3 DEF Held
<1>5. ASSUME Moving, p.k # Number(key)
      PROVE  p \in Held(words, Addr)
  <2> DEFINE H == Held(before.words, S)
  <2>1. PICK V : /\ todo # <<>> /\ Goes(V, todo, key, H)
                 /\ Partly(View(words), V[0], V[1], todo[1], w)
    BY <1>5 DEF Moving
  <2>2. todo \in Seq(Moves) /\ Len(todo) \in Nat \ {0} /\ todo[1] \in Moves
    BY <2>1 DEF Goes
  <2> HIDE DEF H
  <2>3. V[0] \in Views /\ V[1] = Do(V[0], todo[1], key) /\ Keeps(V[0], todo[1], H, key)
    BY <2>1, <2>2, FirstMove DEF H
  <2>4. View(words) \in Views /\ key \in Keys /\ p \in H
    BY <1>1 DEF Inv, Memory, H
  <2>5. \A q \in H : q.k = Number(key) \/ \E n \in Addr, i \in Slot : PairOf(View(words)[n][i]) = q
    BY <2>1, <2>2, <2>3, <2>4, KeptOnTheWay
  <2>6. PICK n \in Addr, i \in Slot : PairOf(View(words)[n][i]) = p
    BY <1>5, <2>4, <2>5
  <2>7. p \in HeldIn(View(words), Addr)
    BY <1>3, <2>6 DEF HeldIn
  <2> QED
    BY <2>7, HeldOfView
<1> QED
  BY <1>4, <1>5 DEF Inv

(* PairsKept: no loop drops a pair on its way, whatever the geometry, when *)
(* the cache's words are apart.                                            *)
THEOREM PairsStayKept ==
  ASSUME Apart PROVE Spec => []PairsKept
BY WordsInvariant, PairsAreKept, PTL

-----------------------------------------------------------------------------
(* The refinement                                                          *)

(* The operators of CBTreeNode, as CBTreePairs has them.                   *)
LEMMA SameOperators ==
  /\ \A m, k : Pairs!getpos(m, k) = N!getpos(m, k) /\ Pairs!matches(m, k) = N!matches(m, k)
  /\ \A m, i : Pairs!getfill(m, i) = N!getfill(m, i)
  /\ \A m, p, f, k, v : Pairs!insert_pair(m, p, f, k, v) = N!insert_pair(m, p, f, k, v)
  /\ \A m, p, f : Pairs!remove_pair(m, p, f) = N!remove_pair(m, p, f)
  /\ \A m : Pairs!lower_half(m) = N!lower_half(m)
  /\ \A m, m2 : Pairs!upper_half(m, m2) = N!upper_half(m, m2)
  /\ \A m, i, m2, j : Pairs!append_pairs(m, i, m2, j) = N!append_pairs(m, i, m2, j)
  /\ \A k : Pairs!Dec(k) = N!Dec(k)
  /\ Pairs!EmptyNode = N!EmptyNode
<1>1. Pairs!Slot = N!Slot /\ Pairs!Half = N!Half /\ Pairs!Empty = N!Empty
  BY SameNode DEF Pairs!Half, N!Half, Pairs!Empty, N!Empty
<1>2. \A S : Pairs!First(S) = N!First(S)
  BY DEF Pairs!First, N!First
<1>3. \A m, k : Pairs!getpos(m, k) = N!getpos(m, k) /\ Pairs!matches(m, k) = N!matches(m, k)
  BY <1>1, <1>2 DEF Pairs!getpos, N!getpos, Pairs!matches, N!matches
<1>4. \A m, i : Pairs!getfill(m, i) = N!getfill(m, i)
  BY <1>1, <1>2 DEF Pairs!getfill, N!getfill
<1>5. /\ \A m, p, f, k, v : Pairs!insert_pair(m, p, f, k, v) = N!insert_pair(m, p, f, k, v)
      /\ \A m, p, f : Pairs!remove_pair(m, p, f) = N!remove_pair(m, p, f)
  BY <1>1 DEF Pairs!insert_pair, N!insert_pair, Pairs!remove_pair, N!remove_pair
<1>6. /\ \A m : Pairs!lower_half(m) = N!lower_half(m)
      /\ \A m, m2 : Pairs!upper_half(m, m2) = N!upper_half(m, m2)
      /\ \A m, i, m2, j : Pairs!append_pairs(m, i, m2, j) = N!append_pairs(m, i, m2, j)
  BY <1>1 DEF Pairs!lower_half, N!lower_half, Pairs!upper_half, N!upper_half,
              Pairs!append_pairs, N!append_pairs
<1>7. \A k : Pairs!Dec(k) = N!Dec(k)
  BY DEF Pairs!Dec, N!Dec
<1>8. Pairs!EmptyNode = N!EmptyNode
  BY <1>1 DEF Pairs!EmptyNode, N!EmptyNode
<1> QED
  BY <1>3, <1>4, <1>5, <1>6, <1>7, <1>8

(* The state of the abstract specification, before and after a step.       *)
At(P0, r0, k0, q0) ==
  PairsOf(Then.words) = P0 /\ Then.row = r0 /\ Number(Then.key) = k0 /\ Then.pos = q0
After(P1, r1, k1) ==
  PairsOf(Then'.words) = P1 /\ Then'.row = r1 /\ Number(Then'.key) = k1 /\ Then'.pos = 0
Pos(P0, r0) == P0 \in [Addr -> N!NodeOver(Nat)] /\ IsRow(r0)

LEMMA InsertedIsInsert ==
  ASSUME NEW P0, NEW r0, NEW k \in Keys, NEW P1, NEW r1, Pos(P0, r0),
         At(P0, r0, Number(k), Then.pos), After(P1, r1, Number(k)), Inserted(P0, r0, k, P1, r1)
  PROVE  \E n \in Pairs!Used : \E v \in {ValueOf[c] : c \in ClientKeys} : Pairs!insert(n, v)
<1>1. PICK x \in 1 .. Len(r0) : \E c \in ClientKeys :
        LET n == r0[x]
            p == N!getpos(P0[n], Number(k))
            fill == N!getfill(P0[n], p)
        IN /\ k = c /\ fill < NoPairs /\ P0[n][p].k # Number(k)
           /\ \A y \in 1 .. Len(r0), i \in Slot : P0[r0[y]][i].v # NULL =>
                (y < x => P0[r0[y]][i].k > Number(k)) /\ (y > x => P0[r0[y]][i].k < Number(k))
           /\ P1 = [P0 EXCEPT ![n] = N!insert_pair(P0[n], p, fill, Number(k), ValueOf[c])]
           /\ r1 = r0
  BY DEF Inserted
<1> DEFINE n == r0[x]
           K == Number(k)
           v == ValueOf[k]
           p == N!getpos(P0[n], K)
           fill == N!getfill(P0[n], p)
           next == N!insert_pair(P0[n], p, fill, K, v)
<1>2. /\ k \in ClientKeys /\ fill < NoPairs /\ P0[n][p].k # K
      /\ \A y \in 1 .. Len(r0), i \in Slot : P0[r0[y]][i].v # NULL =>
           (y < x => P0[r0[y]][i].k > K) /\ (y > x => P0[r0[y]][i].k < K)
      /\ P1 = [P0 EXCEPT ![n] = next] /\ r1 = r0
  BY <1>1
<1>3. n \in Pairs!Used /\ v \in {ValueOf[c] : c \in ClientKeys} /\ K \in {Number(c) : c \in ClientKeys}
  BY <1>2 DEF Pairs!Used, At
<1>4. Pairs!Belongs(K, x)
  <2> SUFFICES ASSUME NEW y \in 1 .. Len(r0), NEW i \in Slot, P0[r0[y]][i].v # NULL
               PROVE  (y < x => P0[r0[y]][i].k > K) /\ (y > x => P0[r0[y]][i].k < K)
    BY SameNode DEF Pairs!Belongs, Pairs!KeysIn, At
  <2> QED
    BY <1>2
<1>5. p \notin Pairs!matches(P0[n], K)
  BY <1>2 DEF Pairs!matches
<1>6. /\ p = Pairs!getpos(P0[n], K) /\ fill = Pairs!getfill(P0[n], p)
      /\ next = Pairs!insert_pair(P0[n], p, fill, K, v)
  BY SameOperators
<1> HIDE DEF p, fill, next, K, v, n
<1>7. Pairs!insert(n, v)
  <2>1. /\ PairsOf(Then.words) = P0 /\ Then.row = r0 /\ Number(Then.key) = K
        /\ PairsOf(Then'.words) = P1 /\ Then'.row = r1 /\ Number(Then'.key) = K /\ Then'.pos = 0
    BY DEF At, After, K
  <2> QED
    BY <1>2, <1>3, <1>4, <1>5, <1>6, <2>1 DEF Pairs!insert, n
<1> QED
  BY <1>3, <1>7

LEMMA RemovedIsRemove ==
  ASSUME NEW P0, NEW r0, NEW k \in Keys, NEW P1, NEW r1,
         At(P0, r0, Number(k), Then.pos), After(P1, r1, Number(k)), Removed(P0, r0, k, P1, r1)
  PROVE  \E n \in Pairs!Used : Pairs!remove(n)
<1>1. PICK x \in 1 .. Len(r0) : \E c \in ClientKeys :
        LET n == r0[x]
            p == N!getpos(P0[n], Number(k))
        IN /\ k = c /\ p \in Slot /\ P0[n][p].k = Number(k)
           /\ P1 = [P0 EXCEPT ![n] = N!remove_pair(P0[n], p, N!getfill(P0[n], p))]
           /\ r1 = r0
  BY DEF Removed
<1> DEFINE n == r0[x]
           K == Number(k)
           p == N!getpos(P0[n], K)
           next == N!remove_pair(P0[n], p, N!getfill(P0[n], p))
<1>2. /\ k \in ClientKeys /\ p \in Slot /\ P0[n][p].k = K
      /\ P1 = [P0 EXCEPT ![n] = next] /\ r1 = r0
  BY <1>1
<1>3. n \in Pairs!Used /\ K \in {Number(c) : c \in ClientKeys}
  BY <1>2 DEF Pairs!Used, At
<1>4. p \in Pairs!matches(P0[n], K)
  BY <1>2, SameNode DEF Pairs!matches
<1>5. /\ p = Pairs!getpos(P0[n], K)
      /\ next = Pairs!remove_pair(P0[n], p, Pairs!getfill(P0[n], p))
  BY SameOperators
<1> HIDE DEF p, next, K, n
<1>6. Pairs!remove(n)
  <2>1. /\ PairsOf(Then.words) = P0 /\ Then.row = r0 /\ Number(Then.key) = K
        /\ PairsOf(Then'.words) = P1 /\ Then'.row = r1 /\ Number(Then'.key) = K /\ Then'.pos = 0
    BY DEF At, After, K
  <2> QED
    BY <1>2, <1>3, <1>4, <1>5, <2>1 DEF Pairs!remove
<1> QED
  BY <1>3, <1>6

LEMMA SplitIsSplit ==
  ASSUME NEW P0, NEW r0, NEW k \in Keys, NEW P1, NEW r1, Pos(P0, r0),
         At(P0, r0, Number(k), Then.pos), After(P1, r1, Number(k)), Split(P0, r0, P1, r1)
  PROVE  \E n \in Pairs!Used : \E m \in Addr \ Pairs!Used : Pairs!split(n, m)
<1>1. PICK n \in Addr, new \in Addr :
        /\ n # new /\ r0 = <<n>> /\ r1 = <<new, n>>
        /\ N!getfill(P0[n], 0) = NoPairs /\ P0[new] = N!EmptyNode
        /\ P1 = [a \in Addr |-> IF a = n THEN N!lower_half(P0[n])
                                ELSE IF a = new THEN N!upper_half(P0[n], P0[new]) ELSE P0[a]]
  BY DEF Split
<1> DEFINE K == Number(k)
           lo == N!lower_half(P0[n])
           up == N!upper_half(P0[n], P0[new])
<1>2. n \in Pairs!Used /\ new \in Addr \ Pairs!Used
  <2>1. Pairs!Used = {n}
    BY <1>1 DEF Pairs!Used, At
  <2> QED
    BY <1>1, <2>1
<1>3. Pairs!Fill(n) = NoPairs
  BY <1>1, SameOperators DEF Pairs!Fill, At
<1>4. P0[new] = Pairs!EmptyNode /\ lo = Pairs!lower_half(P0[n]) /\ up = Pairs!upper_half(P0[n], P0[new])
  BY <1>1, SameOperators
<1>5. P1 = [a \in Addr |-> IF a = n THEN lo ELSE IF a = new THEN up ELSE P0[a]]
  BY <1>1
<1>6. DOMAIN P0 = Addr /\ P0 = [a \in Addr |-> P0[a]]
  BY DEF Pos
<1> HIDE DEF lo, up, K
<1>7. P1 = [P0 EXCEPT ![new] = up, ![n] = lo]
  BY <1>1, <1>5, <1>6
<1>8. Pairs!split(n, new)
  <2>1. /\ PairsOf(Then.words) = P0 /\ Then.row = r0 /\ Number(Then.key) = K
        /\ PairsOf(Then'.words) = P1 /\ Then'.row = r1 /\ Number(Then'.key) = K /\ Then'.pos = 0
    BY DEF At, After, K
  <2>2. [P0 EXCEPT ![new] = Pairs!upper_half(P0[n], @), ![n] = Pairs!lower_half(@)] = P1
    BY <1>1, <1>4, <1>6, <1>7
  <2> QED
    BY <1>1, <1>3, <1>4, <2>1, <2>2 DEF Pairs!split
<1> QED
  BY <1>2, <1>8

LEMMA MergedIsMerge ==
  ASSUME NEW P0, NEW r0, NEW k \in Keys, NEW P1, NEW r1,
         At(P0, r0, Number(k), Then.pos), After(P1, r1, Number(k)), Merged(P0, r0, P1, r1)
  PROVE  \E n \in Pairs!Used : \E m \in Pairs!Used : Pairs!merge(n, m)
<1>1. PICK a \in Addr, b \in Addr :
        LET afill == N!getfill(P0[a], 0)
            bfill == N!getfill(P0[b], 0)
        IN /\ a # b /\ r0 = <<a, b>> /\ r1 = <<a>> /\ afill + bfill <= NoPairs
           /\ P1 = [P0 EXCEPT ![a] = N!append_pairs(P0[a], afill, P0[b], bfill)]
  BY DEF Merged
<1> DEFINE K == Number(k)
           x == N!getfill(P0[a], 0)
           y == N!getfill(P0[b], 0)
           next == N!append_pairs(P0[a], x, P0[b], y)
<1>2. a \in Pairs!Used /\ b \in Pairs!Used
  <2>1. Len(r0) = 2 /\ r0[1] = a /\ r0[2] = b
    BY <1>1
  <2> QED
    BY <2>1 DEF Pairs!Used, At
<1>3. x + y <= NoPairs /\ P1 = [P0 EXCEPT ![a] = next]
  BY <1>1
<1>4. Pairs!Fill(a) = x /\ Pairs!Fill(b) = y /\ next = Pairs!append_pairs(P0[a], x, P0[b], y)
  BY SameOperators DEF Pairs!Fill, At
<1> HIDE DEF x, y, next, K
<1>5. Pairs!merge(a, b)
  <2>1. /\ PairsOf(Then.words) = P0 /\ Then.row = r0 /\ Number(Then.key) = K
        /\ PairsOf(Then'.words) = P1 /\ Then'.row = r1 /\ Number(Then'.key) = K /\ Then'.pos = 0
    BY DEF At, After, K
  <2> QED
    BY <1>1, <1>3, <1>4, <2>1 DEF Pairs!merge
<1> QED
  BY <1>2, <1>5

(* The last write of a loop is the step on whole pairs that it stands for. *)
LEMMA EndedIsStep ==
  ASSUME Inv, Ended
  PROVE  Pairs!Next
<1> DEFINE P0 == PairsOf(Then.words)
           r0 == Then.row
           k == Then.key
           P1 == PairsOf(words')
<1>1. Then' = [words |-> words', row |-> row', key |-> key', pos |-> pos'] /\ pos' = 0
  BY DEF Ended, Then
<1>2. k \in Keys /\ Then.words \in Memory /\ IsRow(r0)
  BY DEF Inv, Sound
<1>3. Pos(P0, r0)
  <2>1. View(Then.words) \in Views
    BY <1>2 DEF Memory
  <2> QED
    BY <1>2, <2>1, PairsOfView, PairsAreNodes DEF Pos
<1>4. CASE key' = k /\ Promise(P0, r0, k, P1, row')
  <2>1. At(P0, r0, Number(k), Then.pos)
    BY DEF At
  <2>2. After(P1, row', Number(k))
    BY <1>1, <1>4 DEF After
  <2> HIDE DEF P0, r0, P1, k
  <2>3. CASE Inserted(P0, r0, k, P1, row')
    <3>1. \E n \in Pairs!Used : \E v \in {ValueOf[c] : c \in ClientKeys} : Pairs!insert(n, v)
      BY <1>2, <1>3, <2>1, <2>2, <2>3, InsertedIsInsert
    <3> QED
      BY <3>1 DEF Pairs!Next
  <2>4. CASE Removed(P0, r0, k, P1, row')
    <3>1. \E n \in Pairs!Used : Pairs!remove(n)
      BY <1>2, <2>1, <2>2, <2>4, RemovedIsRemove
    <3> QED
      BY <3>1 DEF Pairs!Next
  <2>5. CASE Split(P0, r0, P1, row')
    <3>1. \E n \in Pairs!Used : \E m \in Addr \ Pairs!Used : Pairs!split(n, m)
      BY <1>2, <1>3, <2>1, <2>2, <2>5, SplitIsSplit
    <3> QED
      BY <3>1 DEF Pairs!Next
  <2>6. CASE Merged(P0, r0, P1, row')
    <3>1. \E n \in Pairs!Used : \E m \in Pairs!Used : Pairs!merge(n, m)
      BY <1>2, <2>1, <2>2, <2>6, MergedIsMerge
    <3> QED
      BY <3>1 DEF Pairs!Next
  <2> QED
    BY <1>4, <2>3, <2>4, <2>5, <2>6 DEF Promise
<1>5. CASE words' = Then.words /\ row' = r0 /\ Number(key') = N!Dec(Number(k))
  <2>1. /\ PairsOf(Then'.words) = P0 /\ Then'.row = r0 /\ Then'.pos = 0
        /\ Number(Then'.key) = Pairs!Dec(Number(k))
    BY <1>1, <1>5, SameOperators
  <2>2. Pairs!dec_key
    BY <2>1 DEF Pairs!dec_key
  <2> QED
    BY <2>2 DEF Pairs!Next
<1> QED
  BY <1>4, <1>5 DEF Ended

(* What the steps that move no pair do to the abstract state.              *)
LEMMA RestIsStep ==
  ASSUME Inv, Idle, Idle', words' = words, row' = row
  PROVE  /\ Then = [words |-> words, row |-> row, key |-> key, pos |-> pos]
         /\ Then' = [words |-> words, row |-> row, key |-> key', pos |-> pos']
BY DEF Then

LEMMA set_keyIsStep ==
  ASSUME Inv, set_key
  PROVE  Pairs!Next
<1>1. Idle /\ Idle' /\ words' = words /\ row' = row /\ key' \in ClientKeys /\ pos' = 0
  BY DEF set_key, Idle
<1>2. /\ Then'.words = Then.words /\ Then'.row = Then.row
      /\ Then'.key \in ClientKeys /\ Then'.pos = 0
  BY <1>1, RestIsStep
<1>3. Pairs!set_key
  BY <1>2 DEF Pairs!set_key
<1> QED
  BY <1>3 DEF Pairs!Next

LEMMA searchIsStep ==
  ASSUME Inv, NEW n \in Used, search(n)
  PROVE  Pairs!Next
<1>1. Idle /\ Idle' /\ words' = words /\ row' = row /\ key' = key /\ pos' = getpos(n)
  BY DEF search, Idle
<1>2. /\ Then = [words |-> words, row |-> row, key |-> key, pos |-> pos]
      /\ Then' = [words |-> words, row |-> row, key |-> key, pos |-> getpos(n)]
  BY <1>1, RestIsStep
<1>3. words \in Memory /\ key \in Keys /\ IsRow(row)
  BY <1>1, AtRest
<1>4. n \in Addr /\ n \in Pairs!Used
  BY <1>2, <1>3, RowNodes DEF Used, Pairs!Used
<1>5. getpos(n) = Pairs!getpos(PairsOf(words)[n], Number(key))
  BY <1>3, <1>4, SameSearch, SameOperators
<1>6. Pairs!search(n)
  <2>1. /\ Then.words = words /\ Then.key = key
        /\ Then'.words = Then.words /\ Then'.row = Then.row /\ Then'.key = Then.key
        /\ Then'.pos = Pairs!getpos(PairsOf(words)[n], Number(key))
    BY <1>2, <1>5
  <2> QED
    BY <2>1 DEF Pairs!search
<1> QED
  BY <1>4, <1>6 DEF Pairs!Next

(* A split's new node is cleared, and the split begins or fails.           *)
LEMMA allocIsStep ==
  ASSUME Apart, Inv, Idle, NEW new \in Addr \ Used, NEW queued \in BOOLEAN,
         Then' = [words |-> cbtree_node_alloc(words, new, queued),
                  row |-> row, key |-> key, pos |-> pos]
  PROVE  Pairs!Next
<1> DEFINE ws == cbtree_node_alloc(words, new, queued)
<1>1. Then = [words |-> words, row |-> row, key |-> key, pos |-> pos] /\ IsRow(row)
  BY AtRest
<1>2. PairsOf(ws) = [PairsOf(words) EXCEPT ![new] = Pairs!EmptyNode]
  BY SplitAllocates, SameOperators
<1>3. new \in Addr /\ new \notin Pairs!Used
  BY <1>1, RowNodes DEF Used, Pairs!Used
<1>4. Then'.words = ws
  OBVIOUS
<1> HIDE DEF ws
<1>5. Pairs!clear(new)
  <2>1. /\ Then.words = words /\ Then'.row = Then.row
        /\ Then'.key = Then.key /\ Then'.pos = Then.pos
    BY <1>1
  <2> QED
    BY <1>2, <1>3, <1>4, <2>1 DEF Pairs!clear
<1> QED
  BY <1>3, <1>5 DEF Pairs!Next

LEMMA StepImplements ==
  ASSUME Apart, Inv, [Next]_vars
  PROVE  [Pairs!Next]_Pairs!vars
<1>1. ASSUME Then' = Then
      PROVE  UNCHANGED Pairs!vars
  BY <1>1 DEF Pairs!vars
<1>2. CASE set_key
  BY <1>2, set_keyIsStep
<1>3. CASE dec_key
  BY <1>1, <1>3, decBegins
<1>4. ASSUME NEW n \in Used, search(n)
      PROVE  Pairs!Next
  BY <1>4, searchIsStep
<1>5. ASSUME NEW n \in Used, remove(n)
      PROVE  UNCHANGED Pairs!vars
  BY <1>1, <1>5, removeBegins
<1>6. ASSUME NEW n \in Used, insert(n)
      PROVE  UNCHANGED Pairs!vars
  <2>1. n \in Addr
    BY RowNodes DEF Inv, Used
  <2> QED
    BY <1>1, <1>6, <2>1, insertBegins
<1>7. ASSUME NEW n \in Used, NEW m \in Addr \ Used, NEW queued \in BOOLEAN, split(n, m, queued)
      PROVE  Pairs!Next
  <2>1. Idle
    BY <1>7 DEF split, Begin
  <2> QED
    BY <1>7, <2>1, splitBegins, allocIsStep
<1>8. ASSUME NEW n \in Used, NEW m \in Used, merge(n, m)
      PROVE  UNCHANGED Pairs!vars
  BY <1>1, <1>8, mergeBegins
<1>9. ASSUME NEW n \in Used, NEW m \in Addr \ Used, NEW queued \in BOOLEAN,
             split_fails(n, m, queued)
      PROVE  Pairs!Next
  <2>1. /\ Idle /\ words' = cbtree_node_alloc(words, m, queued)
        /\ UNCHANGED <<row, key, pos, todo, before>>
    BY <1>9 DEF split_fails
  <2>2. Then' = [words |-> words', row |-> row, key |-> key, pos |-> pos]
    BY <2>1 DEF Then, Idle
  <2> QED
    BY <2>1, <2>2, allocIsStep
<1>10. CASE longcpy
  BY <1>1, <1>10, longcpyWrites
<1>11. CASE setval
  BY <1>1, <1>11, setvalWrites, EndedIsStep
<1>12. CASE dec_word
  BY <1>1, <1>12, dec_wordWrites, EndedIsStep
<1>13. CASE UNCHANGED vars
  <2>1. Then' = Then
    BY <1>13 DEF vars, Then, Idle
  <2> QED
    BY <1>1, <2>1
<1> QED
  BY <1>2, <1>3, <1>4, <1>5, <1>6, <1>7, <1>8, <1>9, <1>10, <1>11, <1>12, <1>13
  DEF Next, Caller

LEMMA InitImplements ==
  ASSUME Apart, Init
  PROVE  Pairs!Init
<1>1. /\ Then = [words |-> words, row |-> row, key |-> key, pos |-> pos]
      /\ pos = 0 /\ key \in ClientKeys
  BY DEF Then, Init, Idle
<1>2. \E a \in Addr : row = <<a>>
  BY InitNode
<1>3. PairsOf(words) = [n \in Addr |-> Pairs!EmptyNode]
  BY InitNode, SameOperators
<1>4. /\ PairsOf(Then.words) = PairsOf(words) /\ Then.row = row /\ Then.pos = 0
      /\ Then.key \in ClientKeys
  BY <1>1
<1> QED
  BY <1>2, <1>3, <1>4 DEF Pairs!Init

(* ImplementsPairs: every loop over the longs of a node is one step on its *)
(* pairs, for every geometry, length of a key and width of a long, when    *)
(* the cache's words are apart.                                            *)
THEOREM WordsImplementPairs ==
  ASSUME Apart PROVE Spec => ImplementsPairs
<1>1. Init => Pairs!Init
  BY InitImplements
<1>2. Inv /\ [Next]_vars => [Pairs!Next]_Pairs!vars
  BY StepImplements
<1> QED
  BY <1>1, <1>2, WordsInvariant, PTL DEF Spec, ImplementsPairs, Pairs!Spec

=============================================================================
