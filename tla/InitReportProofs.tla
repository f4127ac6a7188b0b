---------------------------- MODULE InitReportProofs ---------------------------
(* The theorems about InitReport and their proofs.                          *)
EXTENDS InitReport, WellFoundedInduction, FiniteSetTheorems, TLAPS

(* While a request is past the reading of the memory, the zombie it left is *)
(* not yet matched by a report, and there is room for the next child.       *)
ProcessInv ==
    /\ zombies \in Nat /\ reports \in Nat
    /\ zombies <= ProcLimit
    /\ reports <= zombies /\ reports < ProcLimit
    /\ step \in {"disk", "names"} => reports < zombies /\ zombies < ProcLimit

(* A report takes the zombie its own request left, and no other step        *)
(* reports.                                                                 *)
LEMMA ProcessStep == ProcessInv /\ [Next]_vars => ProcessInv'
<1> SUFFICES ASSUME ProcessInv, [Next]_vars PROVE ProcessInv'
  OBVIOUS
<1> USE ReportAssumption DEF ProcessInv, placeVars, diskVars, End
<1>1. CASE Begin
  BY <1>1 DEF Begin
<1>2. CASE GpsLocates
  BY <1>2 DEF GpsLocates
<1>3. CASE GpsFails
  BY <1>3 DEF GpsFails
<1>4. CASE IpLocates
  BY <1>4 DEF IpLocates
<1>5. CASE IpFails
  BY <1>5 DEF IpFails
<1>6. CASE MemoryRead
  BY <1>6 DEF MemoryRead
<1>7. CASE MemoryPanics
  BY <1>7 DEF MemoryPanics
<1>8. CASE DiskRead
  BY <1>8 DEF DiskRead
<1>9. CASE DiskPanics
  BY <1>9 DEF DiskPanics
<1>10. CASE SpecsRead
  BY <1>10 DEF SpecsRead
<1>11. CASE SpecsFail
  BY <1>11 DEF SpecsFail
<1>12. CASE UNCHANGED vars
  BY <1>12 DEF vars
<1> QED
  BY <1>1, <1>2, <1>3, <1>4, <1>5, <1>6, <1>7, <1>8, <1>9, <1>10, <1>11,
     <1>12
  DEF Next

(* However many requests come and however they end, the reports of one      *)
(* agent process are fewer than the processes it may have.                  *)
THEOREM ReportsAreBounded == Spec => []ReportsUseUpProcesses
<1>1. Init => ProcessInv
  BY ReportAssumption DEF Init, ProcessInv
<1>2. ProcessInv => ReportsUseUpProcesses
  BY DEF ProcessInv, ReportsUseUpProcesses
<1> QED
  BY <1>1, <1>2, ProcessStep, PTL DEF Spec

(* Rounding to the nearest of Grain-ths is off by half a Grain at most,     *)
(* north or south, east or west.                                            *)
LEMMA RoundedIsClose ==
    ASSUME NEW x \in Int
    PROVE  /\ Rounded(x) \in Int
           /\ Grain * Rounded(x) - x \in -(Grain \div 2)..(Grain \div 2)
<1> DEFINE half == Grain \div 2
<1>1. half \in Nat /\ Grain = 2 * half /\ half > 0
  BY ReportAssumption
<1>2. ASSUME NEW y \in Nat
      PROVE  /\ (y + half) \div Grain \in Int
             /\ Grain * ((y + half) \div Grain) - y \in -half..half
  <2>1. /\ (y + half) \div Grain \in Int
        /\ y + half = Grain * ((y + half) \div Grain) + ((y + half) % Grain)
        /\ (y + half) % Grain \in 0..Grain-1
    BY <1>1, ReportAssumption
  <2> HIDE DEF half
  <2> DEFINE q == (y + half) \div Grain
  <2> DEFINE product == Grain * q
  <2>2. product \in Int /\ y + half = product + ((y + half) % Grain)
    BY <2>1, ReportAssumption
  <2>3. product - y \in -half..half
    <3> HIDE DEF product
    <3> QED
      BY <2>1, <2>2, <1>1
  <2> QED
    BY <2>1, <2>3
<1>3. CASE x >= 0
  BY <1>2, <1>3 DEF Rounded
<1>4. CASE ~(x >= 0)
  <2>1. -x \in Nat
    BY <1>4
  <2> HIDE DEF half
  <2> DEFINE q == (-x + half) \div Grain
  <2>2. q \in Int /\ Grain * q - (-x) \in -half..half
    BY <1>2, <2>1
  <2>3. Rounded(x) = -q
    BY <1>4 DEF Rounded, half
  <2>4. Grain * (-q) = -(Grain * q) /\ Grain * q \in Int
    BY <2>2, ReportAssumption
  <2>5. half \in Nat
    BY <1>1
  <2> DEFINE product == Grain * q
  <2>6. -product - x \in -half..half
    <3>1. product \in Int /\ product + x \in -half..half
      BY <2>2, <2>4
    <3> HIDE DEF product
    <3> QED
      BY <3>1, <2>5
  <2>7. Grain * Rounded(x) - x \in -half..half
    BY <2>3, <2>4, <2>6
  <2> QED
    BY <2>2, <2>3, <2>7 DEF half
<1> QED
  BY <1>3, <1>4

(* Whole micro-degrees are Grain apart.                                     *)
LEMMA GrainApart ==
    ASSUME NEW a \in Int, NEW b \in Int, a < b
    PROVE  Grain * a \in Int /\ Grain * b \in Int /\ Grain * a + Grain <= Grain * b
<1> DEFINE d == b - a - 1
<1>1. d \in Nat /\ b = a + 1 + d /\ Grain \in Nat
  BY ReportAssumption
<1>2. Grain * b = Grain * a + Grain + Grain * d
  BY <1>1
<1>3. Grain * d \in Nat /\ Grain * a \in Int /\ Grain * b \in Int
  BY <1>1
<1> QED
  BY <1>1, <1>2, <1>3

(* The cast that saturates keeps the nearest there is.                      *)
LEMMA ConvertedIsNearest ==
    ASSUME NEW x \in Int
    PROVE  AsI32(Rounded(x)) \in I32 /\ Nearest(AsI32(Rounded(x)), x)
<1> DEFINE r == Rounded(x)
<1> DEFINE c == AsI32(r)
<1> DEFINE Off(m) == IF Grain * m >= x THEN Grain * m - x ELSE x - Grain * m
<1>1. r \in Int /\ Grain * r \in Int
      /\ 2 * (Grain * r - x) <= Grain /\ 2 * (x - Grain * r) <= Grain
  <2>1. /\ Grain \div 2 \in Nat /\ Grain = 2 * (Grain \div 2)
        /\ Grain \in Nat
    BY ReportAssumption
  <2>2. r \in Int /\ Grain * r - x \in -(Grain \div 2)..(Grain \div 2)
    BY RoundedIsClose
  <2>3. Grain * r \in Int
    BY <2>1, <2>2
  <2> HIDE DEF r
  <2> DEFINE g == Grain * r
  <2> DEFINE h == Grain \div 2
  <2>4. g \in Int /\ h \in Nat /\ Grain = 2 * h /\ g - x \in -h..h
    BY <2>1, <2>2, <2>3
  <2>5. 2 * (g - x) <= Grain /\ 2 * (x - g) <= Grain
    <3> HIDE DEF g, h
    <3> QED
      BY <2>4
  <2> QED
    BY <2>2, <2>3, <2>5
<1> HIDE DEF r
<1>2. /\ c \in I32 /\ c \in Int
      /\ c < r => c = I32Max
      /\ c > r => c = -I32Max - 1
  BY <1>1, ReportAssumption DEF AsI32, I32
<1> HIDE DEF c
<1>3. ASSUME NEW n \in I32 PROVE Off(c) <= Off(n)
  <2>1. n \in -I32Max - 1..I32Max /\ n \in Int /\ Grain \in Nat \ {0}
    BY ReportAssumption DEF I32
  <2>2. CASE n = c
    <3>1. Grain * c \in Int
      BY <1>2, <2>1
    <3> QED
      BY <2>2, <3>1
  <2>3. CASE n > c
    <3>1. c >= r
      BY <1>1, <1>2, <2>1, <2>3
    <3>2. /\ Grain * c \in Int /\ Grain * n \in Int
          /\ Grain * c + Grain <= Grain * n
      BY <1>2, <2>1, <2>3, GrainApart
    <3>3. c = r \/ Grain * r + Grain <= Grain * c
      BY <1>1, <1>2, <3>1, GrainApart
    <3> QED
      BY <1>1, <2>1, <3>2, <3>3
  <2>4. CASE n < c
    <3>1. c <= r
      BY <1>1, <1>2, <2>1, <2>4, ReportAssumption
    <3>2. /\ Grain * c \in Int /\ Grain * n \in Int
          /\ Grain * n + Grain <= Grain * c
      BY <1>2, <2>1, <2>4, GrainApart
    <3>3. c = r \/ Grain * c + Grain <= Grain * r
      BY <1>1, <1>2, <3>1, GrainApart
    <3> QED
      BY <1>1, <2>1, <3>2, <3>3
  <2> QED
    BY <1>2, <2>1, <2>2, <2>3, <2>4
<1> QED
  BY <1>2, <1>3 DEF Nearest, c, r

(* From the moment there is a location it is that of the best position.     *)
PlaceInv ==
    /\ step \in {"idle", "gps", "ip", "memory", "disk", "names"}
    /\ step \in {"gps", "ip"} => gps = NoPosition
    /\ step \in {"memory", "disk", "names"} \/ outcome = "report" =>
          LET p == IF gps # NoPosition THEN gps ELSE ip
          IN  p \in Position /\ coordinates = f64_to_i32_coordinates(p)
    /\ step # "idle" => outcome = "none"

(* A report is sent with the location its own request read.                 *)
LEMMA PlaceStep == PlaceInv /\ [Next]_vars => PlaceInv'
<1> SUFFICES ASSUME PlaceInv, [Next]_vars PROVE PlaceInv'
  OBVIOUS
<1> USE DEF PlaceInv, placeVars, diskVars, End
<1>1. CASE Begin
  BY <1>1 DEF Begin
<1>2. CASE GpsLocates
  <2>1. NoPosition \notin Position
    BY ReportAssumption DEF NoPosition, Position
  <2> QED
    BY <1>2, <2>1 DEF GpsLocates
<1>3. CASE GpsFails
  BY <1>3 DEF GpsFails
<1>4. CASE IpLocates
  BY <1>4 DEF IpLocates
<1>5. CASE IpFails
  BY <1>5 DEF IpFails
<1>6. CASE MemoryRead
  BY <1>6 DEF MemoryRead
<1>7. CASE MemoryPanics
  BY <1>7 DEF MemoryPanics
<1>8. CASE DiskRead
  BY <1>8 DEF DiskRead
<1>9. CASE DiskPanics
  BY <1>9 DEF DiskPanics
<1>10. CASE SpecsRead
  BY <1>10 DEF SpecsRead
<1>11. CASE SpecsFail
  BY <1>11 DEF SpecsFail
<1>12. CASE UNCHANGED vars
  BY <1>12 DEF vars
<1> QED
  BY <1>1, <1>2, <1>3, <1>4, <1>5, <1>6, <1>7, <1>8, <1>9, <1>10, <1>11,
     <1>12
  DEF Next

(* For every grain, range and i32: a report tells the nearest position.     *)
THEOREM PlaceIsNearest == Spec => []ReportedPlaceIsNearest
<1>1. Init => PlaceInv
  BY DEF Init, PlaceInv
<1>2. PlaceInv => ReportedPlaceIsNearest
  <2> SUFFICES ASSUME PlaceInv, outcome = "report" PROVE ReportedPlaceIsNearest
    BY DEF ReportedPlaceIsNearest
  <2> DEFINE p == IF gps # NoPosition THEN gps ELSE ip
  <2>1. p \in Position /\ coordinates = f64_to_i32_coordinates(p)
    BY DEF PlaceInv
  <2>2. p # NoPosition /\ p.lat \in Int /\ p.lon \in Int
    BY <2>1, ReportAssumption DEF Position, NoPosition
  <2> HIDE DEF p
  <2>3. /\ coordinates.lat = AsI32(Rounded(p.lat))
        /\ coordinates.lon = AsI32(Rounded(p.lon))
    BY <2>1 DEF f64_to_i32_coordinates
  <2>4. Nearest(coordinates.lat, p.lat) /\ Nearest(coordinates.lon, p.lon)
    BY <2>2, <2>3, ConvertedIsNearest
  <2> QED
    BY <2>2, <2>4 DEF ReportedPlaceIsNearest, p
<1> QED
  BY <1>1, <1>2, PlaceStep, PTL DEF Spec

(* Induction over the naturals, in first-order form: a set with a number    *)
(* that it lacks lacks a smallest one.                                      *)
LEMMA NatSetInduction ==
    ASSUME NEW G, 0 \in G, \A n \in Nat : n \in G => n + 1 \in G
    PROVE  Nat \subseteq G
<1> SUFFICES ASSUME ~(Nat \subseteq G) PROVE FALSE
  OBVIOUS
<1> DEFINE R == OpToRel(<, Nat)
           bad == Nat \ G
<1>1. PICK n \in bad : \A m \in bad : ~(<<m, n>> \in R)
  <2>1. IsWellFoundedOn(R, Nat)
    BY NatLessThanWellFounded
  <2>2. bad \subseteq Nat /\ bad # {}
    OBVIOUS
  <2> HIDE DEF R, bad
  <2> QED
    BY <2>1, <2>2, WFMin
<1>2. n \in Nat \ {0} /\ n - 1 \in Nat
  OBVIOUS
<1>3. n - 1 \in bad
  BY <1>2
<1>4. <<n-1, n>> \in R
  BY <1>2 DEF OpToRel
<1> QED
  BY <1>1, <1>3, <1>4

(* A sum may be reduced at every step or once at the end.                   *)
LEMMA ModAdd == ASSUME NEW a \in Nat, NEW b \in Nat, NEW W \in Nat \ {0}
  PROVE ((a % W) + b) % W = (a + b) % W
<1> DEFINE q == a \div W
           r == a % W
           p == (r + b) \div W
           u == (r + b) % W
           m == (a + b) \div W
           v == (a + b) % W
<1>1. a = W * q + r /\ q \in Int /\ r \in 0..W-1
  OBVIOUS
<1>2. r + b = W * p + u /\ p \in Int /\ u \in 0..W-1
  BY <1>1
<1>3. a + b = W * m + v /\ m \in Int /\ v \in 0..W-1
  OBVIOUS
<1> HIDE DEF q, r, p, u, m, v
<1>4. W * m + v = W * (q + p) + u
  <2>1. W * (q + p) = W * q + W * p
    BY <1>1, <1>2
  <2> QED
  BY <1>1, <1>2, <1>3, <2>1
<1>5. W * (m - (q + p)) = u - v
  BY <1>1, <1>2, <1>3, <1>4
<1> DEFINE d == m - (q + p)
<1>6. d \in Int /\ W * d = u - v
  BY <1>1, <1>2, <1>3, <1>5
<1> HIDE DEF d
<1>7. ~(d >= 1) /\ ~(d <= -1)
  <2>1. d >= 1 => W * d >= W
    BY <1>6
  <2>2. d <= -1 => W * d <= -W
    BY <1>6
  <2> QED
    BY <2>1, <2>2, <1>6, <1>2, <1>3
<1>8. d = 0
  BY <1>6, <1>7
<1>9. u = v
  BY <1>6, <1>8, <1>2, <1>3
<1> QED BY <1>9 DEF u, v, r

(* pick chooses an element of every subset of S that has one.               *)
Chooses(pick, S) == \A T \in SUBSET S : T # {} => pick[T] \in T

(* g folds f over the subsets of S, in the order of pick.                   *)
IsFold(g, S, base, f, pick) ==
    \A T \in SUBSET S :
       g[T] = IF T = {} THEN base ELSE f[<<pick[T], g[T \ {pick[T]}]>>]

(* What a fold takes for granted when it picks a solution of its recursion: *)
(* there is one.                                                            *)
LEMMA RecursionOnSubsets ==
    ASSUME NEW S, IsFiniteSet(S), NEW V, NEW base \in V,
           NEW f \in [S \X V -> V], NEW pick, Chooses(pick, S)
    PROVE  \E g \in [SUBSET S -> V] : IsFold(g, S, base, f, pick)
<1> DEFINE Right(g, T) == g[T] = IF T = {} THEN base
                               ELSE f[<<pick[T], g[T \ {pick[T]}]>>]
           UpTo(n) == \E g \in [SUBSET S -> V] : \A T \in SUBSET S :
                         Cardinality(T) <= n => Right(g, T)
           G == {n \in Nat : UpTo(n)}
<1>1. \A T \in SUBSET S : /\ IsFiniteSet(T) /\ Cardinality(T) \in Nat
                          /\ Cardinality(T) <= Cardinality(S)
                          /\ Cardinality(T) = 0 <=> T = {}
  BY FS_Subset, FS_CardinalityType, FS_EmptySet
<1>2. \A T \in SUBSET S : T # {} =>
         /\ pick[T] \in S /\ T \ {pick[T]} \in SUBSET S
         /\ Cardinality(T \ {pick[T]}) = Cardinality(T) - 1
  BY <1>1, FS_RemoveElement DEF Chooses
<1>3. UpTo(0)
  <2> DEFINE g == [T \in SUBSET S |-> base]
  <2>1. g \in [SUBSET S -> V]
    OBVIOUS
  <2>2. \A T \in SUBSET S : Cardinality(T) <= 0 => Right(g, T)
    BY <1>1
  <2> QED
    BY <2>1, <2>2
<1>4. ASSUME NEW n \in Nat, UpTo(n) PROVE UpTo(n + 1)
  <2>1. PICK g \in [SUBSET S -> V] :
           \A T \in SUBSET S : Cardinality(T) <= n => Right(g, T)
    BY <1>4
  <2> DEFINE h == [T \in SUBSET S |->
                     IF Cardinality(T) = n + 1
                     THEN f[<<pick[T], g[T \ {pick[T]}]>>] ELSE g[T]]
  <2>2. h \in [SUBSET S -> V]
    <3> SUFFICES ASSUME NEW T \in SUBSET S, Cardinality(T) = n + 1
                 PROVE  f[<<pick[T], g[T \ {pick[T]}]>>] \in V
      BY <2>1
    <3>1. T # {}
      BY <1>1
    <3>2. pick[T] \in S /\ g[T \ {pick[T]}] \in V
      BY <1>2, <2>1, <3>1
    <3> QED
      BY <3>2
  <2>3. ASSUME NEW T \in SUBSET S, Cardinality(T) <= n + 1 PROVE Right(h, T)
    <3>1. CASE T = {}
      <4>1. Cardinality(T) = 0 /\ h[T] = g[T]
        BY <1>1, <3>1
      <4> QED
        BY <2>1, <3>1, <4>1
    <3>2. CASE T # {}
      <4>1. h[T \ {pick[T]}] = g[T \ {pick[T]}]
        BY <1>1, <1>2, <2>3, <3>2
      <4>2. CASE Cardinality(T) = n + 1
        BY <3>2, <4>1, <4>2
      <4>3. CASE Cardinality(T) <= n
        <5>1. h[T] = g[T]
          BY <1>1, <4>3
        <5> QED
        BY <2>1, <3>2, <4>1, <4>3, <5>1
      <4> QED
        BY <1>1, <2>3, <4>2, <4>3
    <3> QED
      BY <3>1, <3>2
  <2> HIDE DEF h, Right
  <2> QED
    BY <2>2, <2>3
<1>5. Nat \subseteq G
  <2>1. 0 \in G
    BY <1>3
  <2>2. ASSUME NEW n \in Nat, n \in G PROVE n + 1 \in G
    <3>1. UpTo(n)
      BY <2>2
    <3>2. UpTo(n + 1)
      BY <1>4, <3>1
    <3> QED
      BY <3>2
  <2> HIDE DEF G
  <2> QED
    BY <2>1, <2>2, NatSetInduction
<1>6. UpTo(Cardinality(S))
  BY <1>1, <1>5
<1> QED
  BY <1>1, <1>6 DEF IsFold

(* s[T] is the sum of the w[x] for the x in T, summed up in the order of    *)
(* pick; in any order; line by line.                                        *)
SumsUp(s, S, w, pick) ==
    \A T \in SUBSET S :
       s[T] = IF T = {} THEN 0 ELSE w[pick[T]] + s[T \ {pick[T]}]

SumsUpAnyhow(s, S, w) ==
    \A T \in SUBSET S : \A x \in T : s[T] = w[x] + s[T \ {x}]

SumsUpAlong(s, S, w, n) ==
    \A k \in 1..n : s[S \cap (1..k)] = s[S \cap (1..(k - 1))]
                                         + (IF k \in S THEN w[k] ELSE 0)

(* A sum of naturals is one, although the fold does not say so.             *)
LEMMA SumsAreNat ==
    ASSUME NEW S, IsFiniteSet(S), NEW w \in [S -> Nat],
           NEW pick, Chooses(pick, S), NEW s, SumsUp(s, S, w, pick)
    PROVE  \A T \in SUBSET S : s[T] \in Nat
<1> DEFINE G == {n \in Nat : \A T \in SUBSET S :
                                Cardinality(T) <= n => s[T] \in Nat}
<1>1. \A T \in SUBSET S : /\ IsFiniteSet(T) /\ Cardinality(T) \in Nat
                          /\ Cardinality(T) = 0 <=> T = {}
  BY FS_Subset, FS_CardinalityType, FS_EmptySet
<1>2. 0 \in G
  <2> SUFFICES ASSUME NEW T \in SUBSET S, Cardinality(T) <= 0
               PROVE  s[T] \in Nat
    OBVIOUS
  <2>1. T = {}
    BY <1>1
  <2> QED
    BY <2>1 DEF SumsUp
<1>3. ASSUME NEW n \in Nat, n \in G PROVE n + 1 \in G
  <2> SUFFICES ASSUME NEW T \in SUBSET S, Cardinality(T) <= n + 1
               PROVE  s[T] \in Nat
    OBVIOUS
  <2>1. CASE T = {}
    BY <2>1 DEF SumsUp
  <2>2. CASE T # {}
    <3>1. pick[T] \in T /\ w[pick[T]] \in Nat
      BY <2>2 DEF Chooses
    <3>2. T \ {pick[T]} \in SUBSET S /\ Cardinality(T \ {pick[T]}) <= n
      BY <1>1, <3>1, FS_RemoveElement
    <3>3. s[T \ {pick[T]}] \in Nat
      BY <1>3, <3>2
    <3>4. s[T] = w[pick[T]] + s[T \ {pick[T]}]
      BY <2>2 DEF SumsUp
    <3> QED
      BY <3>1, <3>3, <3>4
  <2> QED
    BY <2>1, <2>2
<1>4. Nat \subseteq G
  <2> HIDE DEF G
  <2> QED
    BY <1>2, <1>3, NatSetInduction
<1> QED
  BY <1>1, <1>4

(* A sum does not depend on the order its summands were picked in.          *)
LEMMA AnyOrder ==
    ASSUME NEW S, IsFiniteSet(S), NEW w \in [S -> Nat],
           NEW pick, Chooses(pick, S), NEW s, SumsUp(s, S, w, pick)
    PROVE  SumsUpAnyhow(s, S, w)
<1> DEFINE Right(T) == \A x \in T : s[T] = w[x] + s[T \ {x}]
           UpTo(n) == \A T \in SUBSET S : Cardinality(T) <= n => Right(T)
           G == {n \in Nat : UpTo(n)}
<1>1. \A T \in SUBSET S : /\ IsFiniteSet(T) /\ Cardinality(T) \in Nat
                          /\ Cardinality(T) <= Cardinality(S)
                          /\ Cardinality(T) = 0 <=> T = {}
  BY FS_Subset, FS_CardinalityType, FS_EmptySet
<1>2. \A T \in SUBSET S : \A x \in T :
         /\ T \ {x} \in SUBSET S
         /\ Cardinality(T \ {x}) = Cardinality(T) - 1
  BY <1>1, FS_RemoveElement
<1>3. UpTo(0)
  BY <1>1
<1>4. ASSUME NEW n \in Nat, UpTo(n) PROVE UpTo(n + 1)
  <2> SUFFICES ASSUME NEW T \in SUBSET S, Cardinality(T) <= n + 1,
                      NEW x \in T
               PROVE  s[T] = w[x] + s[T \ {x}]
    OBVIOUS
  <2> DEFINE c == pick[T]
             U == T \ {c, x}
  <2>1. c \in T /\ s[T] = w[c] + s[T \ {c}]
    BY DEF SumsUp, Chooses
  <2>2. CASE c = x
    BY <2>1, <2>2
  <2>3. CASE c # x
    <3>1. /\ T \ {c} \in SUBSET S /\ Cardinality(T \ {c}) <= n
          /\ T \ {x} \in SUBSET S /\ Cardinality(T \ {x}) <= n
      BY <1>1, <1>2, <2>1
    <3>2. x \in T \ {c} /\ c \in T \ {x}
      BY <2>1, <2>3
    <3>3. (T \ {c}) \ {x} = U /\ (T \ {x}) \ {c} = U /\ U \in SUBSET S
      OBVIOUS
    <3> HIDE DEF c, U
    <3>4. s[T \ {c}] = w[x] + s[U]
      BY <1>4, <3>1, <3>2, <3>3
    <3>5. s[T \ {x}] = w[c] + s[U]
      BY <1>4, <3>1, <3>2, <3>3
    <3>6. w[x] \in Nat /\ w[c] \in Nat /\ s[U] \in Nat
      BY <2>1, <3>3, SumsAreNat
    <3> QED
      BY <2>1, <3>4, <3>5, <3>6
  <2> QED
    BY <2>2, <2>3
<1>5. Nat \subseteq G
  <2>1. 0 \in G
    BY <1>3
  <2>2. ASSUME NEW n \in Nat, n \in G PROVE n + 1 \in G
    <3>1. UpTo(n)
      BY <2>2
    <3>2. UpTo(n + 1)
      BY <1>4, <3>1
    <3> QED
      BY <3>2
  <2> HIDE DEF G
  <2> QED
    BY <2>1, <2>2, NatSetInduction
<1> QED
  BY <1>1, <1>5 DEF SumsUpAnyhow

(* So it may be taken line by line.                                         *)
LEMMA SumAlong ==
    ASSUME NEW n \in Nat, NEW S \in SUBSET (1..n), NEW w \in [S -> Nat],
           NEW pick, Chooses(pick, S), NEW s, SumsUp(s, S, w, pick)
    PROVE  SumsUpAlong(s, S, w, n)
<1> SUFFICES ASSUME NEW k \in 1..n
             PROVE  s[S \cap (1..k)] = s[S \cap (1..(k - 1))]
                                         + (IF k \in S THEN w[k] ELSE 0)
  BY DEF SumsUpAlong
<1> DEFINE upto == S \cap (1..k)
           before == S \cap (1..(k - 1))
<1>1. IsFiniteSet(S)
  <2>1. IsFiniteSet(1..n)
    BY FS_Interval
  <2> QED
    BY <2>1, FS_Subset
<1>2. upto \in SUBSET S /\ before \in SUBSET S
  OBVIOUS
<1>3. CASE k \in S
  <2>1. k \in upto /\ upto \ {k} = before
    BY <1>3
  <2> HIDE DEF upto, before
  <2>2. s[upto] = w[k] + s[upto \ {k}]
    <3>1. SumsUpAnyhow(s, S, w)
      BY <1>1, AnyOrder
    <3> QED
      BY <1>2, <2>1, <3>1 DEF SumsUpAnyhow
  <2>3. s[before] \in Nat /\ w[k] \in Nat
    BY <1>1, <1>2, <1>3, SumsAreNat
  <2> QED
    BY <1>3, <2>1, <2>2, <2>3 DEF upto, before
<1>4. CASE k \notin S
  <2>1. upto = before
    BY <1>4
  <2> HIDE DEF upto, before
  <2>2. s[before] \in Nat
    BY <1>1, <1>2, SumsAreNat
  <2> QED
    BY <1>4, <2>1, <2>2 DEF upto, before
<1> QED
  BY <1>3, <1>4

(* A set of line numbers has a last one, which a fold over lines begins     *)
(* with.                                                                    *)
LEMMA HasMax ==
    ASSUME NEW n \in Nat, NEW T \in SUBSET (1..n), T # {}
    PROVE  Max(T) \in T /\ \A y \in T : Max(T) >= y
<1> DEFINE Has(m) == T \cap (1..m) # {} =>
                        \E x \in T \cap (1..m) : \A y \in T \cap (1..m) : x >= y
           G == {m \in Nat : Has(m)}
<1>1. 0 \in G
  OBVIOUS
<1>2. ASSUME NEW m \in Nat, m \in G PROVE m + 1 \in G
  <2>1. Has(m)
    BY <1>2
  <2>2. CASE m + 1 \in T
    BY <2>2
  <2>3. CASE m + 1 \notin T
    <3>1. T \cap (1..m+1) = T \cap (1..m)
      BY <2>3
    <3> QED
      BY <2>1, <3>1
  <2> QED
    BY <2>2, <2>3
<1>3. n \in G
  <2> HIDE DEF G
  <2> QED
    BY <1>1, <1>2, NatSetInduction
<1>4. T \cap (1..n) = T
  OBVIOUS
<1>5. \E x \in T : \A y \in T : x >= y
  BY <1>3, <1>4
<1> QED
  BY <1>5 DEF Max

(* A line whose size counts, and what one turn of the loop makes of a line. *)
Counts(row) == row.dev /\ row.size # Junk

Added(total, row) ==
    IF Counts(row) THEN (total + row.size) % Width ELSE total

(* A u64 stays one.                                                         *)
LEMMA AddedType ==
    ASSUME NEW total \in 0..Width-1, NEW row \in Row
    PROVE  Added(total, row) \in 0..Width-1
<1>1. CASE Counts(row)
  <2>1. row.size \in Nat
    BY <1>1, ReportAssumption DEF Counts, Row
  <2>2. total + row.size \in Nat
    BY <2>1, ReportAssumption
  <2>3. (total + row.size) % Width \in 0..Width-1
    BY <2>2, ReportAssumption
  <2> QED
    BY <1>1, <2>3 DEF Added
<1>2. CASE ~Counts(row)
  BY <1>2 DEF Added
<1> QED
  BY <1>1, <1>2

(* return_total_storage is the loop it was translated from: it begins with  *)
(* 0 and goes from line to line.                                            *)
LEMMA TotalByRows ==
    ASSUME NEW n \in Nat, NEW rows \in [1..n -> Row]
    PROVE  \E t \in [0..n -> 0..Width-1] :
              /\ t[0] = 0
              /\ \A k \in 1..n : t[k] = Added(t[k - 1], rows[k])
              /\ return_total_storage(rows) = t[n]
<1> DEFINE D == 1..n
           V == 0..Width-1
           f == [iv \in D \X V |-> Added(iv[2], rows[iv[1]])]
           pick == [T \in SUBSET D |-> Max(T)]
           Body(g, T) == IF T = {} THEN 0
                         ELSE Added(g[T \ {Max(T)}], rows[Max(T)])
           iter == CHOOSE g : g = [T \in SUBSET D |-> Body(g, T)]
<1>1. Chooses(pick, D)
  BY HasMax DEF Chooses
<1>2. IsFiniteSet(D)
  BY FS_Interval
<1>3. 0 \in V /\ f \in [D \X V -> V]
  <2>1. 0 \in V
    BY ReportAssumption
  <2>2. ASSUME NEW iv \in D \X V PROVE Added(iv[2], rows[iv[1]]) \in V
    <3>1. iv[2] \in V /\ rows[iv[1]] \in Row
      OBVIOUS
    <3> QED
      BY <3>1, AddedType
  <2> HIDE DEF V, D
  <2> QED
    BY <2>1, <2>2
<1>4. PICK g \in [SUBSET D -> V] : IsFold(g, D, 0, f, pick)
  <2> HIDE DEF D, V, f, pick
  <2> QED
    BY <1>1, <1>2, <1>3, RecursionOnSubsets
<1>5. ASSUME NEW T \in SUBSET D PROVE g[T] = Body(g, T)
  <2>1. CASE T = {}
    BY <1>4, <2>1 DEF IsFold
  <2>2. CASE T # {}
    <3>1. pick[T] = Max(T) /\ Max(T) \in D
      BY <1>1, <2>2 DEF Chooses
    <3>2. T \ {Max(T)} \in SUBSET D
      OBVIOUS
    <3>3. g[T \ {Max(T)}] \in V
      BY <1>4, <3>2
    <3>4. f[<<Max(T), g[T \ {Max(T)}]>>] = Added(g[T \ {Max(T)}], rows[Max(T)])
      <4>1. <<Max(T), g[T \ {Max(T)}]>> \in D \X V
        BY <3>1, <3>3
      <4> HIDE DEF D, V
      <4> QED
        BY <4>1
    <3>5. g[T] = f[<<pick[T], g[T \ {pick[T]}]>>]
      <4> HIDE DEF D, f, pick
      <4> QED
        BY <1>4, <2>2 DEF IsFold
    <3> HIDE DEF f, pick
    <3> QED
      BY <2>2, <3>1, <3>4, <3>5
  <2> QED
    BY <2>1, <2>2
<1>6. g = [T \in SUBSET D |-> Body(g, T)]
  <2> HIDE DEF Body
  <2> QED
  BY <1>5
<1>7. iter = [T \in SUBSET D |-> Body(iter, T)]
  <2> HIDE DEF D, Body
  <2> QED
    BY <1>6
<1>8. return_total_storage(rows) = iter[D]
  BY DEF return_total_storage, FoldLeft, MapThenFoldSet, Added, Counts
<1> HIDE DEF iter
<1> DEFINE t == [k \in 0..n |-> iter[1..k]]
<1>9. \A k \in 1..n : t[k] = Added(t[k - 1], rows[k])
  <2> SUFFICES ASSUME NEW k \in 1..n PROVE t[k] = Added(t[k - 1], rows[k])
    OBVIOUS
  <2>1. 1..k \in SUBSET D /\ 1..k # {} /\ (1..k) \ {k} = 1..(k-1)
    OBVIOUS
  <2>2. Max(1..k) = k
    <3>1. Max(1..k) \in 1..k /\ \A y \in 1..k : Max(1..k) >= y
      BY <2>1, HasMax
    <3> QED
      BY <3>1
  <2>3. iter[1..k] = Added(iter[1..(k-1)], rows[k])
    <3>1. iter[1..k] = Body(iter, 1..k)
      <4> HIDE DEF Body
      <4> QED
        BY <1>7, <2>1
    <3> QED
      BY <2>1, <2>2, <3>1
  <2>4. t[k] = iter[1..k] /\ t[k-1] = iter[1..(k-1)]
    OBVIOUS
  <2> QED
    BY <2>3, <2>4
<1>10. t[0] = 0
  <2>1. iter[{}] = 0
    BY <1>7
  <2>2. 1..0 = {}
    OBVIOUS
  <2> QED
    BY <2>1, <2>2
<1>11. t \in [0..n -> V]
  <2> DEFINE G == {k \in Nat : k <= n => t[k] \in V}
  <2> HIDE DEF t
  <2>1. 0 \in G
    BY <1>3, <1>10
  <2>2. ASSUME NEW k \in Nat, k \in G PROVE k + 1 \in G
    <3> SUFFICES ASSUME k + 1 <= n PROVE t[k+1] \in V
      OBVIOUS
    <3>1. t[k] \in V
      BY <2>2
    <3>2. k + 1 \in 1..n /\ (k + 1) - 1 = k
      OBVIOUS
    <3>3. t[k+1] = Added(t[k], rows[k+1]) /\ rows[k+1] \in Row
      BY <1>9, <3>2
    <3> QED
      BY <3>1, <3>3, AddedType
  <2>3. Nat \subseteq G
    <3> HIDE DEF G
    <3> QED
      BY <2>1, <2>2, NatSetInduction
  <2>4. \A k \in 0..n : t[k] \in V
    BY <2>3
  <2> QED
    BY <2>4 DEF t
<1>12. t[n] = iter[D]
  OBVIOUS
<1> HIDE DEF t
<1> QED
  BY <1>8, <1>9, <1>10, <1>11, <1>12

(* The space of the /dev/ filesystems df could size, without any bound, and *)
(* the part of it a line has.                                               *)
Space(rows) == MapThenSumSet(LAMBDA i : rows[i].size, Devices(rows))

Size(row) == IF Counts(row) THEN row.size ELSE 0

(* The space of the /dev/ filesystems, which the property sums up in an     *)
(* order nobody knows, can be summed up along the lines as well.            *)
LEMMA SpaceByRows ==
    ASSUME NEW n \in Nat, NEW rows \in [1..n -> Row]
    PROVE  \E s \in [0..n -> Nat] :
              /\ s[0] = 0
              /\ \A k \in 1..n : s[k] = s[k - 1] + Size(rows[k])
              /\ Space(rows) = s[n]
<1> DEFINE D == Devices(rows)
           w == [i \in D |-> rows[i].size]
           f == [iv \in D \X Nat |-> w[iv[1]] + iv[2]]
           pick == [T \in SUBSET D |-> CHOOSE x \in T : TRUE]
           Body(g, T) == IF T = {} THEN 0
                         ELSE rows[CHOOSE x \in T : TRUE].size
                                + g[T \ {CHOOSE x \in T : TRUE}]
           iter == CHOOSE g : g = [T \in SUBSET D |-> Body(g, T)]
<1>1. /\ D = {i \in 1..n : Counts(rows[i])}
      /\ \A i \in D : i \in 1..n /\ rows[i].size \in Nat
  BY ReportAssumption DEF Devices, Counts, Row
<1>2. D \in SUBSET (1..n) /\ IsFiniteSet(D)
  <2>1. D \in SUBSET (1..n)
    BY <1>1
  <2> QED
    BY <2>1, FS_Interval, FS_Subset
<1>3. Chooses(pick, D)
  BY DEF Chooses
<1>4. w \in [D -> Nat] /\ f \in [D \X Nat -> Nat]
  <2>1. w \in [D -> Nat]
    BY <1>1
  <2> HIDE DEF D, w
  <2> QED
    BY <2>1
<1>5. PICK g \in [SUBSET D -> Nat] : IsFold(g, D, 0, f, pick)
  <2> HIDE DEF D, f, pick
  <2> QED
    BY <1>2, <1>3, <1>4, RecursionOnSubsets
<1>6. ASSUME NEW T \in SUBSET D PROVE g[T] = Body(g, T)
  <2>1. CASE T = {}
    BY <1>5, <2>1 DEF IsFold
  <2>2. CASE T # {}
    <3> DEFINE x == CHOOSE x \in T : TRUE
    <3>1. pick[T] = x /\ x \in D /\ T \ {x} \in SUBSET D
      BY <2>2
    <3> HIDE DEF D, x
    <3>2. g[T \ {x}] \in Nat
      BY <1>5, <3>1
    <3>3. f[<<x, g[T \ {x}]>>] = rows[x].size + g[T \ {x}]
      BY <3>1, <3>2
    <3>4. g[T] = f[<<pick[T], g[T \ {pick[T]}]>>]
      <4> HIDE DEF f, pick
      <4> QED
        BY <1>5, <2>2 DEF IsFold
    <3> HIDE DEF f, pick
    <3> QED
      BY <2>2, <3>1, <3>3, <3>4 DEF x
  <2> QED
    BY <2>1, <2>2
<1>7. g = [T \in SUBSET D |-> Body(g, T)]
  <2> HIDE DEF Body
  <2> QED
    BY <1>6
<1>8. iter = [T \in SUBSET D |-> Body(iter, T)]
  <2> HIDE DEF D, Body
  <2> QED
    BY <1>7
<1>9. Space(rows) = iter[D]
  BY DEF Space, MapThenSumSet, MapThenFoldSet
<1> HIDE DEF iter
<1>10. SumsUp(iter, D, w, pick)
  BY <1>8 DEF SumsUp
<1> HIDE DEF D, w, pick, Body, f
<1> DEFINE s == [k \in 0..n |-> iter[D \cap (1..k)]]
<1>11. s \in [0..n -> Nat]
  <2>1. w \in [D -> Nat]
    BY <1>4
  <2>2. \A T \in SUBSET D : iter[T] \in Nat
    BY <1>2, <1>3, <1>10, <2>1, SumsAreNat
  <2> QED
    BY <2>2
<1>12. s[0] = 0
  <2>1. D \cap (1..0) = {}
    OBVIOUS
  <2>2. iter[{}] = 0
    BY <1>10 DEF SumsUp
  <2> QED
    BY <2>1, <2>2
<1>13. s[n] = Space(rows)
  <2>1. D \cap (1..n) = D
    BY <1>2
  <2>2. s[n] = iter[D \cap (1..n)]
    OBVIOUS
  <2> QED
    BY <1>9, <2>1, <2>2
<1>14. ASSUME NEW k \in 1..n PROVE s[k] = s[k - 1] + Size(rows[k])
  <2>1. s[k] = iter[D \cap (1..k)] /\ s[k - 1] = iter[D \cap (1..(k - 1))]
    OBVIOUS
  <2>2. (IF k \in D THEN w[k] ELSE 0) = Size(rows[k])
    BY <1>1 DEF Size, w
  <2>3. iter[D \cap (1..k)] = iter[D \cap (1..(k - 1))]
                                 + (IF k \in D THEN w[k] ELSE 0)
    <3>1. w \in [D -> Nat] /\ D \in SUBSET (1..n)
      BY <1>2, <1>4
    <3>2. SumsUpAlong(iter, D, w, n)
      BY <1>3, <1>10, <3>1, SumAlong
    <3> QED
      BY <3>2 DEF SumsUpAlong
  <2> HIDE DEF s
  <2> QED
    BY <2>1, <2>2, <2>3
<1> HIDE DEF s
<1> QED
  BY <1>11, <1>12, <1>13, <1>14

(* For every table df can print, of any length: what the loop of            *)
(* return_total_storage computes is the space of all /dev/ filesystems df   *)
(* could size, each once, modulo the width of a u64.                        *)
THEOREM TotalIsSpaceOfDevices ==
    ASSUME NEW rows \in Tables
    PROVE  /\ Space(rows) \in Nat
           /\ return_total_storage(rows) = Space(rows) % Width
           /\ return_total_storage(rows) \in 0..Width-1
<1>1. PICK n \in Nat : rows \in [1..n -> Row]
  BY ReportAssumption DEF Tables
<1>2. PICK t \in [0..n -> 0..Width-1] :
         /\ t[0] = 0
         /\ \A k \in 1..n : t[k] = Added(t[k - 1], rows[k])
         /\ return_total_storage(rows) = t[n]
  BY <1>1, TotalByRows
<1>3. PICK s \in [0..n -> Nat] :
         /\ s[0] = 0
         /\ \A k \in 1..n : s[k] = s[k - 1] + Size(rows[k])
         /\ Space(rows) = s[n]
  BY <1>1, SpaceByRows
<1> DEFINE G == {k \in Nat : k <= n => t[k] = s[k] % Width}
<1>4. 0 \in G
  BY <1>2, <1>3, ReportAssumption
<1>5. ASSUME NEW k \in Nat, k \in G PROVE k + 1 \in G
  <2> SUFFICES ASSUME k + 1 <= n PROVE t[k + 1] = s[k + 1] % Width
    OBVIOUS
  <2>1. k \in 0..n /\ k + 1 \in 1..n /\ (k + 1) - 1 = k
    OBVIOUS
  <2>2. t[k] = s[k] % Width /\ s[k] \in Nat
    BY <1>3, <1>5, <2>1
  <2>3. /\ t[k + 1] = Added(t[k], rows[k + 1])
        /\ s[k + 1] = s[k] + Size(rows[k + 1])
    BY <1>2, <1>3, <2>1
  <2>4. rows[k + 1] \in Row
    BY <1>1, <2>1
  <2>5. CASE Counts(rows[k + 1])
    <3>1. rows[k + 1].size \in Nat
      BY <2>4, <2>5, ReportAssumption DEF Counts, Row
    <3>2. t[k + 1] = ((s[k] % Width) + rows[k + 1].size) % Width
      BY <2>2, <2>3, <2>5 DEF Added
    <3>3. s[k + 1] = s[k] + rows[k + 1].size
      BY <2>3, <2>5 DEF Size
    <3> QED
      <4>1. ((s[k] % Width) + rows[k + 1].size) % Width
               = (s[k] + rows[k + 1].size) % Width
        BY <2>2, <3>1, ModAdd, ReportAssumption
      <4> QED
        BY <3>2, <3>3, <4>1
  <2>6. CASE ~Counts(rows[k + 1])
    BY <2>2, <2>3, <2>6 DEF Added, Size
  <2> QED
    BY <2>5, <2>6
<1>6. n \in G
  <2> HIDE DEF G
  <2> QED
    BY <1>4, <1>5, NatSetInduction
<1> QED
  BY <1>2, <1>3, <1>6

(* df may list nothing.                                                     *)
LEMMA EmptyTable == <<>> \in Tables
<1>1. <<>> \in [1..0 -> Row] /\ 0 \in 0..MaxRows
  BY ReportAssumption
<1> QED
  BY <1>1 DEF Tables

(* A report is in the making as long as a request is, and not yet counted;  *)
(* all else are the types.                                                  *)
ReportTypeInv ==
    /\ TypeOK
    /\ step # "idle" => outcome = "none" /\ reports < inits

(* No request leaves the widths and bounds.                                 *)
LEMMA ReportTypeStep == ReportTypeInv /\ [Next]_vars => ReportTypeInv'
<1> SUFFICES ASSUME ReportTypeInv, [Next]_vars PROVE ReportTypeInv'
  OBVIOUS
<1> USE ReportAssumption DEF ReportTypeInv, TypeOK, placeVars, diskVars, End
<1>1. CASE Begin
  BY <1>1, EmptyTable DEF Begin
<1>2. ASSUME NEW p \in Position
      PROVE  f64_to_i32_coordinates(p) \in [lat : I32, lon : I32]
  <2>1. p.lat \in Int /\ p.lon \in Int
    BY DEF Position
  <2> QED
    BY <2>1, ConvertedIsNearest DEF f64_to_i32_coordinates
<1>3. CASE GpsLocates
  BY <1>2, <1>3 DEF GpsLocates
<1>4. CASE GpsFails
  BY <1>4 DEF GpsFails
<1>5. CASE IpLocates
  BY <1>2, <1>5 DEF IpLocates
<1>6. CASE IpFails
  BY <1>6 DEF IpFails
<1>7. CASE MemoryRead
  BY <1>7 DEF MemoryRead
<1>8. CASE MemoryPanics
  BY <1>8 DEF MemoryPanics
<1>9. CASE DiskRead
  <2>1. table' \in Tables /\ disk' \in 0..Width-1
    BY <1>9, TotalIsSpaceOfDevices DEF DiskRead
  <2> QED
    BY <1>9, <2>1 DEF DiskRead
<1>10. CASE DiskPanics
  BY <1>10 DEF DiskPanics
<1>11. CASE SpecsRead
  BY <1>11 DEF SpecsRead
<1>12. CASE SpecsFail
  BY <1>12 DEF SpecsFail
<1>13. CASE UNCHANGED vars
  BY <1>13 DEF vars
<1> QED
  BY <1>1, <1>3, <1>4, <1>5, <1>6, <1>7, <1>8, <1>9, <1>10, <1>11, <1>12,
     <1>13
  DEF Next

(* The first request finds the types right.                                 *)
LEMMA ReportTypeInit == Init => ReportTypeInv
<1> SUFFICES ASSUME Init PROVE ReportTypeInv
  OBVIOUS
<1>1. <<>> \in Tables
  BY EmptyTable
<1>2. [lat |-> 0, lon |-> 0] \in [lat : I32, lon : I32]
  BY ReportAssumption DEF I32
<1> QED
  BY <1>1, <1>2, ReportAssumption DEF Init, ReportTypeInv, TypeOK

(* A request, whatever its readers come to, keeps every field of the report *)
(* in the width it is sent in.                                              *)
THEOREM ReportTypeCorrect == Spec => []TypeOK
<1>1. ReportTypeInv => TypeOK
  BY DEF ReportTypeInv
<1> QED
  BY <1>1, ReportTypeInit, ReportTypeStep, PTL DEF Spec

(* From the reading of df on the disk space is that of its table: Begin     *)
(* empties the table, and what a report tells is its own request's.         *)
DiskInv ==
    /\ ReportTypeInv
    /\ step = "names" \/ outcome = "report" =>
          disk = return_total_storage(table)

(* Only df changes the figure, and with it the table it was made of.        *)
LEMMA DiskStep == DiskInv /\ [Next]_vars => DiskInv'
<1> SUFFICES ASSUME DiskInv, [Next]_vars PROVE DiskInv'
  OBVIOUS
<1> ReportTypeInv'
  BY ReportTypeStep DEF DiskInv
<1> USE DEF DiskInv, placeVars, diskVars, End
<1>1. CASE Begin
  BY <1>1 DEF Begin
<1>2. CASE GpsLocates
  BY <1>2 DEF GpsLocates, ReportTypeInv
<1>3. CASE GpsFails
  BY <1>3 DEF GpsFails, ReportTypeInv
<1>4. CASE IpLocates
  BY <1>4 DEF IpLocates, ReportTypeInv
<1>5. CASE IpFails
  BY <1>5 DEF IpFails
<1>6. CASE MemoryRead
  BY <1>6 DEF MemoryRead, ReportTypeInv
<1>7. CASE MemoryPanics
  BY <1>7 DEF MemoryPanics
<1>8. CASE DiskRead
  BY <1>8 DEF DiskRead
<1>9. CASE DiskPanics
  BY <1>9 DEF DiskPanics
<1>10. CASE SpecsRead
  BY <1>10 DEF SpecsRead
<1>11. CASE SpecsFail
  BY <1>11 DEF SpecsFail
<1>12. CASE UNCHANGED vars
  BY <1>12 DEF vars
<1> QED
  BY <1>1, <1>2, <1>3, <1>4, <1>5, <1>6, <1>7, <1>8, <1>9, <1>10, <1>11,
     <1>12
  DEF Next

(* However long df's table is and whatever the width of the sum: a report   *)
(* tells the space of all its /dev/ filesystems, if the width holds it.     *)
THEOREM DiskIsSumOfDevices == Spec => []ReportedDiskIsSumOfDevices
<1>1. Init => DiskInv
  BY ReportTypeInit DEF Init, DiskInv
<1>2. DiskInv => ReportedDiskIsSumOfDevices
  <2> SUFFICES ASSUME DiskInv, outcome = "report"
               PROVE  IF Space(table) < Width THEN disk = Space(table)
                                              ELSE disk < Width
    BY DEF ReportedDiskIsSumOfDevices, Space
  <2>1. /\ Space(table) \in Nat
        /\ disk = Space(table) % Width /\ disk \in 0..Width-1
    BY TotalIsSpaceOfDevices DEF DiskInv, ReportTypeInv, TypeOK
  <2> QED
    BY <2>1, ReportAssumption
<1> QED
  BY <1>1, <1>2, DiskStep, PTL DEF Spec
================================================================================
