------------------------------ MODULE FileProofs ------------------------------
(***************************************************************************)
(* The files of FileCalls, and tuples, for every text that they may hold:  *)
(* which configuration files are read, and that what is read of them is    *)
(* read again of what is written; MetaImage files: what is made of any     *)
(* header, and that any image is read as it was written; that the          *)
(* projections of a verified configuration are where their header says;    *)
(* and tuples, as text and as the indices of arrays.                       *)
(***************************************************************************)
EXTENDS LauncherProofs

-----------------------------------------------------------------------------
(* What was read after each line                                            *)

Reads(h, lines) ==
  h[0] = Start /\ \A n \in 1 .. Len(lines) : h[n] = ReadLine(h[n - 1], lines[n])

LEMMA LastOfSome ==
  ASSUME NEW n \in Nat, n # 0
  PROVE  Max(1 .. n) = n /\ (1 .. n) \ {Max(1 .. n)} = 1 .. (n - 1)
<1>1. n \in 1 .. n /\ \A y \in 1 .. n : n >= y
  OBVIOUS
<1>2. Max(1 .. n) \in 1 .. n /\ \A y \in 1 .. n : Max(1 .. n) >= y
  BY <1>1 DEF Max
<1>3. Max(1 .. n) = n
  BY <1>1, <1>2
<1> QED
  BY <1>3

(* Induction up to a number.                                                *)
LEMMA UpTo ==
  ASSUME NEW n \in Nat, NEW C \in SUBSET (0 .. n), 0 \in C,
         \A i \in 0 .. n : i # 0 /\ i - 1 \in C => i \in C
  PROVE  C = 0 .. n
<1> DEFINE D == (0 .. n) \ C
<1>1. SUFFICES ASSUME D # {} PROVE FALSE
  BY <1>1
<1>2. D \in SUBSET Nat
  OBVIOUS
<1>3. PICK x \in D : \A y \in D : x <= y
  BY <1>1, <1>2, LeastNatural
<1>4. x \in 0 .. n /\ x # 0 /\ x - 1 \in 0 .. n /\ x - 1 \notin D
  BY <1>3
<1> QED
  BY <1>3, <1>4

LEMMA ReadingExists ==
  ASSUME NEW lines, AreLines(lines)
  PROVE  \E f : ReadsBy(f, lines)
<1> DEFINE n == Len(lines)
           K == KeysIn(lines)
           V == ValuesIn(lines)
           X == PartsRead(K, V)
           g == [p \in X \X (1 .. n) |-> ReadLine(p[1], lines[p[2]])]
<1>1. n \in Nat /\ DOMAIN lines = 1 .. n
  BY ListIs DEF AreLines
<1>2. \A i \in 1 .. n : lines[i].kind \in LineKinds /\ lines[i].key \in K /\ lines[i].value \in V
  BY <1>1 DEF AreLines, KeysIn, ValuesIn
<1> HIDE DEF n, K, V
<1>3. Start \in X
  <2>1. <<>> \in Seq(BranchesOf(K, V))
    BY EmptySeq
  <2> QED
    BY <2>1 DEF Start, PartsRead, TreesOf
<1>4. \A x \in X, i \in 1 .. n : ReadLine(x, lines[i]) \in X
  BY <1>2, ReadLineIs
<1> HIDE DEF X
<1>5. g \in [X \X (1 .. n) -> X] /\ \A x \in X, i \in 1 .. n : g[<<x, i>>] = ReadLine(x, lines[i])
  BY <1>4
<1> HIDE DEF g
<1>6. PICK f : FoldsBy(f, g, Start, 1 .. n)
  BY <1>1, FoldExists
<1>7. \A s \in SUBSET (1 .. n) : f[s] \in X
  BY <1>1, <1>3, <1>5, <1>6, FoldInSet
<1> DEFINE h == [s \in SUBSET (1 .. n) |->
                   IF s = {} THEN Start ELSE ReadLine(f[s \ {Max(s)}], lines[Max(s)])]
<1>8. ASSUME NEW s \in SUBSET (1 .. n) PROVE f[s] = h[s]
  <2>1. CASE s = {}
    BY <1>6, <2>1 DEF FoldsBy
  <2>2. CASE s # {}
    <3>1. Max(s) \in 1 .. n /\ f[s \ {Max(s)}] \in X
      BY <1>1, <1>7, <2>2, MaxIsIn
    <3>2. f[s] = g[<<f[s \ {Max(s)}], Max(s)>>]
      BY <1>6, <2>2 DEF FoldsBy
    <3>3. f[s] = ReadLine(f[s \ {Max(s)}], lines[Max(s)])
      BY <1>5, <3>1, <3>2
    <3> QED
      BY <2>2, <3>3
  <2> QED
    BY <2>1, <2>2
<1>9. f = [s \in SUBSET (1 .. n) |-> f[s]] /\ h = [s \in SUBSET (1 .. n) |-> h[s]]
  BY <1>6 DEF FoldsBy
<1>10. f = h
  <2> HIDE DEF h
  <2> QED
    BY <1>8, <1>9
<1> QED
  BY <1>1, <1>10 DEF ReadsBy

(* read_conf by the lines: what it has read after each, whatever h it is    *)
(* that says so.                                                            *)
LEMMA ReadsIs ==
  ASSUME NEW lines, AreLines(lines)
  PROVE  /\ \E h : Reads(h, lines)
         /\ \A h : Reads(h, lines) =>
              ReadConf(lines) = [outcome |-> h[Len(lines)].outcome,
                                 tree |-> Closed(h[Len(lines)])]
<1> DEFINE n == Len(lines)
           r == CHOOSE f : ReadsBy(f, lines)
           k == [i \in 0 .. n |-> r[1 .. i]]
<1>1. n \in Nat /\ DOMAIN lines = 1 .. n
  BY ListIs DEF AreLines
<1>2. ReadsBy(r, lines)
  BY ReadingExists
<1>3. LET end == r[1 .. n] IN ReadConf(lines) = [outcome |-> end.outcome, tree |-> Closed(end)]
  BY <1>1, ReadConfIs
<1> HIDE DEF r, n
<1>4. r[1 .. 0] = Start
  <2>1. 1 .. 0 = {} /\ {} \in SUBSET (1 .. n)
    OBVIOUS
  <2> QED
    BY <1>1, <1>2, <2>1 DEF ReadsBy
<1>5. ASSUME NEW i \in 1 .. n
      PROVE  r[1 .. i] = ReadLine(r[1 .. (i - 1)], lines[i])
  <2>1. i \in Nat /\ i # 0 /\ 1 .. i \in SUBSET (1 .. n) /\ 1 .. i # {}
    <3> HIDE DEF k
    <3>1. i \in Nat /\ 1 <= i /\ i <= n
      BY <1>1
    <3>2. \A m \in 1 .. i : m \in 1 .. n
      BY <1>1, <3>1
    <3>3. 1 \in 1 .. i
      BY <3>1
    <3> QED
      BY <3>1, <3>2, <3>3
  <2>2. Max(1 .. i) = i /\ (1 .. i) \ {Max(1 .. i)} = 1 .. (i - 1)
    BY <2>1, LastOfSome
  <2>3. r[1 .. i] = ReadLine(r[(1 .. i) \ {Max(1 .. i)}], lines[Max(1 .. i)])
    BY <1>1, <1>2, <2>1 DEF ReadsBy
  <2> QED
    BY <2>2, <2>3
<1>6. Reads(k, lines)
  <2>1. \A i \in 0 .. n : k[i] = r[1 .. i]
    OBVIOUS
  <2>2. 0 \in 0 .. n /\ \A i \in 1 .. n : i \in 0 .. n /\ i - 1 \in 0 .. n
    BY <1>1
  <2> HIDE DEF k
  <2> QED
    BY <1>4, <1>5, <2>1, <2>2 DEF Reads, n
<1>7. ASSUME NEW h, Reads(h, lines) PROVE h[n] = r[1 .. n]
  <2> DEFINE C == {i \in 0 .. n : h[i] = r[1 .. i]}
  <2>1. 0 \in C
    BY <1>1, <1>4, <1>7 DEF Reads
  <2>2. ASSUME NEW i \in 0 .. n, i # 0, i - 1 \in C PROVE i \in C
    <3>1. i \in 1 .. n
      BY <1>1, <2>2
    <3>2. h[i] = ReadLine(h[i - 1], lines[i])
      BY <1>7, <3>1 DEF Reads, n
    <3> QED
      BY <1>5, <2>2, <3>1, <3>2
  <2>3. C = 0 .. n
    <3>1. C \in SUBSET (0 .. n)
      OBVIOUS
    <3> HIDE DEF C
    <3> QED
      BY <1>1, <2>1, <2>2, <3>1, UpTo
  <2>4. n \in C
    BY <1>1, <2>3
  <2> QED
    BY <2>4
<1> QED
  BY <1>3, <1>6, <1>7 DEF n

-----------------------------------------------------------------------------
(* What a file says up to a line                                            *)

KindTo(lines, kind, n) == {i \in 1 .. n : lines[i].kind = kind}

(* The section that a line is in, or 0.                                     *)
SectionAt(lines, i) == Max({0} \cup {j \in KindTo(lines, "section", Len(lines)) : j <= i})

LiveTo(lines, n) ==
  {j \in KindTo(lines, "section", n) :
     \E i \in KindTo(lines, "key", n) : SectionAt(lines, i) = j}
OutsideTo(lines, n) == {i \in KindTo(lines, "key", n) : SectionAt(lines, i) = 0}

KeysOf(lines, S) == {lines[i].key : i \in S}

(* The keys of the section that line n is in, before line n ends.           *)
SiblingsTo(lines, n) ==
  {i \in KindTo(lines, "key", n) : SectionAt(lines, i) = SectionAt(lines, n)}

SoundTo(lines, n) ==
  /\ KindTo(lines, "wrong", n) = {}
  /\ \A i, j \in KindTo(lines, "key", n) :
       i < j /\ SectionAt(lines, i) = SectionAt(lines, j) => lines[i].key # lines[j].key
  /\ \A j \in KindTo(lines, "section", n) :
       \A i \in LiveTo(lines, n) \cup OutsideTo(lines, n) :
         i < j => lines[i].key # lines[j].key

LEMMA SectionAtIs ==
  ASSUME NEW lines, Len(lines) \in Nat, NEW n \in 0 .. Len(lines)
  PROVE  /\ SectionAt(lines, n) \in {0} \cup KindTo(lines, "section", n)
         /\ \A j \in KindTo(lines, "section", n) : j <= SectionAt(lines, n)
<1> DEFINE S == {0} \cup {j \in KindTo(lines, "section", Len(lines)) : j <= n}
           T == {n - j : j \in S}
<1>1. S \subseteq 0 .. n /\ 0 \in S
  BY DEF KindTo
<1>2. S = {0} \cup KindTo(lines, "section", n)
  BY DEF KindTo
<1>3. T \in SUBSET Nat /\ T # {}
  BY <1>1
<1>4. PICK m \in S : \A y \in T : n - m <= y
  BY <1>3, LeastNatural
<1>5. \A y \in S : m >= y
  <2>1. \A y \in S : n - y \in T
    OBVIOUS
  <2>2. \A y \in S : n - m <= n - y
    BY <1>4, <2>1
  <2> HIDE DEF S, T
  <2> QED
    BY <1>1, <2>2
<1>6. Max(S) \in S /\ \A y \in S : Max(S) >= y
  BY <1>5 DEF Max
<1>7. SectionAt(lines, n) = Max(S)
  BY DEF SectionAt
<1> HIDE DEF S
<1>8. Max(S) \in 0 .. n
  BY <1>1, <1>6
<1>9. \A j \in KindTo(lines, "section", n) : j \in S /\ j \in Int
  BY <1>2 DEF KindTo
<1> QED
  BY <1>2, <1>6, <1>7, <1>8, <1>9

LEMMA SectionAtNext ==
  ASSUME NEW lines, Len(lines) \in Nat, NEW n \in 1 .. Len(lines)
  PROVE  SectionAt(lines, n) = IF lines[n].kind = "section" THEN n
                               ELSE SectionAt(lines, n - 1)
<1> DEFINE a == SectionAt(lines, n)
           b == SectionAt(lines, n - 1)
<1>1. /\ a \in {0} \cup KindTo(lines, "section", n)
      /\ \A j \in KindTo(lines, "section", n) : j <= a
  BY SectionAtIs
<1>2. n - 1 \in 0 .. Len(lines)
  OBVIOUS
<1>3. /\ b \in {0} \cup KindTo(lines, "section", n - 1)
      /\ \A j \in KindTo(lines, "section", n - 1) : j <= b
  BY <1>2, SectionAtIs
<1> HIDE DEF a, b
<1>4. CASE lines[n].kind = "section"
  <2>1. n \in KindTo(lines, "section", n)
    BY <1>4 DEF KindTo
  <2>2. a \in 0 .. n /\ n <= a
    BY <1>1, <2>1 DEF KindTo
  <2> QED
    BY <1>4, <2>2 DEF a
<1>5. CASE lines[n].kind # "section"
  <2>1. KindTo(lines, "section", n) = KindTo(lines, "section", n - 1)
    BY <1>5 DEF KindTo
  <2>2. a \in 0 .. n /\ b \in 0 .. n
    BY <1>1, <1>3 DEF KindTo
  <2>3. a <= b /\ b <= a
    BY <1>1, <1>3, <2>1, <2>2
  <2> QED
    BY <1>5, <2>2, <2>3 DEF a, b
<1> QED
  BY <1>4, <1>5

LEMMA KindNext ==
  ASSUME NEW lines, NEW n \in Nat, n # 0, NEW kind
  PROVE  KindTo(lines, kind, n) = KindTo(lines, kind, n - 1)
                                    \cup (IF lines[n].kind = kind THEN {n} ELSE {})
BY DEF KindTo

(* What a line adds.                                                        *)
LEMMA NothingNext ==
  ASSUME NEW lines, Len(lines) \in Nat, NEW n \in 1 .. Len(lines),
         lines[n].kind = "nothing"
  PROVE  /\ SectionAt(lines, n) = SectionAt(lines, n - 1)
         /\ KindTo(lines, "key", n) = KindTo(lines, "key", n - 1)
         /\ LiveTo(lines, n) = LiveTo(lines, n - 1)
         /\ OutsideTo(lines, n) = OutsideTo(lines, n - 1)
         /\ SoundTo(lines, n) <=> SoundTo(lines, n - 1)
<1>1. SectionAt(lines, n) = SectionAt(lines, n - 1)
  BY SectionAtNext
<1>2. \A k : KindTo(lines, k, n) = KindTo(lines, k, n - 1)
                                      \cup (IF lines[n].kind = k THEN {n} ELSE {})
  BY KindNext
<1>3. /\ KindTo(lines, "key", n) = KindTo(lines, "key", n - 1)
      /\ KindTo(lines, "section", n) = KindTo(lines, "section", n - 1)
      /\ KindTo(lines, "wrong", n) = KindTo(lines, "wrong", n - 1)
  BY <1>2
<1>4. LiveTo(lines, n) = LiveTo(lines, n - 1) /\ OutsideTo(lines, n) = OutsideTo(lines, n - 1)
  BY Zenon, <1>3 DEF LiveTo, OutsideTo
<1> QED
  BY <1>1, <1>3, <1>4 DEF SoundTo

LEMMA WrongNext ==
  ASSUME NEW lines, Len(lines) \in Nat, NEW n \in 1 .. Len(lines),
         lines[n].kind = "wrong"
  PROVE  ~SoundTo(lines, n)
BY DEF SoundTo, KindTo

LEMMA SectionNext ==
  ASSUME NEW lines, Len(lines) \in Nat, NEW n \in 1 .. Len(lines),
         lines[n].kind = "section"
  PROVE  /\ SectionAt(lines, n) = n
         /\ SiblingsTo(lines, n) = {}
         /\ LiveTo(lines, n) = LiveTo(lines, n - 1)
         /\ OutsideTo(lines, n) = OutsideTo(lines, n - 1)
         /\ SoundTo(lines, n)
              <=> SoundTo(lines, n - 1)
                    /\ lines[n].key \notin KeysOf(lines, LiveTo(lines, n - 1)
                                                           \cup OutsideTo(lines, n - 1))
<1> DEFINE U == LiveTo(lines, n - 1) \cup OutsideTo(lines, n - 1)
<1>1. SectionAt(lines, n) = n
  BY SectionAtNext
<1>0. \A k : KindTo(lines, k, n) = KindTo(lines, k, n - 1)
                                      \cup (IF lines[n].kind = k THEN {n} ELSE {})
  BY KindNext
<1>2. /\ KindTo(lines, "key", n) = KindTo(lines, "key", n - 1)
      /\ KindTo(lines, "section", n) = KindTo(lines, "section", n - 1) \cup {n}
      /\ KindTo(lines, "wrong", n) = KindTo(lines, "wrong", n - 1)
  BY <1>0
<1>3. ASSUME NEW i \in KindTo(lines, "key", n) PROVE SectionAt(lines, i) < n /\ SectionAt(lines, i) \in Nat
  <2>1. i \in 1 .. n - 1
    BY <1>2, <1>3 DEF KindTo
  <2>2. i \in 0 .. Len(lines)
    BY <2>1
  <2>3. SectionAt(lines, i) \in {0} \cup KindTo(lines, "section", i)
    BY <2>2, SectionAtIs
  <2> QED
    BY <2>1, <2>3 DEF KindTo
<1>4. SiblingsTo(lines, n) = {}
  BY <1>1, <1>3 DEF SiblingsTo
<1>5. LiveTo(lines, n) = LiveTo(lines, n - 1)
  BY <1>2, <1>3 DEF LiveTo
<1>6. OutsideTo(lines, n) = OutsideTo(lines, n - 1)
  BY <1>2 DEF OutsideTo
<1>7. \A i \in U : i \in 1 .. n - 1
  BY DEF LiveTo, OutsideTo, KindTo
<1>8. \A j \in KindTo(lines, "section", n - 1) : j \in 1 .. n - 1
  BY DEF KindTo
<1>9. SoundTo(lines, n) <=> SoundTo(lines, n - 1) /\ \A i \in U : lines[i].key # lines[n].key
  <2>1. LiveTo(lines, n) \cup OutsideTo(lines, n) = U
    BY <1>5, <1>6
  <2>2. (\A j \in KindTo(lines, "section", n) : \A i \in U : i < j => lines[i].key # lines[j].key)
          <=> /\ \A j \in KindTo(lines, "section", n - 1) : \A i \in U :
                   i < j => lines[i].key # lines[j].key
              /\ \A i \in U : lines[i].key # lines[n].key
    <3> HIDE DEF U
    <3>1. \A i \in U : i < n
      BY <1>7
    <3> QED
      BY <1>2, <3>1
  <2> HIDE DEF U
  <2>3. LiveTo(lines, n - 1) \cup OutsideTo(lines, n - 1) = U
    BY DEF U
  <2> QED
    BY <1>2, <2>1, <2>2, <2>3 DEF SoundTo
<1> QED
  BY <1>1, <1>4, <1>5, <1>6, <1>9 DEF KeysOf

LEMMA KeyNext ==
  ASSUME NEW lines, Len(lines) \in Nat, NEW n \in 1 .. Len(lines),
         lines[n].kind = "key"
  PROVE  LET c == SectionAt(lines, n - 1) IN
         /\ SectionAt(lines, n) = c
         /\ SiblingsTo(lines, n) = SiblingsTo(lines, n - 1) \cup {n}
         /\ LiveTo(lines, n) = LiveTo(lines, n - 1) \cup (IF c = 0 THEN {} ELSE {c})
         /\ OutsideTo(lines, n) = OutsideTo(lines, n - 1) \cup (IF c = 0 THEN {n} ELSE {})
         /\ c = 0 => LiveTo(lines, n) = {} /\ OutsideTo(lines, n - 1) = SiblingsTo(lines, n - 1)
         /\ SoundTo(lines, n)
              <=> SoundTo(lines, n - 1)
                    /\ lines[n].key \notin KeysOf(lines, SiblingsTo(lines, n - 1))
<1> DEFINE c == SectionAt(lines, n - 1)
           K(m) == KindTo(lines, "key", m)
           S(m) == KindTo(lines, "section", m)
           at(i) == SectionAt(lines, i)
           U(m) == LiveTo(lines, m) \cup OutsideTo(lines, m)
<1>0. \A k : KindTo(lines, k, n) = KindTo(lines, k, n - 1)
                                      \cup (IF lines[n].kind = k THEN {n} ELSE {})
  BY KindNext
<1>1. /\ K(n) = K(n - 1) \cup {n}
      /\ S(n) = S(n - 1)
      /\ KindTo(lines, "wrong", n) = KindTo(lines, "wrong", n - 1)
  BY <1>0
<1>2. at(n) = c
  BY SectionAtNext
<1>3. c \in {0} \cup S(n - 1) /\ \A j \in S(n - 1) : j <= c
  <2>1. n - 1 \in 0 .. Len(lines)
    OBVIOUS
  <2> QED
    BY <2>1, SectionAtIs
<1>4. SiblingsTo(lines, n) = {i \in K(n) : at(i) = at(n)}
      /\ SiblingsTo(lines, n - 1) = {i \in K(n - 1) : at(i) = c}
  BY DEF SiblingsTo
<1>5. /\ \A m : LiveTo(lines, m) = {j \in S(m) : \E i \in K(m) : at(i) = j}
      /\ \A m : OutsideTo(lines, m) = {i \in K(m) : at(i) = 0}
  BY Zenon DEF LiveTo, OutsideTo
<1>6. \A m : SoundTo(lines, m) <=>
         /\ KindTo(lines, "wrong", m) = {}
         /\ \A i, j \in K(m) : i < j /\ at(i) = at(j) => lines[i].key # lines[j].key
         /\ \A j \in S(m) : \A i \in U(m) : i < j => lines[i].key # lines[j].key
  BY Zenon DEF SoundTo
<1>7. (\A i \in K(n - 1) : i \in 1 .. n - 1) /\ (\A i \in S(n - 1) : i \in 1 .. n - 1)
  BY DEF KindTo
<1> HIDE DEF K, S, at, c
<1>8. SiblingsTo(lines, n) = SiblingsTo(lines, n - 1) \cup {n}
  BY <1>1, <1>2, <1>4
<1>9. LiveTo(lines, n) = LiveTo(lines, n - 1) \cup (IF c = 0 THEN {} ELSE {c})
  <2>1. LiveTo(lines, n) = {j \in S(n - 1) : \E i \in K(n - 1) \cup {n} : at(i) = j}
    BY <1>1, <1>5
  <2>2. 0 \notin S(n - 1)
    BY <1>7
  <2> QED
    BY <1>2, <1>3, <1>5, <2>1, <2>2
<1>10. OutsideTo(lines, n) = OutsideTo(lines, n - 1) \cup (IF c = 0 THEN {n} ELSE {})
  BY <1>1, <1>2, <1>5
<1>11. ASSUME c = 0 PROVE S(n - 1) = {}
  BY <1>3, <1>7, <1>11
<1>12. c = 0 => LiveTo(lines, n) = {} /\ OutsideTo(lines, n - 1) = SiblingsTo(lines, n - 1)
  <2> SUFFICES ASSUME c = 0
               PROVE  LiveTo(lines, n) = {} /\ OutsideTo(lines, n - 1) = SiblingsTo(lines, n - 1)
    OBVIOUS
  <2>1. LiveTo(lines, n) = {}
    <3>1. LiveTo(lines, n) = {j \in S(n) : \E i \in K(n) : at(i) = j}
      BY <1>5
    <3>2. S(n) = {}
      BY <1>1, <1>11
    <3> QED
      BY <3>1, <3>2
  <2>2. OutsideTo(lines, n - 1) = {i \in K(n - 1) : at(i) = c}
    BY <1>5
  <2> QED
    BY <1>4, <2>1, <2>2
<1>13. (\A i, j \in K(n) : i < j /\ at(i) = at(j) => lines[i].key # lines[j].key)
         <=> /\ \A i, j \in K(n - 1) : i < j /\ at(i) = at(j) => lines[i].key # lines[j].key
             /\ \A i \in SiblingsTo(lines, n - 1) : lines[i].key # lines[n].key
  <2>1. \A i \in K(n - 1) : i < n /\ ~(n < i) /\ ~(n < n)
    BY <1>7
  <2>2. \A i \in K(n - 1) : i \in SiblingsTo(lines, n - 1) <=> at(i) = at(n)
    BY <1>2, <1>4
  <2>3. \A i \in SiblingsTo(lines, n - 1) : i \in K(n - 1)
    BY <1>4
  <2>4. ASSUME \A i, j \in K(n) : i < j /\ at(i) = at(j) => lines[i].key # lines[j].key,
               NEW i \in SiblingsTo(lines, n - 1)
        PROVE  lines[i].key # lines[n].key
    <3>1. i \in K(n) /\ n \in K(n) /\ i < n /\ at(i) = at(n)
      BY <1>1, <2>1, <2>2, <2>3, <2>4
    <3> QED
      BY <2>4, <3>1
  <2>5. ASSUME \A i, j \in K(n - 1) : i < j /\ at(i) = at(j) => lines[i].key # lines[j].key,
               \A i \in SiblingsTo(lines, n - 1) : lines[i].key # lines[n].key,
               NEW i \in K(n), NEW j \in K(n), i < j, at(i) = at(j)
        PROVE  lines[i].key # lines[j].key
    <3>1. n \in Nat /\ \A k \in K(n) : k \in K(n - 1) \/ k = n
      BY <1>1
    <3>2. i \in K(n - 1)
      BY <2>1, <2>5, <3>1
    <3> QED
      BY <2>2, <2>5, <3>1, <3>2
  <2>6. \A i \in K(n - 1) : i \in K(n)
    BY <1>1
  <2> QED
    BY <2>4, <2>5, <2>6
<1>14. (\A j \in S(n) : \A i \in U(n) : i < j => lines[i].key # lines[j].key)
         <=> (\A j \in S(n - 1) : \A i \in U(n - 1) : i < j => lines[i].key # lines[j].key)
  <2>1. CASE c = 0
    BY <1>1, <1>11, <2>1
  <2>2. CASE c # 0
    <3>1. U(n) = U(n - 1) \cup {c}
      BY <1>9, <1>10, <2>2
    <3>2. \A j \in S(n - 1) : ~(c < j)
      BY <1>3, <1>7
    <3> HIDE DEF U
    <3> QED
      BY <1>1, <3>1, <3>2
  <2> QED
    BY <2>1, <2>2
<1> HIDE DEF U
<1>15. SoundTo(lines, n)
         <=> SoundTo(lines, n - 1) /\ \A i \in SiblingsTo(lines, n - 1) : lines[i].key # lines[n].key
  BY <1>1, <1>6, <1>13, <1>14
<1> QED
  BY <1>2, <1>8, <1>9, <1>10, <1>12, <1>15 DEF KeysOf, c, at

-----------------------------------------------------------------------------
(* Lists, at their end                                                      *)

LEMMA AppendedIs ==
  ASSUME NEW E, NEW e \in Seq(E), NEW x \in E
  PROVE  /\ Append(e, x) \in Seq(E)
         /\ Append(e, x) # <<>>
         /\ Len(Append(e, x)) = Len(e) + 1
         /\ Front(Append(e, x)) = e
         /\ Last(Append(e, x)) = x
         /\ Keys(Append(e, x)) = Keys(e) \cup {x.key}
<1> DEFINE u == Append(e, x)
           n == Len(e)
<1>1. /\ u \in Seq(E) /\ u # <<>> /\ Len(u) = n + 1
      /\ \A i \in 1 .. n : u[i] = e[i]
      /\ u[n + 1] = x
  BY AppendProperties
<1>2. n \in Nat /\ DOMAIN e = 1 .. n /\ DOMAIN u = 1 .. Len(u)
  BY <1>1, LenProperties
<1> HIDE DEF u, n
<1>3. Last(u) = x
  BY <1>1 DEF Last
<1>4. Keys(u) = Keys(e) \cup {x.key}
  BY <1>1, <1>2 DEF Keys
<1>5. Front(u) = e
  <2>1. Front(u) = SubSeq(u, 1, n)
    BY <1>1, <1>2 DEF Front
  <2>2. \A i \in 1 .. n : u[i] \in E
    BY <1>1, <1>2, ElementOfSeq DEF n
  <2>3. /\ SubSeq(u, 1, n) \in Seq(E)
        /\ Len(SubSeq(u, 1, n)) = n
        /\ \A i \in 1 .. n : SubSeq(u, 1, n)[i] = u[i]
    <3>1. 1 \in Int /\ n \in Int
      BY <1>2
    <3> QED
      BY <1>2, <2>2, <3>1, SubSeqProperties
  <2> DEFINE f == SubSeq(u, 1, n)
  <2>4. f \in Seq(E) /\ Len(f) = Len(e) /\ \A i \in 1 .. Len(f) : f[i] = e[i]
    BY <1>1, <2>3 DEF n
  <2> HIDE DEF f
  <2>5. f = e
    BY <2>4, SeqEqual
  <2> QED
    BY <2>1, <2>5 DEF f
<1> QED
  BY <1>1, <1>3, <1>4, <1>5 DEF u, n

LEMMA FrontAndLast ==
  ASSUME NEW E, NEW e \in Seq(E), e # <<>>
  PROVE  /\ Front(e) \in Seq(E)
         /\ Last(e) \in E
         /\ e = Append(Front(e), Last(e))
<1> DEFINE n == Len(e)
           f == Front(e)
<1>1. n \in Nat /\ n # 0 /\ n \in 1 .. n
  BY EmptySeq, LenProperties
<1>2. \A i \in 1 .. n : e[i] \in E
  BY ElementOfSeq
<1>3. Last(e) \in E
  BY <1>1, <1>2 DEF Last
<1>4. /\ f \in Seq(E) /\ Len(f) = n - 1
      /\ \A i \in 1 .. n - 1 : f[i] = e[i]
  <2>1. 1 \in Int /\ n - 1 \in Int /\ \A i \in 1 .. n - 1 : e[i] \in E
    BY <1>1, <1>2
  <2> HIDE DEF n
  <2>2. /\ SubSeq(e, 1, n - 1) \in Seq(E)
        /\ Len(SubSeq(e, 1, n - 1)) = n - 1
        /\ \A i \in 1 .. n - 1 : SubSeq(e, 1, n - 1)[i] = e[i]
    BY <1>1, <2>1, SubSeqProperties
  <2> QED
    BY <2>2 DEF Front, n
<1> DEFINE u == Append(f, Last(e))
<1> HIDE DEF f
<1>5. /\ u \in Seq(E) /\ Len(u) = n
      /\ \A i \in 1 .. n - 1 : u[i] = e[i]
      /\ u[n] = e[n]
  <2>1. /\ u \in Seq(E) /\ Len(u) = Len(f) + 1
        /\ \A i \in 1 .. Len(f) : u[i] = f[i]
        /\ u[Len(f) + 1] = Last(e)
    BY <1>3, <1>4, AppendProperties
  <2> QED
    BY <1>1, <1>4, <2>1 DEF Last
<1> HIDE DEF u
<1>6. \A i \in 1 .. Len(e) : e[i] = u[i]
  BY <1>1, <1>5
<1>7. e = u
  BY <1>5, <1>6, SeqEqual
<1> QED
  BY <1>3, <1>4, <1>7 DEF u, f

-----------------------------------------------------------------------------
(* What a line does to what was read                                        *)

Entry(line) == [key |-> line.key, value |-> line.value, children |-> <<>>]
Leaf(line) == [key |-> line.key, value |-> line.value]

Siblings(s) == IF s.open THEN Last(s.tree).children ELSE s.tree

(* A line that is read: neither wrong nor of a name that is taken.          *)
Fits(s, line) ==
  /\ line.kind # "wrong"
  /\ line.kind = "section" => line.key \notin Keys(Closed(s))
  /\ line.kind = "key" => line.key \notin Keys(Siblings(s))

LEMMA EntryIs ==
  ASSUME NEW K, NEW V, NEW line, line.key \in K, line.value \in V
  PROVE  Entry(line) \in BranchesOf(K, V) /\ Leaf(line) \in LeavesOf(K, V)
<1>1. <<>> \in Seq(LeavesOf(K, V))
  BY EmptySeq
<1> QED
  BY <1>1 DEF Entry, Leaf, BranchesOf, LeavesOf

LEMMA ReadsAll ==
  ASSUME NEW K, NEW V, NEW s \in PartsRead(K, V), NEW line,
         line.kind \in LineKinds, s.outcome = "ok"
  PROVE  /\ ReadLine(s, line).outcome = "ok" <=> Fits(s, line)
         /\ line.kind = "nothing" => ReadLine(s, line) = s
         /\ line.kind = "section" /\ Fits(s, line) =>
              ReadLine(s, line) = [outcome |-> "ok", open |-> TRUE,
                                   tree |-> Append(Closed(s), Entry(line))]
         /\ line.kind = "key" /\ Fits(s, line) /\ ~s.open =>
              ReadLine(s, line) = [outcome |-> "ok", open |-> FALSE,
                                   tree |-> Append(s.tree, Entry(line))]
<1> DEFINE thrown == [s EXCEPT !.outcome = "throws"]
<1>1. s = [outcome |-> "ok", tree |-> s.tree, open |-> s.open] /\ s.open \in BOOLEAN
  BY DEF PartsRead
<1>2. thrown.outcome = "throws"
  BY <1>1
<1>3. CASE line.kind = "nothing"
  BY <1>1, <1>3 DEF ReadLine, Fits
<1>4. CASE line.kind = "section"
  <2> DEFINE u == Append(Closed(s), Entry(line))
             a == [s EXCEPT !.open = TRUE, !.tree = u]
  <2>1. ReadLine(s, line) = IF line.key \in Keys(Closed(s)) THEN thrown ELSE a
    BY <1>4 DEF ReadLine, Entry
  <2>3. a = [s EXCEPT !.open = TRUE, !.tree = u]
    OBVIOUS
  <2> HIDE DEF u, a
  <2>2. a = [outcome |-> "ok", open |-> TRUE, tree |-> u]
    BY <1>1, <2>3
  <2> QED
    BY <1>2, <1>4, <2>1, <2>2 DEF Fits, u
<1>5. CASE line.kind = "key" /\ ~s.open
  <2> DEFINE u == Append(s.tree, Entry(line))
             a == [s EXCEPT !.tree = Append(@, Entry(line))]
  <2>1. ReadLine(s, line) = IF line.key \in Keys(s.tree) THEN thrown ELSE a
    BY <1>5 DEF ReadLine, Entry
  <2>2. a = [s EXCEPT !.tree = u]
    BY <1>1
  <2> HIDE DEF u, a
  <2>3. a = [outcome |-> "ok", open |-> FALSE, tree |-> u]
    BY <1>1, <1>5, <2>2
  <2> QED
    BY <1>2, <1>5, <2>1, <2>3 DEF Fits, Siblings, u
<1>6. CASE line.kind = "key" /\ s.open
  <2> DEFINE a == [s EXCEPT !.tree[Len(s.tree)].children = Append(@, Leaf(line))]
  <2>1. ReadLine(s, line) = IF line.key \in Keys(Last(s.tree).children) THEN thrown ELSE a
    BY <1>6 DEF ReadLine, Leaf
  <2>2. a.outcome = "ok"
    BY <1>1
  <2> HIDE DEF a
  <2> QED
    BY <1>2, <1>6, <2>1, <2>2 DEF Fits, Siblings
<1>7. CASE line.kind = "wrong"
  BY <1>2, <1>7 DEF ReadLine, Fits
<1> QED
  BY <1>1, <1>3, <1>4, <1>5, <1>6, <1>7 DEF LineKinds

(* A key of the section that is open.                                       *)
WithLeaf(tree, line) ==
  Append(Front(tree), [Last(tree) EXCEPT !.children = Append(@, Leaf(line))])

LEMMA ReadsInside ==
  ASSUME NEW K, NEW V, NEW s \in PartsRead(K, V), NEW line, s.outcome = "ok",
         s.open, line.kind = "key", Fits(s, line), line.key \in K, line.value \in V
  PROVE  ReadLine(s, line) =
           [outcome |-> "ok", open |-> TRUE, tree |-> WithLeaf(s.tree, line)]
<1> DEFINE E == BranchesOf(K, V)
           L == LeavesOf(K, V)
           n == Len(s.tree)
           y == s.tree[n]
           ch == Append(y.children, Leaf(line))
           x == [y EXCEPT !.children = ch]
           u == [s.tree EXCEPT ![n] = x]
           f == Front(s.tree)
           a == [s EXCEPT !.tree[n].children = Append(@, Leaf(line))]
<1>1. /\ s = [outcome |-> "ok", tree |-> s.tree, open |-> TRUE]
      /\ s.tree \in Seq(E) /\ s.tree # <<>>
  BY DEF PartsRead, TreesOf
<1>2. n \in Nat /\ n # 0 /\ n \in 1 .. n
  <2> HIDE DEF E
  <2> QED
    BY <1>1, LenProperties, EmptySeq
<1>3. y \in E
  <2> HIDE DEF E
  <2> QED
    BY <1>1, <1>2, ElementOfSeq
<1>4. x \in E
  <2>1. y.children \in Seq(L) /\ Leaf(line) \in L
    BY <1>3, EntryIs DEF BranchesOf
  <2>2. ch \in Seq(L)
    <3> HIDE DEF L, y
    <3> QED
      BY <2>1, AppendProperties
  <2>3. x = [y EXCEPT !.children = ch]
    OBVIOUS
  <2> HIDE DEF y, ch, x
  <2> QED
    BY <1>3, <2>2, <2>3 DEF BranchesOf
<1>5. ReadLine(s, line) = a
  BY DEF ReadLine, Fits, Siblings, Leaf
<1>6. a = [s EXCEPT !.tree = u]
  BY <1>1
<1>7. Last(s.tree) = y /\ [Last(s.tree) EXCEPT !.children = Append(@, Leaf(line))] = x
  BY DEF Last
<1> HIDE DEF x, a, E, n
<1>8. /\ f \in Seq(E) /\ s.tree = Append(f, y)
  BY <1>1, <1>7, FrontAndLast
<1> HIDE DEF f
<1>9. /\ Len(f) \in Nat /\ n = Len(f) + 1
      /\ \A i \in 1 .. Len(f) : s.tree[i] = f[i]
  <2>1. y \in E
    BY <1>3
  <2> HIDE DEF y
  <2> QED
    BY <1>8, <2>1, AppendProperties, LenProperties DEF n
<1>10. u = Append(f, x)
  <2> DEFINE v == Append(f, x)
  <2>1. /\ v \in Seq(E) /\ Len(v) = n
        /\ \A i \in 1 .. Len(f) : v[i] = f[i]
        /\ v[n] = x
    BY <1>4, <1>8, <1>9, AppendProperties
  <2>2. /\ u \in Seq(E) /\ Len(u) = n
        /\ \A i \in 1 .. n : u[i] = IF i = n THEN x ELSE s.tree[i]
    BY <1>1, <1>2, <1>4, ExceptSeq DEF n
  <2> HIDE DEF u, v
  <2>3. \A i \in 1 .. Len(u) : u[i] = v[i]
    <3>1. \A i \in 1 .. n : i = n \/ i \in 1 .. Len(f)
      BY <1>9
    <3> QED
      BY <1>9, <2>1, <2>2, <3>1
  <2>4. Len(u) = Len(v)
    BY <2>1, <2>2
  <2>5. u = v
    BY <2>1, <2>2, <2>3, <2>4, SeqEqual
  <2> QED
    BY <2>5 DEF v
<1> HIDE DEF u
<1>11. a = [outcome |-> "ok", open |-> TRUE, tree |-> u]
  BY <1>1, <1>6
<1>12. u = WithLeaf(s.tree, line)
  BY <1>7, <1>10 DEF WithLeaf, f
<1> QED
  BY <1>5, <1>11, <1>12

-----------------------------------------------------------------------------
(* The trees that a file can say                                            *)

Distinct(e) == \A i, j \in DOMAIN e : e[i].key = e[j].key => i = j

(* A section has no value of its own, and its keys are distinct.            *)
IsSection(y) == y.value = Word("") /\ Distinct(y.children)

(* Keys, and after the p keys the sections, none empty; no name twice.      *)
Whole(t, p) ==
  /\ p \in 0 .. Len(t)
  /\ Distinct(t)
  /\ \A i \in 1 .. p : t[i].children = <<>>
  /\ \A i \in p + 1 .. Len(t) : t[i].children # <<>> /\ IsSection(t[i])

(* What was read: only the last section may be empty, and while it is open. *)
Made(s) ==
  IF s.open
  THEN /\ \E p : Whole(Front(s.tree), p)
       /\ Last(s.tree).key \notin Keys(Front(s.tree))
       /\ IsSection(Last(s.tree))
  ELSE Whole(s.tree, Len(s.tree))

LEMMA DistinctMore ==
  ASSUME NEW E, NEW e \in Seq(E), NEW x \in E, Distinct(e), x.key \notin Keys(e)
  PROVE  Distinct(Append(e, x))
<1> DEFINE u == Append(e, x)
           n == Len(e)
<1>1. /\ u \in Seq(E) /\ Len(u) = n + 1
      /\ \A i \in 1 .. n : u[i] = e[i]
      /\ u[n + 1] = x
  BY AppendProperties
<1>2. n \in Nat /\ DOMAIN e = 1 .. n /\ DOMAIN u = 1 .. Len(u)
  BY <1>1, LenProperties
<1> HIDE DEF u, n
<1>3. \A i \in 1 .. n : e[i].key # x.key
  BY <1>2 DEF Keys
<1>4. ASSUME NEW i \in DOMAIN u, NEW j \in DOMAIN u, u[i].key = u[j].key PROVE i = j
  <2>1. (i \in 1 .. n \/ i = n + 1) /\ (j \in 1 .. n \/ j = n + 1)
    BY <1>1, <1>2
  <2>2. CASE i \in 1 .. n /\ j \in 1 .. n
    BY <1>1, <1>2, <1>4, <2>2 DEF Distinct
  <2>3. CASE i \in 1 .. n /\ j = n + 1
    BY <1>1, <1>3, <1>4, <2>3
  <2>4. CASE i = n + 1 /\ j \in 1 .. n
    BY <1>1, <1>3, <1>4, <2>4
  <2> QED
    BY <2>1, <2>2, <2>3, <2>4
<1> QED
  BY <1>4 DEF Distinct, u

(* Another key, or another section that is not empty.                       *)
LEMMA WholeMore ==
  ASSUME NEW E, NEW t \in Seq(E), NEW y \in E, NEW p, Whole(t, p), y.key \notin Keys(t)
  PROVE  /\ p = Len(t) /\ y.children = <<>> => Whole(Append(t, y), p + 1)
         /\ y.children # <<>> /\ IsSection(y) => Whole(Append(t, y), p)
<1> DEFINE u == Append(t, y)
           n == Len(t)
<1>1. /\ u \in Seq(E) /\ Len(u) = n + 1
      /\ \A i \in 1 .. n : u[i] = t[i]
      /\ u[n + 1] = y
  BY AppendProperties
<1>2. n \in Nat /\ p \in 0 .. n
  BY LenProperties DEF Whole
<1>3. Distinct(u)
  BY DistinctMore DEF Whole
<1>4. /\ \A i \in 1 .. p : t[i].children = <<>>
      /\ \A i \in p + 1 .. n : t[i].children # <<>> /\ IsSection(t[i])
  BY DEF Whole
<1> HIDE DEF u, n
<1>5. ASSUME p = n, y.children = <<>> PROVE Whole(u, p + 1)
  <2>1. p + 1 \in 0 .. Len(u) /\ \A i \in 1 .. p + 1 : u[i].children = <<>>
    BY <1>1, <1>2, <1>4, <1>5
  <2>2. p + 1 + 1 .. Len(u) = {}
    BY <1>1, <1>2, <1>5
  <2> QED
    BY <1>3, <2>1, <2>2 DEF Whole
<1>6. ASSUME y.children # <<>>, IsSection(y) PROVE Whole(u, p)
  <2>1. p \in 0 .. Len(u) /\ \A i \in 1 .. p : u[i].children = <<>>
    BY <1>1, <1>2, <1>4
  <2>2. \A i \in p + 1 .. Len(u) : i \in p + 1 .. n \/ i = n + 1
    BY <1>1, <1>2
  <2>3. \A i \in p + 1 .. n : i \in 1 .. n
    BY <1>2
  <2>4. \A i \in p + 1 .. Len(u) : u[i].children # <<>> /\ IsSection(u[i])
    BY <1>1, <1>4, <1>6, <2>2, <2>3
  <2> QED
    BY <1>3, <2>1, <2>4 DEF Whole
<1> QED
  BY <1>5, <1>6 DEF u, n

LEMMA EmptyIsMade == Made(Start) /\ Whole(<<>>, 0)
<1>1. Len(<<>>) = 0 /\ DOMAIN <<>> = {}
  BY EmptySeq
<1>2. Whole(<<>>, 0)
  BY <1>1 DEF Whole, Distinct
<1>3. Made(Start) <=> Whole(<<>>, Len(<<>>))
  BY DEF Start, Made
<1> QED
  BY <1>1, <1>2, <1>3

(* What is left at an end of what was made is whole.                        *)
LEMMA ClosedIsWhole ==
  ASSUME NEW K, NEW V, NEW s \in PartsRead(K, V), Made(s)
  PROVE  /\ \E p : Whole(Closed(s), p)
         /\ ~s.open => Closed(s) = s.tree
         /\ s.open /\ Last(s.tree).children = <<>> => Closed(s) = Front(s.tree)
         /\ s.open /\ Last(s.tree).children # <<>> => Closed(s) = s.tree
<1> DEFINE E == BranchesOf(K, V)
<1>1. s.tree \in Seq(E) /\ (s.open => s.tree # <<>>)
  BY DEF PartsRead, TreesOf
<1> HIDE DEF E
<1>2. CASE ~s.open
  BY <1>2 DEF Closed, Made
<1>3. CASE s.open
  <2> DEFINE y == Last(s.tree)
             f == Front(s.tree)
  <2>1. f \in Seq(E) /\ y \in E /\ s.tree = Append(f, y)
    BY <1>1, <1>3, FrontAndLast
  <2>2. PICK p : Whole(f, p)
    BY <1>3 DEF Made
  <2>3. y.key \notin Keys(f) /\ IsSection(y)
    BY <1>3 DEF Made
  <2>4. Closed(s) = IF y.children = <<>> THEN f ELSE s.tree
    BY <1>3 DEF Closed
  <2> HIDE DEF y, f
  <2>5. y.children # <<>> => Whole(s.tree, p)
    BY <2>1, <2>2, <2>3, WholeMore
  <2>6. \E q : Whole(Closed(s), q)
    BY <2>2, <2>4, <2>5
  <2> QED
    BY <1>3, <2>4, <2>6 DEF y, f
<1> QED
  BY <1>2, <1>3

(* Of a section, a file says no more than its name.                         *)
Plain(line) == line.kind = "section" => line.value = Word("")

LEMMA ReadsSection ==
  ASSUME NEW K, NEW V, NEW s \in PartsRead(K, V), NEW line,
         line.kind \in LineKinds, s.outcome = "ok", Fits(s, line)
  PROVE  line.kind = "section" =>
           ReadLine(s, line) = [outcome |-> "ok", open |-> TRUE,
                                tree |-> Append(Closed(s), Entry(line))]
<1>1. line.kind = "section" /\ Fits(s, line) =>
        ReadLine(s, line) = [outcome |-> "ok", open |-> TRUE,
                             tree |-> Append(Closed(s), Entry(line))]
  BY ReadsAll
<1> QED
  BY <1>1

LEMMA MadeNext ==
  ASSUME NEW K, NEW V, NEW s \in PartsRead(K, V), NEW line,
         line.kind \in LineKinds, line.key \in K, line.value \in V,
         Plain(line),
         s.outcome = "ok", Made(s), Fits(s, line)
  PROVE  Made(ReadLine(s, line))
<1>0. line.kind = "section" =>
        ReadLine(s, line) = [outcome |-> "ok", open |-> TRUE,
                             tree |-> Append(Closed(s), Entry(line))]
  BY ReadsSection
<1> DEFINE E == BranchesOf(K, V)
           L == LeavesOf(K, V)
           r == ReadLine(s, line)
<1>1. /\ s.tree \in Seq(E) /\ (s.open => s.tree # <<>>) /\ Closed(s) \in Seq(E)
  BY ClosedIs DEF PartsRead, TreesOf
<1>2. Entry(line) \in E /\ Leaf(line) \in L
  BY EntryIs
<1> HIDE DEF r
<1>3. CASE line.kind = "nothing"
  <2>1. r = s
    BY <1>3, ReadsAll DEF r
  <2> QED
    BY <2>1 DEF r
<1>4. CASE line.kind = "section"
  <2> DEFINE c == Closed(s)
             x == Entry(line)
             u == Append(c, x)
  <2>1. r = [outcome |-> "ok", open |-> TRUE, tree |-> u]
    BY <1>0, <1>4 DEF r
  <2>2. PICK p : Whole(c, p)
    BY ClosedIsWhole
  <2>3. x.key \notin Keys(c)
    BY <1>4 DEF Fits, Entry
  <2>4. IsSection(x)
    <3>1. x.value = Word("") /\ x.children = <<>>
      BY <1>4 DEF Entry, Plain
    <3> HIDE DEF x
    <3> QED
      BY <3>1, EmptyIsMade DEF IsSection, Whole
  <2> HIDE DEF c, x, E
  <2>5. Front(u) = c /\ Last(u) = x
    BY <1>1, <1>2, AppendedIs DEF c, x
  <2> HIDE DEF u
  <2>6. r.open /\ r.tree = u
    BY <2>1
  <2>7. Made(r)
    BY <2>2, <2>3, <2>4, <2>5, <2>6 DEF Made
  <2> QED
    BY <2>7 DEF r
<1>5. CASE line.kind = "key" /\ ~s.open
  <2> DEFINE x == Entry(line)
             u == Append(s.tree, x)
  <2>1. r = [outcome |-> "ok", open |-> FALSE, tree |-> u]
    BY <1>5, ReadsAll DEF r
  <2>2. Whole(s.tree, Len(s.tree))
    BY <1>5 DEF Made
  <2>3. x.key \notin Keys(s.tree) /\ x.children = <<>>
    BY <1>5 DEF Fits, Siblings, Entry
  <2> HIDE DEF x, E
  <2>4. Whole(u, Len(s.tree) + 1)
    BY <1>1, <1>2, <2>2, <2>3, WholeMore DEF x
  <2>5. Len(u) = Len(s.tree) + 1
    BY <1>1, <1>2, AppendedIs DEF x
  <2> HIDE DEF u
  <2>6. ~r.open /\ r.tree = u
    BY <2>1
  <2>7. Made(r)
    BY <2>4, <2>5, <2>6 DEF Made
  <2> QED
    BY <2>7 DEF r
<1>6. CASE line.kind = "key" /\ s.open
  <2> DEFINE f == Front(s.tree)
             y == Last(s.tree)
             ch == Append(y.children, Leaf(line))
             x == [y EXCEPT !.children = ch]
             u == Append(f, x)
  <2>1. r = [outcome |-> "ok", open |-> TRUE, tree |-> u]
    BY <1>6, ReadsInside DEF r, WithLeaf
  <2>2. f \in Seq(E) /\ y \in E
    <3> HIDE DEF E
    <3> QED
      BY <1>1, <1>6, FrontAndLast
  <2>3. y.children \in Seq(L)
    BY <2>2 DEF BranchesOf
  <2>4. Leaf(line).key \notin Keys(y.children)
    BY <1>6 DEF Fits, Siblings, Leaf
  <2>5. IsSection(y) /\ y.key \notin Keys(f) /\ \E p : Whole(f, p)
    BY <1>6 DEF Made
  <2> HIDE DEF f, y, L
  <2>6. ch \in Seq(L) /\ Distinct(ch)
    BY <1>2, <2>3, <2>4, <2>5, DistinctMore, AppendedIs DEF IsSection
  <2> HIDE DEF ch
  <2>7. x \in E /\ x.key = y.key /\ x.value = y.value /\ x.children = ch
    BY <2>2, <2>6 DEF BranchesOf, L
  <2> HIDE DEF x, E
  <2>8. Front(u) = f /\ Last(u) = x
    BY <2>2, <2>7, AppendedIs
  <2> HIDE DEF u
  <2>9. r.open /\ r.tree = u
    BY <2>1
  <2>10. IsSection(x) /\ x.key \notin Keys(f)
    BY <2>5, <2>6, <2>7 DEF IsSection
  <2>11. Made(r)
    BY <2>5, <2>8, <2>9, <2>10 DEF Made
  <2> QED
    BY <2>11 DEF r
<1> QED
  BY <1>3, <1>4, <1>5, <1>6 DEF LineKinds, Fits

-----------------------------------------------------------------------------
(* What was read is what the file says                                      *)

Says(lines, n, s) ==
  /\ SectionAt(lines, n) # 0 <=> s.open
  /\ Keys(Siblings(s)) = KeysOf(lines, SiblingsTo(lines, n))
  /\ Keys(Closed(s)) = KeysOf(lines, LiveTo(lines, n) \cup OutsideTo(lines, n))
  /\ s.open => Last(s.tree).key = lines[SectionAt(lines, n)].key

LEMMA KeysOfMore ==
  ASSUME NEW lines, NEW S, NEW i, NEW T, T = S \cup {i}
  PROVE  KeysOf(lines, T) = KeysOf(lines, S) \cup {lines[i].key}
BY DEF KeysOf

(* The next line fits what was read if and only if the file is sound with   *)
(* it.                                                                      *)
LEMMA FitsIs ==
  ASSUME NEW lines, Len(lines) \in Nat, NEW n \in 1 .. Len(lines), NEW s,
         lines[n].kind \in LineKinds, s.open \in BOOLEAN, Says(lines, n - 1, s)
  PROVE  SoundTo(lines, n) <=> SoundTo(lines, n - 1) /\ Fits(s, lines[n])
<1>1. CASE lines[n].kind = "nothing"
  BY <1>1, NothingNext DEF Fits
<1>2. CASE lines[n].kind = "wrong"
  BY <1>2, WrongNext DEF Fits
<1>3. CASE lines[n].kind = "section"
  BY <1>3, SectionNext DEF Fits, Says
<1>4. CASE lines[n].kind = "key"
  BY <1>4, KeyNext DEF Fits, Says
<1> QED
  BY <1>1, <1>2, <1>3, <1>4 DEF LineKinds

LEMMA ReadsOutside ==
  ASSUME NEW K, NEW V, NEW s \in PartsRead(K, V), NEW line,
         line.kind \in LineKinds, s.outcome = "ok", Fits(s, line)
  PROVE  line.kind = "key" /\ ~s.open =>
           ReadLine(s, line) = [outcome |-> "ok", open |-> FALSE,
                                tree |-> Append(s.tree, Entry(line))]
<1>1. line.kind = "key" /\ Fits(s, line) /\ ~s.open =>
        ReadLine(s, line) = [outcome |-> "ok", open |-> FALSE,
                             tree |-> Append(s.tree, Entry(line))]
  BY ReadsAll
<1> QED
  BY <1>1

LEMMA FitsOrThrows ==
  ASSUME NEW K, NEW V, NEW s \in PartsRead(K, V), NEW line,
         line.kind \in LineKinds, s.outcome = "ok"
  PROVE  ReadLine(s, line).outcome = "ok" <=> Fits(s, line)
BY ReadsAll

IsLine(lines, n, line) == line = lines[n]

(* If the next line fits, what was read with it is what the file says.      *)
LEMMA SaysNext ==
  ASSUME NEW lines, Len(lines) \in Nat, NEW n \in 1 .. Len(lines), NEW line, IsLine(lines, n, line),
         NEW K, NEW V, NEW s \in PartsRead(K, V),
         line.kind \in LineKinds, line.key \in K, line.value \in V,
         s.outcome = "ok", Made(s), Fits(s, line), Says(lines, n - 1, s)
  PROVE  Says(lines, n, ReadLine(s, line))
<1>9. line.kind = "section" =>
        ReadLine(s, line) = [outcome |-> "ok", open |-> TRUE,
                                 tree |-> Append(Closed(s), Entry(line))]
  BY ReadsSection
<1>10. line.kind = "key" /\ ~s.open =>
         ReadLine(s, line) = [outcome |-> "ok", open |-> FALSE,
                                  tree |-> Append(s.tree, Entry(line))]
  BY ReadsOutside
<1>11. ASSUME line.kind = "key", s.open
       PROVE  ReadLine(s, line) =
                [outcome |-> "ok", open |-> TRUE, tree |-> WithLeaf(s.tree, line)]
  BY <1>11, ReadsInside
<1>12. ASSUME line.kind = "key"
       PROVE  /\ SectionAt(lines, n) = SectionAt(lines, n - 1)
              /\ SiblingsTo(lines, n) = SiblingsTo(lines, n - 1) \cup {n}
              /\ SectionAt(lines, n - 1) = 0 =>
                   /\ LiveTo(lines, n) = {}
                   /\ OutsideTo(lines, n) = SiblingsTo(lines, n)
              /\ SectionAt(lines, n - 1) # 0 =>
                   /\ LiveTo(lines, n) = LiveTo(lines, n - 1) \cup {SectionAt(lines, n - 1)}
                   /\ OutsideTo(lines, n) = OutsideTo(lines, n - 1)
  <2> DEFINE c == SectionAt(lines, n - 1)
  <2>1. /\ SectionAt(lines, n) = c
        /\ SiblingsTo(lines, n) = SiblingsTo(lines, n - 1) \cup {n}
        /\ LiveTo(lines, n) = LiveTo(lines, n - 1) \cup (IF c = 0 THEN {} ELSE {c})
        /\ OutsideTo(lines, n) = OutsideTo(lines, n - 1) \cup (IF c = 0 THEN {n} ELSE {})
        /\ c = 0 => LiveTo(lines, n) = {} /\ OutsideTo(lines, n - 1) = SiblingsTo(lines, n - 1)
    <3>1. lines[n].kind = "key"
      BY <1>12 DEF IsLine
    <3> QED
      BY Zenon, <3>1, KeyNext
  <2> HIDE DEF c
  <2>2. CASE c = 0
    BY <2>1, <2>2 DEF c
  <2>3. CASE c # 0
    BY <2>1, <2>3 DEF c
  <2> QED
    BY <2>2, <2>3
<1> DEFINE E == BranchesOf(K, V)
           L == LeavesOf(K, V)
           r == ReadLine(s, line)
           live(m) == LiveTo(lines, m) \cup OutsideTo(lines, m)
           c == SectionAt(lines, n - 1)
<1>1. /\ s.tree \in Seq(E) /\ (s.open => s.tree # <<>>) /\ Closed(s) \in Seq(E)
      /\ s.open \in BOOLEAN
  BY ClosedIs DEF PartsRead, TreesOf
<1>2. Entry(line) \in E /\ Leaf(line) \in L
  BY EntryIs
<1>3. Entry(line).key = line.key /\ Entry(line).children = <<>> /\ Leaf(line).key = line.key
  BY DEF Entry, Leaf
<1>4. /\ c # 0 <=> s.open
      /\ Keys(Siblings(s)) = KeysOf(lines, SiblingsTo(lines, n - 1))
      /\ Keys(Closed(s)) = KeysOf(lines, live(n - 1))
      /\ s.open => Last(s.tree).key = lines[c].key
  BY DEF Says
<1> HIDE DEF r, c
<1>5. CASE line.kind = "nothing"
  <2>1. r = s
    BY <1>5, ReadsAll DEF r
  <2>2. /\ SectionAt(lines, n) = c
        /\ KindTo(lines, "key", n) = KindTo(lines, "key", n - 1)
        /\ live(n) = live(n - 1)
    BY <1>5, NothingNext DEF c, IsLine
  <2>3. SiblingsTo(lines, n) = SiblingsTo(lines, n - 1)
    BY <2>2 DEF SiblingsTo, c
  <2> HIDE DEF live
  <2>4. Says(lines, n, s)
    BY <1>4, <2>2, <2>3 DEF Says, live
  <2> QED
    BY <2>1, <2>4 DEF r
<1>6. CASE line.kind = "section"
  <2> DEFINE d == Closed(s)
             x == Entry(line)
             u == Append(d, x)
  <2>1. r = [outcome |-> "ok", open |-> TRUE, tree |-> u]
    BY <1>6, <1>9 DEF r
  <2>2. SectionAt(lines, n) = n /\ SiblingsTo(lines, n) = {} /\ live(n) = live(n - 1)
    BY <1>6, SectionNext DEF IsLine
  <2>3. Keys(d) = KeysOf(lines, live(n))
    BY <1>4, <2>2
  <2> HIDE DEF d, x, E, live
  <2>4. Front(u) = d /\ Last(u) = x
    BY <1>1, <1>2, AppendedIs DEF d, x
  <2> HIDE DEF u
  <2>5. r.open /\ r.tree = u
    BY <2>1
  <2>6. Siblings(r) = <<>> /\ Closed(r) = d
    BY <1>3, <2>4, <2>5 DEF Siblings, Closed, x
  <2>7. Keys(Siblings(r)) = KeysOf(lines, SiblingsTo(lines, n))
    BY <2>2, <2>6, EmptyList DEF KeysOf
  <2>8. n # 0 /\ Last(r.tree).key = lines[n].key
    BY <1>3, <2>4, <2>5 DEF x, IsLine
  <2>9. Says(lines, n, r)
    BY <2>2, <2>3, <2>5, <2>6, <2>7, <2>8 DEF Says, live
  <2> QED
    BY <2>9 DEF r
<1>7. CASE line.kind = "key" /\ ~s.open
  <2> DEFINE x == Entry(line)
             u == Append(s.tree, x)
  <2>1. r = [outcome |-> "ok", open |-> FALSE, tree |-> u]
    BY <1>7, <1>10 DEF r
  <2>2. c = 0
    BY <1>4, <1>7
  <2>3. /\ SectionAt(lines, n) = 0
        /\ SiblingsTo(lines, n) = SiblingsTo(lines, n - 1) \cup {n}
        /\ LiveTo(lines, n) = {}
        /\ OutsideTo(lines, n) = SiblingsTo(lines, n)
    BY <1>7, <1>12, <2>2 DEF c
  <2>4. live(n) = SiblingsTo(lines, n)
    BY <2>3
  <2> HIDE DEF x, E, live
  <2>5. Keys(u) = Keys(s.tree) \cup {x.key}
    BY <1>1, <1>2, AppendedIs DEF x
  <2>6. Keys(s.tree) = KeysOf(lines, SiblingsTo(lines, n - 1))
    BY <1>4, <1>7 DEF Siblings
  <2>11. KeysOf(lines, SiblingsTo(lines, n))
           = KeysOf(lines, SiblingsTo(lines, n - 1)) \cup {line.key}
    BY <2>3, KeysOfMore DEF IsLine
  <2>7. Keys(u) = KeysOf(lines, SiblingsTo(lines, n))
    BY <1>3, <2>5, <2>6, <2>11 DEF x
  <2> HIDE DEF u
  <2>8. ~r.open /\ r.tree = u
    BY <2>1
  <2>9. Siblings(r) = u /\ Closed(r) = u
    BY <2>8 DEF Siblings, Closed
  <2>10. Says(lines, n, r)
    BY <2>3, <2>4, <2>7, <2>8, <2>9 DEF Says, live
  <2> QED
    BY <2>10 DEF r
<1>8. CASE line.kind = "key" /\ s.open
  <2> DEFINE f == Front(s.tree)
             y == Last(s.tree)
             ch == Append(y.children, Leaf(line))
             x == [y EXCEPT !.children = ch]
             u == Append(f, x)
  <2>1. r = [outcome |-> "ok", open |-> TRUE, tree |-> u]
    BY <1>8, <1>11 DEF r, WithLeaf
  <2>2. c # 0
    BY <1>4, <1>8
  <2>3. /\ SectionAt(lines, n) = c
        /\ SiblingsTo(lines, n) = SiblingsTo(lines, n - 1) \cup {n}
        /\ LiveTo(lines, n) = LiveTo(lines, n - 1) \cup {c}
        /\ OutsideTo(lines, n) = OutsideTo(lines, n - 1)
    BY <1>8, <1>12, <2>2 DEF c
  <2>4. live(n) = live(n - 1) \cup {c}
    BY <2>3
  <2>5. f \in Seq(E) /\ y \in E /\ s.tree = Append(f, y)
    <3> HIDE DEF E
    <3> QED
      BY <1>1, <1>8, FrontAndLast
  <2>6. y.children \in Seq(L)
    BY <2>5 DEF BranchesOf
  <2>7. Closed(s) = IF y.children = <<>> THEN f ELSE s.tree
    BY <1>8 DEF Closed
  <2>8. y.key = lines[c].key /\ Keys(y.children) = KeysOf(lines, SiblingsTo(lines, n - 1))
    BY <1>4, <1>8 DEF Siblings
  <2> HIDE DEF f, y, L, live
  <2>9. ch \in Seq(L) /\ ch # <<>> /\ Keys(ch) = Keys(y.children) \cup {line.key}
    BY <1>2, <1>3, <2>6, AppendedIs
  <2> HIDE DEF ch
  <2>10. x \in E /\ x.key = y.key /\ x.children = ch
    BY <2>5, <2>9 DEF BranchesOf, L
  <2> HIDE DEF x, E
  <2>11. Front(u) = f /\ Last(u) = x /\ Keys(u) = Keys(f) \cup {x.key}
    BY <2>5, <2>10, AppendedIs
  <2>12. Keys(s.tree) = Keys(f) \cup {y.key}
    BY <2>5, AppendedIs
  <2> HIDE DEF u
  <2>13. r.open /\ r.tree = u
    BY <2>1
  <2>14. Siblings(r) = ch /\ Closed(r) = u
    BY <2>9, <2>10, <2>11, <2>13 DEF Siblings, Closed
  <2>15. Keys(u) = Keys(Closed(s)) \cup {lines[c].key}
    BY <2>7, <2>8, <2>10, <2>11, <2>12
  <2>16. Keys(u) = KeysOf(lines, live(n))
    <3> DEFINE a == live(n)
               b == live(n - 1)
    <3>2. a = b \cup {c}
      BY <2>4
    <3> HIDE DEF a, b
    <3>1. KeysOf(lines, a) = KeysOf(lines, b) \cup {lines[c].key}
      BY <3>2 DEF KeysOf
    <3> USE DEF a, b
    <3> QED
      BY <1>4, <2>15, <3>1
  <2>17. Keys(ch) = KeysOf(lines, SiblingsTo(lines, n))
    <3>1. KeysOf(lines, SiblingsTo(lines, n))
            = KeysOf(lines, SiblingsTo(lines, n - 1)) \cup {line.key}
      BY <2>3, KeysOfMore DEF IsLine
    <3> QED
      BY <2>8, <2>9, <3>1
  <2>18. Last(r.tree).key = lines[c].key
    BY <2>8, <2>10, <2>11, <2>13
  <2>19. Says(lines, n, r)
    BY <2>2, <2>3, <2>13, <2>14, <2>16, <2>17, <2>18 DEF Says, live
  <2> QED
    BY <2>19 DEF r
<1> QED
  BY <1>5, <1>6, <1>7, <1>8 DEF LineKinds, Fits

LEMMA StartSays ==
  ASSUME NEW lines, Len(lines) \in Nat
  PROVE  Says(lines, 0, Start) /\ SoundTo(lines, 0)
<1>1. \A k : KindTo(lines, k, 0) = {}
  BY DEF KindTo
<1>2. SectionAt(lines, 0) = 0
  BY <1>1, SectionAtIs
<1>3. SiblingsTo(lines, 0) = {} /\ LiveTo(lines, 0) = {} /\ OutsideTo(lines, 0) = {}
  BY <1>1 DEF SiblingsTo, LiveTo, OutsideTo
<1>4. KeysOf(lines, {}) = {}
  BY DEF KeysOf
<1>5. Siblings(Start) = <<>> /\ Closed(Start) = <<>> /\ ~Start.open
  BY DEF Start, Siblings, Closed
<1> QED
  BY <1>1, <1>2, <1>3, <1>4, <1>5, EmptyList DEF Says, SoundTo

ReadSoFar(h, lines, K, V, i) ==
  /\ h[i].outcome = "ok" <=> SoundTo(lines, i)
  /\ h[i].outcome = "ok" =>
       h[i] \in PartsRead(K, V) /\ Made(h[i]) /\ Says(lines, i, h[i])

LEMMA ThrownStays ==
  ASSUME NEW s, NEW line, s.outcome # "ok"
  PROVE  ReadLine(s, line) = s
BY DEF ReadLine

LEMMA UnsoundNext ==
  ASSUME NEW lines, Len(lines) \in Nat, NEW n \in 1 .. Len(lines),
         lines[n].kind \in LineKinds, ~SoundTo(lines, n - 1)
  PROVE  ~SoundTo(lines, n)
<1>1. CASE lines[n].kind = "nothing"
  BY <1>1, NothingNext
<1>2. CASE lines[n].kind = "wrong"
  BY <1>2, WrongNext
<1>3. CASE lines[n].kind = "section"
  BY <1>3, SectionNext
<1>4. CASE lines[n].kind = "key"
  BY <1>4, KeyNext
<1> QED
  BY <1>1, <1>2, <1>3, <1>4 DEF LineKinds

PlainSections(lines) == \A i \in DOMAIN lines : Plain(lines[i])

(* read_conf reads a file if and only if it is sound, and what it then has  *)
(* read is whole.                                                           *)
LEMMA ReadsTheSound ==
  ASSUME NEW lines, AreLines(lines),
         PlainSections(lines)
  PROVE  LET read == ReadConf(lines)
             V == ValuesIn(lines) \cup {Word("")}
         IN  /\ read.outcome = "ok" <=> SoundTo(lines, Len(lines))
             /\ read.outcome = "ok" => /\ read.tree \in TreesOf(KeysIn(lines), V)
                                       /\ \E p : Whole(read.tree, p)
<1> DEFINE n == Len(lines)
           K == KeysIn(lines)
           V == ValuesIn(lines) \cup {Word("")}
           X == PartsRead(K, V)
<1>1. n \in Nat /\ DOMAIN lines = 1 .. n
  BY ListIs DEF AreLines
<1>2. \A i \in 1 .. n : /\ lines[i].kind \in LineKinds /\ lines[i].key \in K
                        /\ lines[i].value \in V
                        /\ Plain(lines[i])
  BY <1>1 DEF AreLines, KeysIn, ValuesIn, PlainSections
<1>3. PICK h : Reads(h, lines)
  BY ReadsIs
<1>4. ReadConf(lines) = [outcome |-> h[n].outcome, tree |-> Closed(h[n])]
  BY <1>3, ReadsIs
<1> DEFINE C == {i \in 0 .. n : ReadSoFar(h, lines, K, V, i)}
<1> HIDE DEF K, V
<1>5. ReadSoFar(h, lines, K, V, 0)
  <2>1. Start \in X
    <3>1. <<>> \in Seq(BranchesOf(K, V))
      BY EmptySeq
    <3> QED
      BY <3>1 DEF Start, PartsRead, TreesOf
  <2>2. Start.outcome = "ok"
    BY DEF Start
  <2>3. h[0] = Start
    BY <1>3 DEF Reads
  <2> QED
    BY <1>1, <2>1, <2>2, <2>3, StartSays, EmptyIsMade DEF ReadSoFar
<1>6. ASSUME NEW i \in 1 .. n, ReadSoFar(h, lines, K, V, i - 1) PROVE ReadSoFar(h, lines, K, V, i)
  <2> DEFINE s == h[i - 1]
             line == lines[i]
  <2>1. h[i] = ReadLine(s, line)
    BY <1>3, <1>6 DEF Reads
  <2>2. CASE s.outcome # "ok"
    <3>1. ReadLine(s, line) = s
      BY <2>2, ThrownStays
    <3>2. ~SoundTo(lines, i - 1)
      BY <1>6, <2>2 DEF ReadSoFar
    <3>3. line.kind \in LineKinds
      BY <1>2
    <3>4. ~SoundTo(lines, i)
      BY <1>1, <3>2, <3>3, UnsoundNext
    <3> QED
      BY <2>1, <2>2, <3>1, <3>4 DEF ReadSoFar
  <2>3. CASE s.outcome = "ok"
    <3>1. s \in X /\ Made(s) /\ Says(lines, i - 1, s) /\ SoundTo(lines, i - 1)
      BY <1>6, <2>3 DEF ReadSoFar
    <3>2. s.open \in BOOLEAN
      BY <3>1 DEF PartsRead
    <3>3. /\ line.kind \in LineKinds /\ line.key \in K /\ line.value \in V
          /\ Plain(line)
      BY <1>2
    <3> HIDE DEF C
    <3>4. SoundTo(lines, i) <=> Fits(s, line)
      BY <1>1, <3>1, <3>2, <3>3, FitsIs
    <3>5. h[i].outcome = "ok" <=> Fits(s, line)
      BY <2>1, <2>3, <3>1, <3>3, FitsOrThrows
    <3>6. h[i] \in X
      BY <2>1, <3>1, <3>3, ReadLineIs
    <3>8. Fits(s, line) => Made(h[i])
      BY <2>1, <2>3, <3>1, <3>3, MadeNext
    <3>9. Fits(s, line) => Says(lines, i, h[i])
      BY <1>1, <2>1, <2>3, <3>1, <3>3, SaysNext DEF IsLine
    <3> QED
      BY <3>4, <3>5, <3>6, <3>8, <3>9 DEF ReadSoFar
  <2> QED
    BY <2>2, <2>3
<1>7. C = 0 .. n
  <2>1. 0 \in C
    BY <1>1, <1>5
  <2>2. ASSUME NEW i \in 0 .. n, i # 0, i - 1 \in C PROVE i \in C
    <3>1. i \in 1 .. n /\ ReadSoFar(h, lines, K, V, i - 1)
      BY <1>1, <2>2
    <3> QED
      BY <1>6, <3>1
  <2>3. C \in SUBSET (0 .. n)
    OBVIOUS
  <2> HIDE DEF C
  <2> QED
    BY <1>1, <2>1, <2>2, <2>3, UpTo
<1>8. ReadSoFar(h, lines, K, V, n)
  BY <1>1, <1>7
<1>9. h[n].outcome = "ok" => Closed(h[n]) \in TreesOf(K, V) /\ \E p : Whole(Closed(h[n]), p)
  BY <1>8, ClosedIs, ClosedIsWhole DEF ReadSoFar
<1>10. h[n].outcome = "ok" <=> SoundTo(lines, n)
  BY <1>8 DEF ReadSoFar
<1> DEFINE read == ReadConf(lines)
<1>11. read.outcome = h[n].outcome /\ read.tree = Closed(h[n])
  BY <1>4
<1> HIDE DEF read
<1>12. /\ read.outcome = "ok" <=> SoundTo(lines, n)
       /\ read.outcome = "ok" => read.tree \in TreesOf(K, V) /\ \E p : Whole(read.tree, p)
  BY <1>9, <1>10, <1>11
<1> QED
  BY Zenon, <1>12 DEF K, V, read, n

-----------------------------------------------------------------------------
(* Lists of lists, and the reading of one list after another                *)

FlattensBy(f, seqs) ==
  f = [i \in 1 .. Len(seqs) |-> IF i = 1 THEN seqs[i] ELSE f[i - 1] \o seqs[i]]

LEMMA FlattenBy ==
  ASSUME NEW seqs
  PROVE  FlattenSeq(seqs) = IF Len(seqs) = 0 THEN seqs
                            ELSE (CHOOSE f : FlattensBy(f, seqs))[Len(seqs)]
BY Zenon DEF FlattenSeq, FlattensBy

LEMMA FlattensExists ==
  ASSUME NEW E, NEW seqs \in Seq(Seq(E))
  PROVE  \E f : FlattensBy(f, seqs)
<1> DEFINE n == Len(seqs)
           X == Seq(E)
           g == [p \in X \X (1 .. n) |-> p[1] \o seqs[p[2]]]
<1>1. n \in Nat /\ \A i \in 1 .. n : seqs[i] \in X
  BY LenProperties, ElementOfSeq
<1>2. <<>> \in X
  BY EmptySeq
<1>3. ASSUME NEW x \in X, NEW y \in X PROVE x \o y \in X /\ <<>> \o y = y
  BY ConcatProperties, ConcatEmptySeq
<1> HIDE DEF X, n
<1>4. g \in [X \X (1 .. n) -> X] /\ \A x \in X, i \in 1 .. n : g[<<x, i>>] = x \o seqs[i]
  BY <1>1, <1>3
<1> HIDE DEF g
<1>5. PICK f : FoldsBy(f, g, <<>>, 1 .. n)
  BY <1>1, FoldExists
<1>6. \A s \in SUBSET (1 .. n) : f[s] \in X
  BY <1>1, <1>2, <1>4, <1>5, FoldInSet
<1> DEFINE h == [i \in 1 .. n |-> f[1 .. i]]
<1>7. ASSUME NEW i \in 1 .. n PROVE f[1 .. i] = f[1 .. (i - 1)] \o seqs[i]
  <2>1. i \in Nat /\ i # 0 /\ 1 .. i \in SUBSET (1 .. n) /\ 1 .. i # {}
        /\ 1 .. (i - 1) \in SUBSET (1 .. n)
    <3>1. \A j \in 1 .. i : j \in 1 .. n
      BY <1>1
    <3>2. \A j \in 1 .. (i - 1) : j \in 1 .. n
      BY <1>1
    <3>3. i \in Nat /\ i # 0 /\ i \in 1 .. i
      BY <1>1
    <3> QED
      BY <3>1, <3>2, <3>3
  <2>2. Max(1 .. i) = i /\ (1 .. i) \ {Max(1 .. i)} = 1 .. (i - 1)
    BY <2>1, LastOfSome
  <2>3. f[1 .. i] = g[<<f[(1 .. i) \ {Max(1 .. i)}], Max(1 .. i)>>]
    BY <1>5, <2>1 DEF FoldsBy
  <2>4. f[1 .. i] = g[<<f[1 .. (i - 1)], i>>]
    BY <2>2, <2>3
  <2>5. f[1 .. (i - 1)] \in X
    BY <1>6, <2>1
  <2> QED
    BY <1>4, <2>4, <2>5
<1>8. ASSUME NEW i \in 1 .. n
      PROVE  h[i] = IF i = 1 THEN seqs[i] ELSE h[i - 1] \o seqs[i]
  <2>1. CASE i = 1
    <3>1. 1 .. (i - 1) = {} /\ {} \in SUBSET (1 .. n)
      BY <2>1
    <3>2. f[{}] = <<>>
      BY <1>5, <3>1 DEF FoldsBy
    <3>3. h[i] = <<>> \o seqs[i] /\ seqs[i] \in X
      BY <1>1, <1>7, <3>1, <3>2
    <3> QED
      BY <1>3, <2>1, <3>3
  <2>2. CASE i # 1
    <3>1. i - 1 \in 1 .. n
      BY <1>1, <2>2
    <3> QED
      BY <1>7, <2>2, <3>1
  <2> QED
    BY <2>1, <2>2
<1>9. h = [i \in 1 .. n |-> h[i]]
  OBVIOUS
<1> HIDE DEF h
<1>10. h = [i \in 1 .. n |-> IF i = 1 THEN seqs[i] ELSE h[i - 1] \o seqs[i]]
  BY <1>8, <1>9
<1> QED
  BY <1>10 DEF FlattensBy, n

(* The lists one after another, up to each.                                 *)
Flattens(f, seqs) ==
  /\ f[0] = <<>>
  /\ \A i \in 1 .. Len(seqs) : f[i] = f[i - 1] \o seqs[i]

LEMMA FlattenIs ==
  ASSUME NEW E, NEW seqs \in Seq(Seq(E))
  PROVE  \E f : /\ Flattens(f, seqs)
                /\ \A i \in 0 .. Len(seqs) : f[i] \in Seq(E)
                /\ FlattenSeq(seqs) = f[Len(seqs)]
<1> DEFINE n == Len(seqs)
           c == CHOOSE f : FlattensBy(f, seqs)
           f == [i \in 0 .. n |-> IF i = 0 THEN <<>> ELSE c[i]]
           C == {i \in 0 .. n : f[i] \in Seq(E)}
<1>1. n \in Nat /\ \A i \in 1 .. n : seqs[i] \in Seq(E)
  BY LenProperties, ElementOfSeq
<1>2. FlattensBy(c, seqs)
  BY FlattensExists
<1> HIDE DEF c
<1>3. \A i \in 1 .. n : c[i] = IF i = 1 THEN seqs[i] ELSE c[i - 1] \o seqs[i]
  BY <1>2 DEF FlattensBy
<1>4. \A i \in 1 .. n : <<>> \o seqs[i] = seqs[i]
  BY <1>1, ConcatEmptySeq
<1>5. f[0] = <<>> /\ \A i \in 1 .. n : f[i] = c[i]
  BY <1>1
<1>6. ASSUME NEW i \in 1 .. n PROVE f[i] = f[i - 1] \o seqs[i]
  <2>1. CASE i = 1
    <3>1. f[i] = seqs[i] /\ <<>> \o seqs[i] = seqs[i]
      BY <1>3, <1>4, <1>5, <2>1
    <3>2. i - 1 = 0
      BY <2>1
    <3> QED
      BY <1>5, <3>1, <3>2
  <2>2. CASE i # 1
    <3>1. i - 1 \in 1 .. n
      BY <1>1, <2>2
    <3> QED
      BY <1>3, <1>5, <2>2, <3>1
  <2> QED
    BY <2>1, <2>2
<1>7. FlattenSeq(seqs) = f[n]
  <2>1. CASE n = 0
    <3>1. seqs = <<>>
      <4>1. seqs # <<>> => Len(seqs) \in Nat \ {0}
        BY EmptySeq
      <4> QED
        BY <2>1, <4>1
    <3>2. FlattenSeq(seqs) = seqs
      BY <2>1, FlattenBy
    <3> QED
      BY <1>5, <2>1, <3>1, <3>2
  <2>2. CASE n # 0
    <3>1. FlattenSeq(seqs) = c[n]
      BY <2>2, FlattenBy DEF c
    <3> QED
      BY <1>1, <1>5, <2>2, <3>1
  <2> QED
    BY <2>1, <2>2
<1> HIDE DEF f, n
<1>8. C = 0 .. n
  <2>1. 0 \in C
    <3>1. <<>> \in Seq(E)
      BY EmptySeq
    <3>2. 0 \in 0 .. n /\ f[0] \in Seq(E)
      BY <1>1, <1>5, <3>1
    <3> QED
      BY <3>2
  <2>2. ASSUME NEW i \in 0 .. n, i # 0, i - 1 \in C PROVE i \in C
    <3>1. i \in 1 .. n /\ f[i - 1] \in Seq(E)
      BY <1>1, <2>2
    <3>2. f[i] \in Seq(E)
      BY <1>1, <1>6, <3>1, ConcatProperties
    <3> QED
      BY <2>2, <3>2
  <2>3. C \in SUBSET (0 .. n)
    OBVIOUS
  <2> HIDE DEF C
  <2> QED
    BY <1>1, <2>1, <2>2, <2>3, UpTo
<1>9. \A i \in 0 .. n : f[i] \in Seq(E)
  BY <1>8
<1> QED
  BY <1>5, <1>6, <1>7, <1>9 DEF Flattens, n

(* From s, the lines lead to t.                                             *)
Leads(h, s, lines, t) ==
  /\ h[0] = s
  /\ \A n \in 1 .. Len(lines) : h[n] = ReadLine(h[n - 1], lines[n])
  /\ h[Len(lines)] = t

ReadTo(s, lines, t) == \E h : Leads(h, s, lines, t)

LEMMA ReadToOn ==
  ASSUME NEW X, NEW a \in Seq(X), NEW b \in Seq(X), NEW s, NEW t, NEW u,
         ReadTo(s, a, t), ReadTo(t, b, u)
  PROVE  ReadTo(s, a \o b, u)
<1> DEFINE m == Len(a)
           n == Len(b)
           c == a \o b
<1>1. m \in Nat /\ n \in Nat
  BY LenProperties
<1>2. /\ Len(c) = m + n
      /\ \A i \in 1 .. m + n : c[i] = IF i <= m THEN a[i] ELSE b[i - m]
  BY ConcatProperties
<1>3. PICK f : Leads(f, s, a, t)
  BY DEF ReadTo
<1>4. PICK g : Leads(g, t, b, u)
  BY DEF ReadTo
<1> DEFINE h == [i \in 0 .. m + n |-> IF i <= m THEN f[i] ELSE g[i - m]]
<1>5. /\ f[0] = s /\ f[m] = t /\ g[0] = t /\ g[n] = u
      /\ \A i \in 1 .. m : f[i] = ReadLine(f[i - 1], a[i])
      /\ \A i \in 1 .. n : g[i] = ReadLine(g[i - 1], b[i])
  BY <1>3, <1>4 DEF Leads
<1> HIDE DEF m, n, c
<1>6. h[0] = s /\ h[m + n] = u
  <2>1. CASE n = 0
    BY <1>1, <1>5, <2>1
  <2>2. CASE n # 0
    BY <1>1, <1>5, <2>2
  <2> QED
    BY <2>1, <2>2
<1>7. ASSUME NEW i \in 1 .. m + n PROVE h[i] = ReadLine(h[i - 1], c[i])
  <2>1. i - 1 \in 0 .. m + n /\ i \in 0 .. m + n
    BY <1>1
  <2>2. CASE i <= m
    <3>1. i \in 1 .. m /\ c[i] = a[i] /\ h[i] = f[i] /\ h[i - 1] = f[i - 1]
      BY <1>1, <1>2, <2>1, <2>2
    <3> QED
      BY <1>5, <3>1
  <2>3. CASE i = m + 1
    <3>3. 1 \in 1 .. n /\ i - 1 = m /\ i - m = 1 /\ ~(i <= m) /\ m <= m
      BY <1>1, <2>3
    <3>4. c[i] = b[1]
      BY <1>2, <3>3
    <3>5. h[i] = g[1] /\ h[m] = f[m]
      BY <2>1, <3>3
    <3>1. 1 \in 1 .. n /\ c[i] = b[1] /\ h[i] = g[1] /\ h[i - 1] = f[m]
      BY <3>3, <3>4, <3>5
    <3>2. g[1] = ReadLine(g[0], b[1])
      BY <1>5, <3>1
    <3> QED
      BY <1>5, <3>1, <3>2
  <2>4. CASE i > m + 1
    <3>1. /\ i - m \in 1 .. n /\ c[i] = b[i - m] /\ h[i] = g[i - m]
          /\ h[i - 1] = g[i - m - 1]
      BY <1>1, <1>2, <2>1, <2>4
    <3> QED
      BY <1>5, <3>1
  <2> QED
    BY <1>1, <2>2, <2>3, <2>4
<1> HIDE DEF h
<1>8. Leads(h, s, c, u)
  BY <1>2, <1>6, <1>7 DEF Leads
<1> QED
  BY <1>8 DEF ReadTo, c

LEMMA ReadToNone ==
  ASSUME NEW s
  PROVE  ReadTo(s, <<>>, s)
<1> DEFINE h == [i \in {0} |-> s]
<1>1. Len(<<>>) = 0 /\ 1 .. 0 = {} /\ h[0] = s
  BY EmptySeq
<1> HIDE DEF h
<1>2. Leads(h, s, <<>>, s)
  BY <1>1 DEF Leads
<1> QED
  BY <1>2 DEF ReadTo

LEMMA ReadToOne ==
  ASSUME NEW s, NEW line
  PROVE  ReadTo(s, <<line>>, ReadLine(s, line))
<1> DEFINE t == ReadLine(s, line)
           h == [i \in 0 .. 1 |-> IF i = 0 THEN s ELSE t]
<1> HIDE DEF t
<1>1. Len(<<line>>) = 1 /\ <<line>>[1] = line /\ 1 .. 1 = {1} /\ h[0] = s /\ h[1] = t
  OBVIOUS
<1> HIDE DEF h
<1>2. Leads(h, s, <<line>>, t)
  <2>1. \A n \in 1 .. 1 : h[n] = ReadLine(h[n - 1], <<line>>[n])
    BY <1>1 DEF t
  <2> QED
    BY <1>1, <2>1 DEF Leads
<1> QED
  BY <1>2 DEF ReadTo, t

LEMMA ReadToEnd ==
  ASSUME NEW lines, AreLines(lines), NEW t, ReadTo(Start, lines, t)
  PROVE  ReadConf(lines) = [outcome |-> t.outcome, tree |-> Closed(t)]
<1>1. PICK h : Leads(h, Start, lines, t)
  BY DEF ReadTo
<1>2. Reads(h, lines) /\ h[Len(lines)] = t
  BY <1>1 DEF Leads, Reads
<1>3. ReadConf(lines) = [outcome |-> h[Len(lines)].outcome,
                         tree |-> Closed(h[Len(lines)])]
  BY <1>2, ReadsIs
<1> QED
  BY <1>2, <1>3

-----------------------------------------------------------------------------
(* What is written is read                                                  *)

PartOf(tree, i) ==
  LET e == tree[i] IN
  IF e.children = <<>> THEN <<KeyLine(e.key, e.value)>>
  ELSE (IF i = 1 THEN <<>> ELSE <<Nothing>>) \o <<SectionLine(e.key)>>
         \o [j \in DOMAIN e.children |-> KeyLine(e.children[j].key, e.children[j].value)]

(* What can be written: no name twice, and no section with a value.         *)
Written(tree) ==
  /\ Cardinality(Keys(tree)) = Len(tree)
  /\ \A i \in DOMAIN tree :
       /\ Cardinality(Keys(tree[i].children)) = Len(tree[i].children)
       /\ tree[i].children # <<>> => tree[i].value = Word("")

LEMMA WriteConfIs ==
  ASSUME NEW tree
  PROVE  WriteConf(tree) = IF Written(tree)
                           THEN [outcome |-> "ok",
                                 lines |-> FlattenSeq([i \in DOMAIN tree |-> PartOf(tree, i)])]
                           ELSE [outcome |-> "throws", lines |-> <<>>]
<1>1. CASE Written(tree)
  BY Zenon, <1>1 DEF WriteConf, Written, PartOf
<1>2. CASE ~Written(tree)
  BY Zenon, <1>2 DEF WriteConf, Written, PartOf
<1> QED
  BY <1>1, <1>2

LEMMA DistinctAreAsMany ==
  ASSUME NEW E, NEW e \in Seq(E), Distinct(e)
  PROVE  Cardinality(Keys(e)) = Len(e)
<1> DEFINE n == Len(e)
           f == [i \in 1 .. n |-> e[i].key]
<1>1. n \in Nat /\ DOMAIN e = 1 .. n
  BY LenProperties
<1> HIDE DEF n
<1>2. Keys(e) = {e[i].key : i \in 1 .. n}
  BY <1>1 DEF Keys
<1>3. \A i, j \in 1 .. n : e[i].key = e[j].key => i = j
  BY <1>1 DEF Distinct
<1>4. f \in [1 .. n -> Keys(e)]
  BY <1>2
<1>5. \A i \in 1 .. n : f[i] = e[i].key
  OBVIOUS
<1> HIDE DEF f
<1>6. f \in Injection(1 .. n, Keys(e))
  BY <1>3, <1>4, <1>5 DEF Injection, IsInjective
<1>7. f \in Surjection(1 .. n, Keys(e))
  BY <1>2, <1>4, <1>5 DEF Surjection
<1>8. ExistsBijection(1 .. n, Keys(e))
  BY <1>6, <1>7 DEF ExistsBijection, Bijection
<1>9. IsFiniteSet(1 .. n) /\ Cardinality(1 .. n) = n
  <2>1. 1 \in Int /\ n \in Int
    BY <1>1
  <2> QED
    BY <1>1, <2>1, FS_Interval
<1> QED
  BY <1>8, <1>9, FS_Bijection DEF n

LEMMA WholeIsWritten ==
  ASSUME NEW K, NEW V, NEW t \in TreesOf(K, V), NEW p, Whole(t, p)
  PROVE  Written(t)
<1> DEFINE E == BranchesOf(K, V)
           L == LeavesOf(K, V)
           n == Len(t)
<1>1. t \in Seq(E) /\ n \in Nat /\ DOMAIN t = 1 .. n
  <2>1. t \in Seq(E)
    BY DEF TreesOf
  <2> HIDE DEF E
  <2> QED
    BY <2>1, LenProperties
<1>2. Cardinality(Keys(t)) = n
  BY <1>1, DistinctAreAsMany DEF Whole
<1>3. ASSUME NEW i \in 1 .. n
      PROVE  /\ Cardinality(Keys(t[i].children)) = Len(t[i].children)
             /\ t[i].children # <<>> => t[i].value = Word("")
  <2>1. t[i] \in E
    <3> HIDE DEF E
    <3> QED
      BY <1>1, ElementOfSeq
  <2>2. t[i].children \in Seq(L)
    BY <2>1 DEF BranchesOf
  <2>3. p \in 0 .. n
    BY DEF Whole
  <2> HIDE DEF L, E
  <2>4. CASE i \in 1 .. p
    <3>1. t[i].children = <<>>
      BY <2>4 DEF Whole
    <3>2. <<>> \in Seq(L) /\ Distinct(<<>>)
      BY EmptyIsMade, EmptySeq DEF Whole
    <3>3. Cardinality(Keys(<<>>)) = Len(<<>>)
      BY <3>2, DistinctAreAsMany
    <3> QED
      BY <3>1, <3>3
  <2>5. CASE i \in p + 1 .. n
    <3>1. IsSection(t[i])
      BY <2>5 DEF Whole
    <3>2. Distinct(t[i].children)
      BY <3>1 DEF IsSection
    <3>3. t[i].value = Word("")
      BY Zenon, <3>1 DEF IsSection
    <3>4. Cardinality(Keys(t[i].children)) = Len(t[i].children)
      BY <2>2, <3>2, DistinctAreAsMany
    <3> QED
      BY Zenon, <3>3, <3>4
  <2>6. i \in 1 .. p \/ i \in p + 1 .. n
    BY <1>1, <2>3
  <2> QED
    BY Zenon, <2>4, <2>5, <2>6
<1> HIDE DEF n
<1> QED
  BY Zenon, <1>1, <1>2, <1>3 DEF Written, n

(* The beginning of a list.                                                 *)
LEMMA PrefixIs ==
  ASSUME NEW E, NEW e \in Seq(E)
  PROVE  /\ SubSeq(e, 1, 0) = <<>>
         /\ SubSeq(e, 1, Len(e)) = e
         /\ \A i \in 0 .. Len(e) : SubSeq(e, 1, i) \in Seq(E)
         /\ \A i \in 1 .. Len(e) : SubSeq(e, 1, i) = Append(SubSeq(e, 1, i - 1), e[i])
         /\ Distinct(e) => \A i \in 1 .. Len(e) : e[i].key \notin Keys(SubSeq(e, 1, i - 1))
<1> DEFINE n == Len(e)
<1>1. n \in Nat /\ DOMAIN e = 1 .. n /\ \A i \in 1 .. n : e[i] \in E
  BY LenProperties, ElementOfSeq
<1>2. SubSeq(e, 1, 0) = <<>> /\ SubSeq(e, 1, Len(e)) = e
  BY SubSeqEmpty, SubSeqFull
<1>3. ASSUME NEW i \in 0 .. n
      PROVE  /\ SubSeq(e, 1, i) \in Seq(E) /\ Len(SubSeq(e, 1, i)) = i
             /\ \A j \in 1 .. i : SubSeq(e, 1, i)[j] = e[j]
  <2>1. 1 \in Int /\ i \in Int /\ \A j \in 1 .. i : e[j] \in E
    BY <1>1
  <2>2. /\ SubSeq(e, 1, i) \in Seq(E)
        /\ Len(SubSeq(e, 1, i)) = IF 1 <= i THEN i - 1 + 1 ELSE 0
        /\ \A j \in 1 .. i - 1 + 1 : SubSeq(e, 1, i)[j] = e[1 + j - 1]
    BY <2>1, SubSeqProperties
  <2> HIDE DEF n
  <2>3. i \in Nat /\ i - 1 + 1 = i
    BY <1>1
  <2> QED
    BY <2>2, <2>3
<1>4. ASSUME NEW i \in 1 .. n
      PROVE  /\ SubSeq(e, 1, i) = Append(SubSeq(e, 1, i - 1), e[i])
             /\ Distinct(e) => e[i].key \notin Keys(SubSeq(e, 1, i - 1))
  <2> DEFINE a == SubSeq(e, 1, i - 1)
             b == SubSeq(e, 1, i)
             c == Append(a, e[i])
  <2>1. i \in 0 .. n /\ i - 1 \in 0 .. n
    BY <1>1
  <2>2. /\ a \in Seq(E) /\ Len(a) = i - 1 /\ \A j \in 1 .. i - 1 : a[j] = e[j]
        /\ b \in Seq(E) /\ Len(b) = i /\ \A j \in 1 .. i : b[j] = e[j]
    BY <1>3, <2>1
  <2> HIDE DEF a, b, n
  <2>3. DOMAIN a = 1 .. i - 1
    BY <2>2, LenProperties
  <2>4. e[i] \in E
    BY <1>1
  <2>5. /\ c \in Seq(E) /\ Len(c) = i
        /\ \A j \in 1 .. i - 1 : c[j] = e[j]
        /\ c[i] = e[i]
    <3>1. /\ c \in Seq(E) /\ Len(c) = Len(a) + 1
          /\ \A j \in 1 .. Len(a) : c[j] = a[j]
          /\ c[Len(a) + 1] = e[i]
      BY <2>2, <2>4, AppendProperties
    <3> HIDE DEF c
    <3> QED
      BY <1>1, <2>2, <3>1
  <2> HIDE DEF c
  <2>6. \A j \in 1 .. Len(b) : b[j] = c[j]
    <3>1. \A j \in 1 .. i : j \in 1 .. i - 1 \/ j = i
      BY <1>1
    <3> QED
      BY <2>2, <2>5, <3>1
  <2>7. b = c
    BY <2>2, <2>5, <2>6, SeqEqual
  <2>8. ASSUME Distinct(e) PROVE e[i].key \notin Keys(a)
    <3>1. \A j \in 1 .. i - 1 : j \in DOMAIN e /\ i \in DOMAIN e /\ j # i
      BY <1>1
    <3> QED
      BY <2>2, <2>3, <2>8, <3>1 DEF Keys, Distinct
  <2> QED
    BY <2>7, <2>8 DEF a, b, c
<1> QED
  BY <1>2, <1>3, <1>4

(* After the first i entries of a whole tree.                               *)
After(t, p, i) == [outcome |-> "ok", tree |-> SubSeq(t, 1, i), open |-> i > p]

LEMMA AfterIs ==
  ASSUME NEW K, NEW V, NEW t \in TreesOf(K, V), NEW p, Whole(t, p),
         NEW i \in 0 .. Len(t)
  PROVE  /\ After(t, p, i) \in PartsRead(K, V)
         /\ After(t, p, i).outcome = "ok"
         /\ After(t, p, i).tree = SubSeq(t, 1, i)
         /\ After(t, p, i).open <=> i > p
         /\ Closed(After(t, p, i)) = SubSeq(t, 1, i)
<1> DEFINE E == BranchesOf(K, V)
           s == After(t, p, i)
           u == SubSeq(t, 1, i)
           n == Len(t)
<1>1. t \in Seq(E) /\ n \in Nat
  <2>1. t \in Seq(E)
    BY DEF TreesOf
  <2> HIDE DEF E
  <2> QED
    BY <2>1, LenProperties
<1>2. p \in 0 .. n
  BY DEF Whole
<1>3. s.outcome = "ok" /\ s.tree = u /\ (s.open <=> i > p)
      /\ s = [outcome |-> "ok", tree |-> u, open |-> i > p]
  BY DEF After
<1> HIDE DEF E, n
<1>4. u \in Seq(E)
  BY <1>1, PrefixIs DEF n
<1>5. ASSUME i > p
      PROVE  /\ u = Append(SubSeq(t, 1, i - 1), t[i]) /\ u # <<>>
             /\ Last(u) = t[i] /\ t[i].children # <<>>
  <2>1. i \in 1 .. n /\ i \in p + 1 .. n /\ i - 1 \in 0 .. n
    BY <1>1, <1>2, <1>5 DEF n
  <2> DEFINE a == SubSeq(t, 1, i - 1)
  <2>2. u = Append(a, t[i]) /\ a \in Seq(E)
    BY <1>1, <2>1, PrefixIs DEF n
  <2>3. t[i] \in E
    BY <1>1, <2>1, ElementOfSeq DEF n
  <2> HIDE DEF a, u
  <2>4. u # <<>> /\ Last(u) = t[i]
    BY <2>2, <2>3, AppendedIs
  <2>5. t[i].children # <<>>
    BY <2>1 DEF Whole, n
  <2> QED
    BY <2>2, <2>4, <2>5 DEF a
<1> HIDE DEF s, u
<1>6. s \in PartsRead(K, V)
  <2>1. (i > p) \in BOOLEAN
    OBVIOUS
  <2> QED
    BY <1>3, <1>4, <1>5, <2>1 DEF PartsRead, TreesOf, E
<1>7. Closed(s) = u
  BY <1>3, <1>5 DEF Closed
<1> QED
  BY <1>3, <1>6, <1>7 DEF s, u

LEMMA KeyLineIs ==
  ASSUME NEW k, NEW v
  PROVE  /\ KeyLine(k, v).kind = "key"
         /\ KeyLine(k, v).key = k
         /\ KeyLine(k, v).value = v
BY DEF KeyLine

LEMMA SectionLineIs ==
  ASSUME NEW K, NEW V, NEW y \in BranchesOf(K, V), IsSection(y)
  PROVE  /\ SectionLine(y.key).kind = "section"
         /\ SectionLine(y.key).key = y.key
         /\ SectionLine(y.key).value = y.value
<1> DEFINE k == y.key
           w == Word("")
<1>1. y.value = w
  BY Zenon DEF IsSection
<1>2. SectionLine(k) = [kind |-> "section", key |-> k, value |-> w]
  BY Zenon DEF SectionLine
<1> HIDE DEF w, k
<1>3. /\ SectionLine(k).kind = "section" /\ SectionLine(k).key = k
      /\ SectionLine(k).value = w
  BY <1>2
<1> QED
  BY <1>1, <1>3 DEF k

LEMMA NothingIs == Nothing.kind = "nothing"
<1> DEFINE w == Word("")
<1>1. Nothing = [kind |-> "nothing", key |-> "", value |-> w]
  BY Zenon DEF Nothing
<1> HIDE DEF w
<1> QED
  BY <1>1

(* A key outside of the sections.                                           *)
LEMMA KeyIsRead ==
  ASSUME NEW K, NEW V, NEW t \in TreesOf(K, V), NEW p, Whole(t, p),
         NEW i \in 1 .. Len(t), i <= p
  PROVE  /\ ReadTo(After(t, p, i - 1), PartOf(t, i), After(t, p, i))
         /\ PartOf(t, i) = <<KeyLine(t[i].key, t[i].value)>>
         /\ t[i].key \in K /\ t[i].value \in V
<1> DEFINE E == BranchesOf(K, V)
           y == t[i]
           s == After(t, p, i - 1)
           line == KeyLine(y.key, y.value)
           a == SubSeq(t, 1, i - 1)
           n == Len(t)
<1>1. t \in Seq(E) /\ n \in Nat
  <2>1. t \in Seq(E)
    BY DEF TreesOf
  <2> HIDE DEF E
  <2> QED
    BY <2>1, LenProperties
<1>2. p \in 0 .. n /\ i \in 1 .. p /\ i - 1 \in 0 .. n /\ i \in 0 .. n
  BY <1>1 DEF Whole
<1>3. y.children = <<>>
  BY <1>2 DEF Whole
<1>4. y \in E
  <2> HIDE DEF E
  <2> QED
    BY <1>1, ElementOfSeq
<1>5. /\ s \in PartsRead(K, V) /\ s.outcome = "ok" /\ s.tree = a
      /\ s.open <=> i - 1 > p
  BY <1>2, AfterIs
<1>6. ~s.open
  BY <1>2, <1>5
<1>7. line.kind = "key" /\ line.key = y.key /\ line.value = y.value
  BY KeyLineIs
<1>8. Entry(line) = y
  <2> HIDE DEF line
  <2>1. Entry(line) = [key |-> y.key, value |-> y.value, children |-> <<>>]
    BY <1>7 DEF Entry
  <2> HIDE DEF y
  <2> QED
    BY <1>3, <1>4, <2>1 DEF BranchesOf
<1>9. y.key \notin Keys(a) /\ SubSeq(t, 1, i) = Append(a, y)
  <2>1. Distinct(t)
    BY DEF Whole
  <2> HIDE DEF E
  <2> QED
    BY <1>1, <2>1, PrefixIs
<1> HIDE DEF s, line, y, a, E, n
<1>10. Fits(s, line)
  BY <1>5, <1>6, <1>7, <1>9 DEF Fits, Siblings
<1>11. ReadLine(s, line) = [outcome |-> "ok", open |-> FALSE, tree |-> Append(s.tree, Entry(line))]
  <2>1. line.kind \in LineKinds
    BY <1>7 DEF LineKinds
  <2> QED
    BY <1>5, <1>6, <1>7, <1>10, <2>1, ReadsOutside
<1>12. ReadLine(s, line) = After(t, p, i)
  <2>1. (i > p) = FALSE
    BY <1>1, <1>2
  <2> DEFINE u == SubSeq(t, 1, i)
  <2>2. After(t, p, i) = [outcome |-> "ok", tree |-> u, open |-> FALSE]
    BY <2>1 DEF After
  <2>3. Append(s.tree, Entry(line)) = u
    BY <1>5, <1>8, <1>9
  <2> HIDE DEF u
  <2> QED
    BY <1>11, <2>2, <2>3
<1>13. PartOf(t, i) = <<line>>
  BY <1>3 DEF PartOf, line, y
<1>14. ReadTo(s, <<line>>, ReadLine(s, line))
  BY ReadToOne
<1>15. y.key \in K /\ y.value \in V
  BY <1>4 DEF E, BranchesOf
<1> QED
  BY <1>12, <1>13, <1>14, <1>15 DEF s, y, line

(* In the section y, after its first j keys.                                *)
Within(f, y, j) ==
  [outcome |-> "ok", open |-> TRUE,
   tree |-> Append(f, [y EXCEPT !.children = SubSeq(y.children, 1, j)])]

KeyLinesWith(K, V) == {KeyLine(k, v) : k \in K, v \in V}

KidLines(y) ==
  [j \in DOMAIN y.children |-> KeyLine(y.children[j].key, y.children[j].value)]

InSection(K, V, f, y, j, s) ==
  /\ s \in PartsRead(K, V) /\ s.outcome = "ok" /\ s.open
  /\ Front(s.tree) = f
  /\ Last(s.tree) = [y EXCEPT !.children = SubSeq(y.children, 1, j)]
  /\ Last(s.tree).children = SubSeq(y.children, 1, j)

LEMMA WithinIs ==
  ASSUME NEW K, NEW V, NEW f \in TreesOf(K, V), NEW y \in BranchesOf(K, V),
         NEW j \in 0 .. Len(y.children)
  PROVE  InSection(K, V, f, y, j, Within(f, y, j))
<1> DEFINE E == BranchesOf(K, V)
           L == LeavesOf(K, V)
           ch == SubSeq(y.children, 1, j)
           x == [y EXCEPT !.children = ch]
           u == Append(f, x)
           s == Within(f, y, j)
<1>1. f \in Seq(E)
  BY DEF TreesOf
<1>2. y.children \in Seq(L)
  BY DEF BranchesOf
<1>3. ch \in Seq(L)
  <2> HIDE DEF L
  <2> QED
    BY <1>2, PrefixIs
<1>4. x \in E /\ x.children = ch
  <2> HIDE DEF ch
  <2> QED
    BY <1>3 DEF BranchesOf
<1>5. s = [outcome |-> "ok", open |-> TRUE, tree |-> u]
  BY DEF Within
<1> HIDE DEF E, x
<1>6. u \in Seq(E) /\ u # <<>> /\ Front(u) = f /\ Last(u) = x
  BY <1>1, <1>4, AppendedIs
<1> HIDE DEF u, s
<1>7. s.outcome = "ok" /\ s.open /\ s.tree = u
  BY <1>5
<1>8. s \in PartsRead(K, V)
  BY <1>5, <1>6 DEF PartsRead, TreesOf, E
<1>9. /\ s \in PartsRead(K, V) /\ s.outcome = "ok" /\ s.open
      /\ Front(s.tree) = f /\ Last(s.tree) = x /\ Last(s.tree).children = ch
  BY <1>4, <1>6, <1>7, <1>8
<1> QED
  BY Zenon, <1>9 DEF s, x, InSection

LEMMA KidIsRead ==
  ASSUME NEW K, NEW V, NEW f \in TreesOf(K, V), NEW y \in BranchesOf(K, V),
         Distinct(y.children), NEW j \in 1 .. Len(y.children), NEW line,
         line.kind = "key", line.key = y.children[j].key, line.value = y.children[j].value
  PROVE  ReadLine(Within(f, y, j - 1), line) = Within(f, y, j)
<1>0. \A i \in 0 .. Len(y.children) : InSection(K, V, f, y, i, Within(f, y, i))
  BY WithinIs
<1> DEFINE L == LeavesOf(K, V)
           s == Within(f, y, j - 1)
           a == SubSeq(y.children, 1, j - 1)
           b == SubSeq(y.children, 1, j)
           x == [y EXCEPT !.children = a]
           c == y.children[j]
<1>1. y.children \in Seq(L)
  BY DEF BranchesOf
<1>2. Len(y.children) \in Nat
  <2> HIDE DEF L
  <2> QED
    BY <1>1, LenProperties
<1>3. j - 1 \in 0 .. Len(y.children) /\ j \in 0 .. Len(y.children)
  BY <1>2
<1>4. /\ s \in PartsRead(K, V) /\ s.outcome = "ok" /\ s.open
      /\ Front(s.tree) = f /\ Last(s.tree) = x /\ Last(s.tree).children = a
  BY <1>0, <1>3 DEF InSection
<1>5. c.key \notin Keys(a) /\ b = Append(a, c)
  <2> HIDE DEF L
  <2> QED
    BY <1>1, PrefixIs
<1>6. c \in L
  <2> HIDE DEF L
  <2> QED
    BY <1>1, ElementOfSeq
<1>7. c = Leaf(line) /\ line.key = c.key /\ c.key \in K /\ c.value \in V
  <2>1. Leaf(line) = [key |-> c.key, value |-> c.value]
    BY DEF Leaf
  <2> HIDE DEF c
  <2> QED
    BY <1>6, <2>1 DEF LeavesOf, c
<1> HIDE DEF s, a, b, x, c, L
<1>8. Fits(s, line)
  BY <1>4, <1>5, <1>7 DEF Fits, Siblings
<1>9. ReadLine(s, line) = [outcome |-> "ok", open |-> TRUE, tree |-> WithLeaf(s.tree, line)]
  <2>1. line.key \in K /\ line.value \in V
    BY <1>7 DEF c
  <2> QED
    BY <1>4, <1>8, <2>1, ReadsInside
<1> DEFINE z == [y EXCEPT !.children = b]
<1>10. WithLeaf(s.tree, line) = Append(f, z)
  <2>1. WithLeaf(s.tree, line) = Append(f, [x EXCEPT !.children = Append(@, c)])
    BY <1>4, <1>7 DEF WithLeaf
  <2>2. x = [y EXCEPT !.children = a]
    BY DEF x
  <2>3. [x EXCEPT !.children = Append(@, c)] = [y EXCEPT !.children = Append(a, c)]
    BY <2>2 DEF BranchesOf
  <2> QED
    BY <1>5, <2>1, <2>3
<1>11. Within(f, y, j) = [outcome |-> "ok", open |-> TRUE, tree |-> Append(f, z)]
  BY DEF Within, b
<1> HIDE DEF z
<1> QED
  BY <1>9, <1>10, <1>11 DEF s

LEMMA KidsAreRead ==
  ASSUME NEW K, NEW V, NEW f \in TreesOf(K, V), NEW y \in BranchesOf(K, V),
         Distinct(y.children)
  PROVE  /\ ReadTo(Within(f, y, 0), KidLines(y), Within(f, y, Len(y.children)))
         /\ KidLines(y) \in Seq(KeyLinesWith(K, V))
<1> DEFINE L == LeavesOf(K, V)
           m == Len(y.children)
           lines == KidLines(y)
           h == [j \in 0 .. m |-> Within(f, y, j)]
           X == KeyLinesWith(K, V)
<1>1. y.children \in Seq(L)
  BY DEF BranchesOf
<1>2. m \in Nat /\ DOMAIN y.children = 1 .. m /\ \A j \in 1 .. m : y.children[j] \in L
  <2> HIDE DEF L
  <2> QED
    BY <1>1, LenProperties, ElementOfSeq
<1> HIDE DEF m
<1>3. /\ lines = [j \in 1 .. m |-> KeyLine(y.children[j].key, y.children[j].value)]
  BY <1>2 DEF KidLines
<1>4. lines \in [1 .. m -> X]
  <2>1. \A j \in 1 .. m : y.children[j].key \in K /\ y.children[j].value \in V
    BY <1>2 DEF LeavesOf
  <2> QED
    BY <1>3, <2>1 DEF KeyLinesWith
<1>5. lines \in Seq(X) /\ Len(lines) = m
  <2> HIDE DEF X, lines
  <2>1. lines \in Seq(X)
    BY <1>2, <1>4, SeqDef
  <2>2. DOMAIN lines = 1 .. m /\ DOMAIN lines = 1 .. Len(lines) /\ Len(lines) \in Nat
    BY <1>4, <2>1, LenProperties
  <2> QED
    BY <1>2, <2>1, <2>2
<1>6. ASSUME NEW j \in 1 .. m PROVE h[j] = ReadLine(h[j - 1], lines[j])
  <2>1. /\ lines[j].kind = "key" /\ lines[j].key = y.children[j].key
        /\ lines[j].value = y.children[j].value
    <3>1. lines[j] = KeyLine(y.children[j].key, y.children[j].value)
      BY <1>3
    <3> QED
      BY <3>1, KeyLineIs
  <2>2. h[j] = Within(f, y, j) /\ h[j - 1] = Within(f, y, j - 1)
    BY <1>2
  <2> HIDE DEF h, lines
  <2>3. ReadLine(Within(f, y, j - 1), lines[j]) = Within(f, y, j)
    BY <1>2, <2>1, KidIsRead DEF m
  <2> QED
    BY <2>2, <2>3
<1>7. h[0] = Within(f, y, 0) /\ h[m] = Within(f, y, m)
  BY <1>2
<1> HIDE DEF h, lines, X
<1>8. Leads(h, Within(f, y, 0), lines, Within(f, y, m))
  BY <1>5, <1>6, <1>7 DEF Leads
<1>9. ReadTo(Within(f, y, 0), lines, Within(f, y, m))
  BY <1>8 DEF ReadTo
<1> QED
  BY <1>5, <1>9 DEF m, lines, X

(* The lines of trees with such keys and values.                            *)
LinesWith(K, V) ==
  {Nothing} \cup {SectionLine(k) : k \in K} \cup KeyLinesWith(K, V)

LEMMA LinesWithAre ==
  ASSUME NEW K, NEW V, NEW line \in LinesWith(K, V)
  PROVE  line.kind \in LineKinds
<1>1. CASE line = Nothing
  BY <1>1, NothingIs DEF LineKinds
<1>2. CASE line \in {SectionLine(k) : k \in K}
  <2>1. PICK k \in K : line = SectionLine(k)
    BY <1>2
  <2> DEFINE w == Word("")
  <2>2. SectionLine(k) = [kind |-> "section", key |-> k, value |-> w]
    BY Zenon DEF SectionLine
  <2> HIDE DEF w
  <2> QED
    BY <2>1, <2>2 DEF LineKinds
<1>3. CASE line \in KeyLinesWith(K, V)
  BY <1>3, KeyLineIs DEF LineKinds, KeyLinesWith
<1> QED
  BY <1>1, <1>2, <1>3 DEF LinesWith

(* A section and its keys.                                                  *)
LEMMA SectionIsRead ==
  ASSUME NEW K, NEW V, NEW t \in TreesOf(K, V), NEW p, Whole(t, p),
         NEW i \in 1 .. Len(t), i > p
  PROVE  /\ ReadTo(After(t, p, i - 1), PartOf(t, i), After(t, p, i))
         /\ PartOf(t, i) \in Seq(LinesWith(K, V))
<1> DEFINE E == BranchesOf(K, V)
           L == LeavesOf(K, V)
           y == t[i]
           m == Len(y.children)
           s == After(t, p, i - 1)
           line == SectionLine(y.key)
           kids == KidLines(y)
           pre == IF i = 1 THEN <<>> ELSE <<Nothing>>
           f == SubSeq(t, 1, i - 1)
           n == Len(t)
           X == LinesWith(K, V)
<1>1. t \in Seq(E) /\ n \in Nat
  <2>1. t \in Seq(E)
    BY DEF TreesOf
  <2> HIDE DEF E
  <2> QED
    BY <2>1, LenProperties
<1>2. p \in 0 .. n /\ i \in p + 1 .. n /\ i - 1 \in 0 .. n /\ i \in 0 .. n
  BY <1>1 DEF Whole
<1>3. y.children # <<>> /\ IsSection(y)
  BY <1>2 DEF Whole
<1>4. y \in E
  <2> HIDE DEF E
  <2> QED
    BY <1>1, ElementOfSeq
<1>5. /\ s \in PartsRead(K, V) /\ s.outcome = "ok" /\ s.tree = f /\ Closed(s) = f
  BY <1>2, AfterIs
<1>6. line.kind = "section" /\ line.key = y.key /\ line.value = y.value
  BY <1>3, <1>4, SectionLineIs
<1>7. y.key \notin Keys(f) /\ SubSeq(t, 1, i) = Append(f, y) /\ f \in Seq(E)
  <2>1. Distinct(t)
    BY DEF Whole
  <2> HIDE DEF E
  <2> QED
    BY <1>1, <1>2, <2>1, PrefixIs
<1>8. y.children \in Seq(L) /\ y.key \in K
  BY <1>4 DEF BranchesOf
<1> HIDE DEF L
<1>9. SubSeq(y.children, 1, 0) = <<>> /\ SubSeq(y.children, 1, m) = y.children
  BY <1>8, PrefixIs
<1> DEFINE w0 == Within(f, y, 0)
           wm == Within(f, y, m)
<1>10. w0 = [outcome |-> "ok", open |-> TRUE, tree |-> Append(f, Entry(line))]
  <2> DEFINE x == [y EXCEPT !.children = <<>>]
  <2>1. Entry(line) = [key |-> y.key, value |-> y.value, children |-> <<>>]
    <3> HIDE DEF line
    <3> QED
      BY <1>6 DEF Entry
  <2>2. x = Entry(line)
    <3> HIDE DEF y, line
    <3> QED
      BY <1>4, <2>1 DEF BranchesOf
  <2>3. w0 = [outcome |-> "ok", open |-> TRUE, tree |-> Append(f, x)]
    BY <1>9 DEF Within
  <2> HIDE DEF x
  <2> QED
    BY <2>2, <2>3
<1>11. wm = After(t, p, i)
  <2> DEFINE x == [y EXCEPT !.children = y.children]
             u == SubSeq(t, 1, i)
  <2>1. x = y
    <3> HIDE DEF y
    <3> QED
      BY <1>4 DEF BranchesOf
  <2>2. wm = [outcome |-> "ok", open |-> TRUE, tree |-> Append(f, x)]
    BY <1>9 DEF Within
  <2> HIDE DEF x
  <2>3. wm = [outcome |-> "ok", open |-> TRUE, tree |-> u]
    BY <1>7, <2>1, <2>2
  <2>4. (i > p) = TRUE
    OBVIOUS
  <2>5. After(t, p, i) = [outcome |-> "ok", tree |-> u, open |-> TRUE]
    BY <2>4 DEF After
  <2> HIDE DEF u, wm
  <2> QED
    BY <2>3, <2>5
<1>12. PartOf(t, i) = pre \o <<line>> \o kids
  BY Zenon, <1>3 DEF PartOf, KidLines
<1>13. f \in TreesOf(K, V)
  BY <1>7 DEF TreesOf
<1>14. Distinct(y.children)
  BY <1>3 DEF IsSection
<1> HIDE DEF y, m, s, line, f, E, n, w0, wm
<1>15. ReadTo(w0, kids, wm) /\ kids \in Seq(KeyLinesWith(K, V))
  BY <1>4, <1>13, <1>14, KidsAreRead DEF E, w0, wm, m
<1>16. ReadTo(s, <<line>>, w0)
  <2>1. Fits(s, line)
    BY <1>5, <1>6, <1>7 DEF Fits
  <2>2. line.kind \in LineKinds
    BY <1>6 DEF LineKinds
  <2>3. ReadLine(s, line) = [outcome |-> "ok", open |-> TRUE,
                             tree |-> Append(Closed(s), Entry(line))]
    BY <1>5, <1>6, <2>1, <2>2, ReadsSection
  <2>4. ReadLine(s, line) = w0
    BY <1>5, <1>10, <2>3
  <2>5. ReadTo(s, <<line>>, ReadLine(s, line))
    BY ReadToOne
  <2> QED
    BY <2>4, <2>5
<1>17. ReadTo(s, pre, s)
  <2>1. CASE i = 1
    BY <2>1, ReadToNone
  <2>2. CASE i # 1
    <3>1. ReadLine(s, Nothing) = s
      BY <1>5, NothingIs, ReadsAll DEF LineKinds
    <3>2. ReadTo(s, <<Nothing>>, ReadLine(s, Nothing))
      BY ReadToOne
    <3> QED
      BY <2>2, <3>1, <3>2
  <2> QED
    BY <2>1, <2>2
<1>18. pre \in Seq(X) /\ <<line>> \in Seq(X) /\ kids \in Seq(X)
  <2>1. Nothing \in X /\ line \in X /\ KeyLinesWith(K, V) \subseteq X
    BY <1>8 DEF LinesWith, line
  <2> HIDE DEF X
  <2>2. <<Nothing>> \in Seq(X) /\ <<line>> \in Seq(X) /\ <<>> \in Seq(X)
    BY <2>1, ListOfOne, EmptySeq
  <2>3. kids \in Seq(X)
    BY <1>15, <2>1, SeqOfMore
  <2> QED
    BY <2>2, <2>3
<1> DEFINE head == pre \o <<line>>
<1> HIDE DEF pre, kids, X
<1>19. ReadTo(s, head, w0) /\ head \in Seq(X)
  <2>1. <<line>> \in Seq(X) /\ pre \in Seq(X)
    BY <1>18
  <2> DEFINE one == <<line>>
  <2>2. ReadTo(s, one, w0) /\ one \in Seq(X)
    BY <1>16, <2>1
  <2> HIDE DEF one
  <2>3. ReadTo(s, pre \o one, w0) /\ pre \o one \in Seq(X)
    BY <1>17, <2>1, <2>2, ReadToOn, ListsOn
  <2> QED
    BY <2>3 DEF one
<1> HIDE DEF head
<1>20. ReadTo(s, head \o kids, wm) /\ head \o kids \in Seq(X)
  BY <1>15, <1>18, <1>19, ReadToOn, ListsOn
<1> QED
  BY <1>11, <1>12, <1>20 DEF head, s, X

(* What is whole is written as lines from which it is read again.           *)
LEMMA WholeIsRead ==
  ASSUME NEW K, NEW V, NEW t \in TreesOf(K, V), NEW p, Whole(t, p)
  PROVE  /\ WriteConf(t).outcome = "ok"
         /\ ReadConf(WriteConf(t).lines).tree = t
<1> DEFINE E == BranchesOf(K, V)
           n == Len(t)
           X == LinesWith(K, V)
           seqs == [i \in DOMAIN t |-> PartOf(t, i)]
<1>1. t \in Seq(E) /\ n \in Nat /\ DOMAIN t = 1 .. n
  <2>1. t \in Seq(E)
    BY DEF TreesOf
  <2> HIDE DEF E
  <2> QED
    BY <2>1, LenProperties
<1> HIDE DEF E
<1>2. WriteConf(t) = [outcome |-> "ok", lines |-> FlattenSeq(seqs)]
  BY WholeIsWritten, WriteConfIs
<1>3. p \in 0 .. n
  BY DEF Whole
<1>4. ASSUME NEW i \in 1 .. n
      PROVE  /\ ReadTo(After(t, p, i - 1), PartOf(t, i), After(t, p, i))
             /\ PartOf(t, i) \in Seq(X)
  <2>1. CASE i <= p
    <3> DEFINE line == KeyLine(t[i].key, t[i].value)
    <3>1. /\ ReadTo(After(t, p, i - 1), PartOf(t, i), After(t, p, i))
          /\ PartOf(t, i) = <<line>>
          /\ t[i].key \in K /\ t[i].value \in V
      BY <2>1, KeyIsRead
    <3>2. line \in X
      BY <3>1 DEF LinesWith, KeyLinesWith
    <3> HIDE DEF line, X
    <3>3. <<line>> \in Seq(X)
      BY <3>2, ListOfOne
    <3> QED
      BY <3>1, <3>3
  <2>2. CASE i > p
    BY <2>2, SectionIsRead
  <2> QED
    BY <1>1, <1>3, <2>1, <2>2
<1> HIDE DEF n, X
<1>5. seqs \in Seq(Seq(X)) /\ Len(seqs) = n /\ \A i \in 1 .. n : seqs[i] = PartOf(t, i)
  <2>1. seqs = [i \in 1 .. n |-> PartOf(t, i)]
    BY <1>1
  <2> HIDE DEF seqs
  <2>2. seqs \in [1 .. n -> Seq(X)]
    BY <1>4, <2>1
  <2> DEFINE Y == Seq(X)
  <2> HIDE DEF Y
  <2>3. seqs \in [1 .. n -> Y]
    BY <2>2 DEF Y
  <2>4. seqs \in Seq(Y)
    BY <1>1, <2>3, SeqDef
  <2>5. DOMAIN seqs = 1 .. n /\ DOMAIN seqs = 1 .. Len(seqs) /\ Len(seqs) \in Nat
    BY <2>3, <2>4, LenProperties
  <2>6. Len(seqs) = n
    BY <1>1, <2>5
  <2> QED
    BY <2>1, <2>4, <2>6 DEF Y
<1> HIDE DEF seqs
<1>6. PICK f : /\ Flattens(f, seqs)
               /\ \A i \in 0 .. Len(seqs) : f[i] \in Seq(X)
               /\ FlattenSeq(seqs) = f[Len(seqs)]
  BY <1>5, FlattenIs
<1>7. /\ f[0] = <<>> /\ \A i \in 0 .. n : f[i] \in Seq(X)
      /\ \A i \in 1 .. n : f[i] = f[i - 1] \o PartOf(t, i)
      /\ FlattenSeq(seqs) = f[n]
  BY <1>5, <1>6 DEF Flattens
<1>8. After(t, p, 0) = Start
  <2>1. (0 > p) = FALSE
    BY <1>1, <1>3
  <2>2. SubSeq(t, 1, 0) = <<>>
    BY <1>1, PrefixIs
  <2> QED
    BY <2>1, <2>2 DEF After, Start
<1> DEFINE C == {i \in 0 .. n : ReadTo(Start, f[i], After(t, p, i))}
<1>9. C = 0 .. n
  <2>1. 0 \in C
    <3>1. 0 \in 0 .. n /\ ReadTo(Start, <<>>, Start)
      BY <1>1, ReadToNone
    <3>2. ReadTo(Start, f[0], After(t, p, 0))
      BY <1>7, <1>8, <3>1
    <3> QED
      BY <3>1, <3>2
  <2>2. ASSUME NEW i \in 0 .. n, i # 0, i - 1 \in C PROVE i \in C
    <3>1. i \in 1 .. n /\ i - 1 \in 0 .. n
      BY <1>1, <2>2
    <3>2. ReadTo(Start, f[i - 1], After(t, p, i - 1))
      BY <2>2
    <3>3. f[i - 1] \in Seq(X) /\ PartOf(t, i) \in Seq(X)
      BY <1>4, <1>7, <3>1
    <3>4. ReadTo(After(t, p, i - 1), PartOf(t, i), After(t, p, i))
      BY <1>4, <3>1
    <3> DEFINE a == f[i - 1]
               b == PartOf(t, i)
               u == After(t, p, i - 1)
               v == After(t, p, i)
    <3>5. a \in Seq(X) /\ b \in Seq(X) /\ ReadTo(Start, a, u) /\ ReadTo(u, b, v)
      BY <3>2, <3>3, <3>4
    <3> HIDE DEF a, b, u, v
    <3>6. ReadTo(Start, a \o b, v)
      BY <3>5, ReadToOn
    <3>7. f[i] = a \o b
      BY <1>7, <3>1 DEF a, b
    <3>8. ReadTo(Start, f[i], After(t, p, i))
      BY <3>6, <3>7 DEF v
    <3> QED
      BY <2>2, <3>8
  <2>3. C \in SUBSET (0 .. n)
    OBVIOUS
  <2> HIDE DEF C
  <2> QED
    BY <1>1, <2>1, <2>2, <2>3, UpTo
<1> DEFINE lines == f[n]
           v == After(t, p, n)
<1>10. ReadTo(Start, lines, v) /\ lines \in Seq(X)
  <2>1. n \in 0 .. n
    BY <1>1
  <2>2. n \in C
    BY <1>9, <2>1
  <2> QED
    BY <1>7, <2>1, <2>2
<1>11. Closed(v) = t
  <2>1. n \in 0 .. Len(t)
    BY <1>1 DEF n
  <2>2. Closed(v) = SubSeq(t, 1, n)
    BY <2>1, AfterIs
  <2>3. SubSeq(t, 1, n) = t
    BY <1>1, PrefixIs DEF n
  <2> QED
    BY <2>2, <2>3
<1> HIDE DEF v, lines
<1>12. AreLines(lines)
  <2>1. IsList(lines) /\ DOMAIN lines = 1 .. Len(lines)
    BY <1>10, ListOf
  <2>2. \A i \in DOMAIN lines : lines[i] \in X
    BY <1>10, <2>1, ElementOfSeq
  <2>3. \A x \in X : x.kind \in LineKinds
    BY LinesWithAre DEF X
  <2> QED
    BY <2>1, <2>2, <2>3 DEF AreLines
<1>13. ReadConf(lines) = [outcome |-> v.outcome, tree |-> Closed(v)]
  BY <1>10, <1>12, ReadToEnd
<1>14. ReadConf(lines).tree = t
  BY <1>11, <1>13
<1>15. WriteConf(t).outcome = "ok" /\ WriteConf(t).lines = lines
  BY <1>2, <1>7 DEF lines
<1> QED
  BY <1>14, <1>15

(* What the property calls sound is what was used above.                    *)
LEMMA SoundIs ==
  ASSUME NEW lines, DOMAIN lines = 1 .. Len(lines), NEW read,
         read.outcome = "ok" <=> SoundTo(lines, Len(lines)),
         SoundTo(lines, Len(lines)) =>
           /\ WriteConf(read.tree).outcome = "ok"
           /\ ReadConf(WriteConf(read.tree).lines).tree = read.tree
  PROVE  ReadRightly(lines, read)
<1> DEFINE is(kind) == {i \in DOMAIN lines : lines[i].kind = kind}
           sectionOf(i) == Max({0} \cup {j \in is("section") : j <= i})
           live == {j \in is("section") : \E i \in is("key") : sectionOf(i) = j}
           outside == {i \in is("key") : sectionOf(i) = 0}
           sound ==
             /\ is("wrong") = {}
             /\ \A i, j \in is("key") :
                  i < j /\ sectionOf(i) = sectionOf(j) => lines[i].key # lines[j].key
             /\ \A j \in is("section") : \A i \in live \cup outside :
                  i < j => lines[i].key # lines[j].key
           n == Len(lines)
<1>1. \A k : is(k) = KindTo(lines, k, n)
  BY DEF KindTo
<1>2. \A i : sectionOf(i) = SectionAt(lines, i)
  BY Zenon DEF KindTo, SectionAt
<1>3. /\ is("wrong") = KindTo(lines, "wrong", n) /\ is("key") = KindTo(lines, "key", n)
      /\ is("section") = KindTo(lines, "section", n)
  BY <1>1
<1> HIDE DEF is, sectionOf
<1>4. live = LiveTo(lines, n) /\ outside = OutsideTo(lines, n)
  BY <1>2, <1>3 DEF LiveTo, OutsideTo
<1> HIDE DEF live, outside, n
<1>5. sound <=> SoundTo(lines, n)
  BY <1>2, <1>3, <1>4 DEF SoundTo
<1> DEFINE written == WriteConf(read.tree)
<1>6. ReadRightly(lines, read) <=>
        /\ (read.outcome = "ok") = sound
        /\ sound => written.outcome = "ok" /\ ReadConf(written.lines).tree = read.tree
  BY Zenon DEF ReadRightly, is, sectionOf, live, outside
<1>7. sound \in BOOLEAN
  OBVIOUS
<1> HIDE DEF sound
<1>8. /\ read.outcome = "ok" <=> sound
      /\ sound => written.outcome = "ok" /\ ReadConf(written.lines).tree = read.tree
  BY <1>5 DEF n, written
<1> HIDE DEF written
<1>9. (read.outcome = "ok") = sound
  BY <1>7, <1>8
<1> QED
  BY Zenon, <1>6, <1>8, <1>9

(* A file of any lines.                                                     *)
LEMMA FileIsRead ==
  ASSUME NEW lines, AreLines(lines), PlainSections(lines)
  PROVE  ReadRightly(lines, ReadConf(lines))
<1> DEFINE read == ReadConf(lines)
           K == KeysIn(lines)
           V == ValuesIn(lines) \cup {Word("")}
<1>1. /\ read.outcome = "ok" <=> SoundTo(lines, Len(lines))
      /\ read.outcome = "ok" => read.tree \in TreesOf(K, V) /\ \E p : Whole(read.tree, p)
  BY Zenon, ReadsTheSound
<1>2. DOMAIN lines = 1 .. Len(lines)
  BY ListIs DEF AreLines
<1> HIDE DEF read, K, V
<1>3. SoundTo(lines, Len(lines)) =>
        /\ WriteConf(read.tree).outcome = "ok"
        /\ ReadConf(WriteConf(read.tree).lines).tree = read.tree
  BY <1>1, WholeIsRead
<1>4. ReadRightly(lines, read)
  BY <1>1, <1>2, <1>3, SoundIs
<1> QED
  BY <1>4 DEF read

-----------------------------------------------------------------------------
(* Any file, of whatever keys and values. A section is no more than a name. *)
ReadsAny ==
  \E lines :
    /\ AreLines(lines) /\ PlainSections(lines)
    /\ Called([name |-> "conf", lines |-> lines], ReadConf(lines))

FilesSpec == CallsInit /\ [][ReadsAny]_<<call, result>>

(* read_conf and write_conf: whatever is in the file, it is read if and     *)
(* only if no line is wrong and no name is given twice, and what was read   *)
(* is written as a file from which the same is read.                        *)
THEOREM AnyConfFileIsRead == FilesSpec => []ConfFilesAreRead
<1>1. CallsInit => ConfFilesAreRead
  BY DEF CallsInit, NoCall, ConfFilesAreRead
<1>2. ASSUME ConfFilesAreRead, UNCHANGED <<call, result>>
      PROVE  ConfFilesAreRead'
  BY <1>2 DEF ConfFilesAreRead
<1>3. ASSUME ReadsAny
      PROVE  ConfFilesAreRead'
  <2>1. PICK lines : /\ AreLines(lines) /\ PlainSections(lines)
                     /\ call' = [name |-> "conf", lines |-> lines]
                     /\ result' = ReadConf(lines)
    BY Zenon, <1>3 DEF ReadsAny, Called
  <2>2. ReadRightly(lines, result')
    BY <2>1, FileIsRead
  <2>3. call'.lines = lines
    BY <2>1
  <2> QED
    BY <2>2, <2>3 DEF ConfFilesAreRead
<1> QED
  BY <1>1, <1>2, <1>3, PTL DEF FilesSpec

(* The files that are checked are among them.                               *)
LEMMA ReadsAreAny == ReadsConf => ReadsAny
<1> SUFFICES ASSUME ReadsConf PROVE ReadsAny
  OBVIOUS
<1>1. PICK lines \in UNION {[1 .. n -> ConfLines] : n \in 0 .. 5} :
         Called([name |-> "conf", lines |-> lines], ReadConf(lines))
  BY Zenon DEF ReadsConf
<1>6. PICK n \in 0 .. 5 : lines \in [1 .. n -> ConfLines]
  BY Zenon, <1>1
<1>2. ASSUME NEW line \in ConfLines PROVE line.kind \in LineKinds /\ Plain(line)
  <2> DEFINE blank == Word("")
             word == Word("x")
  <2>1. line \in {[kind |-> "nothing", key |-> "", value |-> blank],
                  [kind |-> "wrong", key |-> "", value |-> blank],
                  [kind |-> "section", key |-> "A", value |-> blank],
                  [kind |-> "section", key |-> "B", value |-> blank],
                  [kind |-> "key", key |-> "a", value |-> word],
                  [kind |-> "key", key |-> "b", value |-> blank],
                  [kind |-> "key", key |-> "A", value |-> word]}
    BY Zenon DEF ConfLines, Nothing, WrongLine, SectionLine, KeyLine
  <2>2. /\ line.kind \in LineKinds
        /\ line.kind = "section" => line.value = blank
    <3> HIDE DEF blank, word
    <3> USE DEF LineKinds
    <3>1. CASE line = [kind |-> "nothing", key |-> "", value |-> blank]
      BY <3>1
    <3>2. CASE line = [kind |-> "wrong", key |-> "", value |-> blank]
      BY <3>2
    <3>3. CASE \E k : line = [kind |-> "section", key |-> k, value |-> blank]
      BY <3>3
    <3>4. CASE \E k, v : line = [kind |-> "key", key |-> k, value |-> v]
      BY <3>4
    <3> QED
      BY Zenon, <2>1, <3>1, <3>2, <3>3, <3>4
  <2> QED
    BY Zenon, <2>2 DEF Plain
<1> HIDE DEF ConfLines
<1>3. lines \in Seq(ConfLines)
  <2>1. n \in Nat
    OBVIOUS
  <2> QED
    BY <1>6, <2>1, SeqDef
<1>4. IsList(lines) /\ \A i \in DOMAIN lines : lines[i] \in ConfLines
  BY <1>3, ListOf
<1>5. AreLines(lines) /\ PlainSections(lines)
  BY <1>2, <1>4 DEF AreLines, PlainSections
<1> QED
  BY Zenon, <1>1, <1>5 DEF ReadsAny

-----------------------------------------------------------------------------
(* Sizes                                                                    *)

(* A fold within X whose steps are those of g.                              *)
FoldsIn(X, f, g, base, n) ==
  /\ f = [s \in SUBSET (1 .. n) |-> f[s]]
  /\ f[{}] = base
  /\ \A s \in SUBSET (1 .. n) :
       s # {} => /\ f[s \ {Max(s)}] \in X /\ Max(s) \in 1 .. n
                 /\ f[s] = g[<<f[s \ {Max(s)}], Max(s)>>]

LEMMA FoldSteps ==
  ASSUME NEW n \in Nat, NEW X, NEW base \in X, NEW g \in [X \X (1 .. n) -> X]
  PROVE  \E f : FoldsIn(X, f, g, base, n)
<1>1. PICK f : FoldsBy(f, g, base, 1 .. n)
  BY FoldExists
<1>2. \A s \in SUBSET (1 .. n) : f[s] \in X
  BY <1>1, FoldInSet
<1>3. f = [s \in SUBSET (1 .. n) |-> f[s]] /\ f[{}] = base
  BY <1>1 DEF FoldsBy
<1>4. ASSUME NEW s \in SUBSET (1 .. n), s # {}
      PROVE  /\ f[s \ {Max(s)}] \in X /\ Max(s) \in 1 .. n
             /\ f[s] = g[<<f[s \ {Max(s)}], Max(s)>>]
  <2>1. Max(s) \in s
    BY <1>4, MaxIsIn
  <2>2. f[s] = g[<<f[s \ {Max(s)}], Max(s)>>]
    BY <1>1, <1>4 DEF FoldsBy
  <2> QED
    BY <1>2, <2>1, <2>2
<1> QED
  BY <1>3, <1>4 DEF FoldsIn

(* A function on the sets of places, followed from one place to the next.   *)
LEMMA PlaceByPlace ==
  ASSUME NEW n \in Nat, NEW i \in 1 .. n
  PROVE  /\ 1 .. i \in SUBSET (1 .. n) /\ 1 .. i # {}
         /\ Max(1 .. i) = i /\ (1 .. i) \ {Max(1 .. i)} = 1 .. (i - 1)
<1>1. i \in Nat /\ 1 <= i /\ i <= n
  OBVIOUS
<1>2. \A m \in 1 .. i : m \in 1 .. n
  BY <1>1
<1>3. 1 \in 1 .. i /\ i # 0
  BY <1>1
<1> QED
  BY <1>1, <1>2, <1>3, LastOfSome

ProductsBy(f, dims) ==
  f = [s \in SUBSET DOMAIN dims |->
         IF s = {} THEN 1 ELSE f[s \ {Max(s)}] * dims[Max(s)]]

LEMMA LongProductIs ==
  ASSUME NEW dims
  PROVE  LongProduct(dims) = (CHOOSE f : ProductsBy(f, dims))[DOMAIN dims]
BY Zenon DEF LongProduct, FoldLeft, MapThenFoldSet, ProductsBy

LEMMA ProductExists ==
  ASSUME NEW dims \in Seq(Int)
  PROVE  \E f : ProductsBy(f, dims)
<1> DEFINE n == Len(dims)
           g == [p \in Int \X (1 .. n) |-> p[1] * dims[p[2]]]
<1>1. n \in Nat /\ DOMAIN dims = 1 .. n /\ \A i \in 1 .. n : dims[i] \in Int
  BY LenProperties, ElementOfSeq
<1> HIDE DEF n
<1>2. g \in [Int \X (1 .. n) -> Int] /\ \A x \in Int, i \in 1 .. n : g[<<x, i>>] = x * dims[i]
  BY <1>1
<1> HIDE DEF g
<1>3. 1 \in Int
  OBVIOUS
<1>4. PICK f : FoldsIn(Int, f, g, 1, n)
  BY <1>1, <1>2, <1>3, FoldSteps
<1>8. f = [s \in SUBSET (1 .. n) |-> f[s]]
  BY <1>4 DEF FoldsIn
<1> DEFINE h == [s \in SUBSET (1 .. n) |->
                   IF s = {} THEN 1 ELSE f[s \ {Max(s)}] * dims[Max(s)]]
<1>5. ASSUME NEW s \in SUBSET (1 .. n) PROVE f[s] = h[s]
  <2>1. CASE s = {}
    BY <1>4, <2>1 DEF FoldsIn
  <2>2. CASE s # {}
    <3>1. /\ f[s \ {Max(s)}] \in Int /\ Max(s) \in 1 .. n
          /\ f[s] = g[<<f[s \ {Max(s)}], Max(s)>>]
      BY <1>4, <2>2 DEF FoldsIn
    <3>2. f[s] = f[s \ {Max(s)}] * dims[Max(s)]
      BY <1>2, <3>1
    <3> QED
      BY <2>2, <3>2
  <2> QED
    BY <2>1, <2>2
<1>6. h = [s \in SUBSET (1 .. n) |-> h[s]]
  OBVIOUS
<1>7. f = h
  <2> HIDE DEF h
  <2> QED
    BY <1>5, <1>6, <1>8
<1> QED
  BY <1>1, <1>7 DEF ProductsBy

(* long_product by the dimensions.                                          *)
LEMMA ProductIs ==
  ASSUME NEW dims \in Seq(Int)
  PROVE  \E h : /\ h[0] = 1
                /\ \A i \in 1 .. Len(dims) : h[i] = h[i - 1] * dims[i]
                /\ \A i \in 0 .. Len(dims) : h[i] \in Int
                /\ LongProduct(dims) = h[Len(dims)]
<1> DEFINE n == Len(dims)
           r == CHOOSE f : ProductsBy(f, dims)
           h == [i \in 0 .. n |-> r[1 .. i]]
<1>1. n \in Nat /\ DOMAIN dims = 1 .. n /\ \A i \in 1 .. n : dims[i] \in Int
  BY LenProperties, ElementOfSeq
<1>2. ProductsBy(r, dims)
  BY ProductExists
<1>3. LongProduct(dims) = r[1 .. n]
  BY <1>1, LongProductIs
<1> HIDE DEF r, n
<1>4. r[{}] = 1 /\ 1 .. 0 = {}
  <2>1. 1 .. 0 = {} /\ {} \in SUBSET (1 .. n)
    OBVIOUS
  <2> QED
    BY <1>1, <1>2, <2>1 DEF ProductsBy
<1>5. ASSUME NEW i \in 1 .. n PROVE r[1 .. i] = r[1 .. (i - 1)] * dims[i]
  <2>1. /\ 1 .. i \in SUBSET (1 .. n) /\ 1 .. i # {}
        /\ Max(1 .. i) = i /\ (1 .. i) \ {Max(1 .. i)} = 1 .. (i - 1)
    BY <1>1, PlaceByPlace
  <2>2. r[1 .. i] = r[(1 .. i) \ {Max(1 .. i)}] * dims[Max(1 .. i)]
    BY <1>1, <1>2, <2>1 DEF ProductsBy
  <2> QED
    BY <2>1, <2>2
<1>6. /\ h[0] = 1 /\ h[n] = r[1 .. n]
      /\ \A i \in 1 .. n : h[i] = h[i - 1] * dims[i]
  <2>1. 0 \in 0 .. n /\ n \in 0 .. n
    BY <1>1
  <2>2. ASSUME NEW i \in 1 .. n PROVE h[i] = h[i - 1] * dims[i]
    <3>1. i \in 0 .. n /\ i - 1 \in 0 .. n
      BY <1>1
    <3> QED
      BY <1>5, <3>1
  <2> QED
    BY <1>4, <2>1, <2>2
<1> HIDE DEF h
<1> DEFINE C == {i \in 0 .. n : h[i] \in Int}
<1>7. C = 0 .. n
  <2>1. 0 \in C
    BY <1>1, <1>6
  <2>2. ASSUME NEW i \in 0 .. n, i # 0, i - 1 \in C PROVE i \in C
    <3>1. i \in 1 .. n /\ h[i - 1] \in Int
      BY <1>1, <2>2
    <3> QED
      BY <1>1, <1>6, <3>1
  <2>3. C \in SUBSET (0 .. n)
    OBVIOUS
  <2> HIDE DEF C
  <2> QED
    BY <1>1, <2>1, <2>2, <2>3, UpTo
<1>8. \A i \in 0 .. n : h[i] \in Int
  BY <1>7
<1> QED
  BY <1>3, <1>6, <1>8 DEF n

LEMMA ProductIsInt ==
  ASSUME NEW dims \in Seq(Int)
  PROVE  LongProduct(dims) \in Int
<1>1. Len(dims) \in 0 .. Len(dims)
  BY LenProperties
<1> QED
  BY <1>1, ProductIs

LEMMA ProductOfTwo ==
  ASSUME NEW a \in Int, NEW b \in Int
  PROVE  LongProduct(<<a, b>>) = a * b
<1>1. <<a, b>> \in Seq(Int) /\ Len(<<a, b>>) = 2
  OBVIOUS
<1>2. PICK h : /\ h[0] = 1
               /\ \A i \in 1 .. 2 : h[i] = h[i - 1] * <<a, b>>[i]
               /\ LongProduct(<<a, b>>) = h[2]
  BY <1>1, ProductIs
<1>3. h[1] = 1 * a /\ h[2] = h[1] * b
  BY <1>2
<1> QED
  BY <1>2, <1>3

LEMMA ProductOfThree ==
  ASSUME NEW a \in Int, NEW b \in Int, NEW c \in Int
  PROVE  LongProduct(<<a, b, c>>) = a * b * c
<1>1. <<a, b, c>> \in Seq(Int) /\ Len(<<a, b, c>>) = 3
  OBVIOUS
<1>2. PICK h : /\ h[0] = 1
               /\ \A i \in 1 .. 3 : h[i] = h[i - 1] * <<a, b, c>>[i]
               /\ LongProduct(<<a, b, c>>) = h[3]
  BY <1>1, ProductIs
<1>3. h[1] = 1 * a /\ h[2] = h[1] * b /\ h[3] = h[2] * c
  BY <1>2
<1>4. h[1] = a
  BY <1>3
<1> QED
  BY <1>2, <1>3, <1>4

-----------------------------------------------------------------------------
(* Headers                                                                  *)

(* Any header: in place of a number there may be a word, but no list of     *)
(* words and numbers is taken for anything else.                            *)
NumberKeys == {"NDims", "Offset", "ElementSpacing", "DimSize"}

IsHeader(header) ==
  /\ IsList(header.lines) /\ header.ended \in BOOLEAN
  /\ \A i \in DOMAIN header.lines :
       header.lines[i].key \in NumberKeys => header.lines[i].value \in Seq(Int)

Complete(header) == IF header.ended THEN header.lines ELSE Front(header.lines)

LinesAt(header, line) == {i \in DOMAIN Complete(header) : Complete(header)[i] = line}

LEMMA CompleteIs ==
  ASSUME NEW header, IsHeader(header)
  PROVE  /\ Len(Complete(header)) \in Nat
         /\ DOMAIN Complete(header) = 1 .. Len(Complete(header))
         /\ \A i \in DOMAIN Complete(header) :
              Complete(header)[i].key \in NumberKeys
                => Complete(header)[i].value \in Seq(Int)
<1> DEFINE e == header.lines
           X == {e[i] : i \in DOMAIN e}
<1>1. /\ e \in Seq(X) /\ Len(e) \in Nat /\ DOMAIN e = 1 .. Len(e)
  BY ListIs DEF IsHeader, IsList
<1>2. \A x \in X : x.key \in NumberKeys => x.value \in Seq(Int)
  BY DEF IsHeader
<1>3. Complete(header) \in Seq(X)
  <2> HIDE DEF X
  <2>1. CASE header.ended
    BY <1>1, <2>1 DEF Complete
  <2>2. CASE ~header.ended
    <3>1. CASE e = <<>>
      <4>1. Front(e) = <<>>
        BY <1>1, <3>1 DEF Front
      <4> QED
        BY <2>2, <4>1 DEF Complete
    <3>2. CASE e # <<>>
      <4>1. Front(e) \in Seq(X)
        BY <1>1, <3>2, FrontAndLast
      <4> QED
        BY <2>2, <4>1 DEF Complete
    <3> QED
      BY <3>1, <3>2
  <2> QED
    BY <2>1, <2>2
<1> DEFINE c == Complete(header)
<1> HIDE DEF X, c
<1>4. Len(c) \in Nat /\ DOMAIN c = 1 .. Len(c) /\ \A i \in DOMAIN c : c[i] \in X
  <2>1. c \in Seq(X)
    BY <1>3 DEF c
  <2> QED
    BY <2>1, ListOf, ElementOfSeq
<1> QED
  BY <1>2, <1>4 DEF c

(* The last of several lines.                                               *)
LEMMA LastLineIs ==
  ASSUME NEW n \in Nat, NEW s \in SUBSET (1 .. n), s # {}
  PROVE  Max(s) \in s
BY MaxIsIn

LEMMA FirstLineIs ==
  ASSUME NEW n \in Nat, NEW s \in SUBSET (1 .. n), s # {}
  PROVE  Min(s) \in s /\ \A i \in s : Min(s) <= i
<1>1. s \in SUBSET Nat
  OBVIOUS
<1>2. \E x \in s : \A y \in s : x <= y
  BY <1>1, LeastNatural
<1> QED
  BY <1>2 DEF Min

LEMMA BlankIsBlank ==
  /\ Blank # Malformed
  /\ Blank.key \notin NumberKeys /\ Malformed.key \notin NumberKeys
<1>1. Blank.value # Malformed.value
  BY DEF Blank, Malformed
<1> QED
  BY <1>1 DEF Blank, Malformed, NumberKeys

(* ParseMeta.                                                               *)
LEMMA ParsedIs ==
  ASSUME NEW header, IsHeader(header)
  PROVE  LET c == Complete(header)
             parsed == ParseMeta(header)
         IN  /\ parsed.outcome \in {"ok", "throws", "hangs"}
             /\ parsed.outcome = "hangs"
                  <=> \E i \in LinesAt(header, Blank) :
                        \A j \in LinesAt(header, Malformed) : i < j
             /\ parsed.outcome = "ok" =>
                  \A key \in DOMAIN parsed.meta :
                    \E i \in DOMAIN c : c[i].key = key /\ parsed.meta[key] = c[i].value
<1> DEFINE c == Complete(header)
           n == Len(c)
           bad == {i \in DOMAIN c : c[i] \in {Blank, Malformed}}
           of(key) == {i \in DOMAIN c : c[i].key = key}
           keys == {c[i].key : i \in DOMAIN c}
           meta == [key \in keys |-> c[Max(of(key))].value]
           parsed == ParseMeta(header)
<1>1. n \in Nat /\ DOMAIN c = 1 .. n
  BY CompleteIs
<1>2. parsed = IF bad # {}
               THEN IF c[Min(bad)] = Blank THEN [outcome |-> "hangs"] ELSE Fails
               ELSE [outcome |-> "ok", meta |-> meta]
  BY DEF ParseMeta, Complete
<1>3. /\ LinesAt(header, Blank) = {i \in DOMAIN c : c[i] = Blank}
      /\ LinesAt(header, Malformed) = {i \in DOMAIN c : c[i] = Malformed}
  BY DEF LinesAt
<1>4. ASSUME NEW key \in keys
      PROVE  \E i \in DOMAIN c : c[i].key = key /\ meta[key] = c[i].value
  <2>1. of(key) \in SUBSET (1 .. n) /\ of(key) # {}
    BY <1>1
  <2>2. Max(of(key)) \in of(key)
    BY <1>1, <2>1, LastLineIs
  <2>3. meta[key] = c[Max(of(key))].value
    BY <1>4
  <2> HIDE DEF meta, keys, c
  <2> QED
    BY <2>2, <2>3
<1>5. CASE bad = {}
  <2>1. parsed.outcome = "ok" /\ parsed.meta = meta
    BY <1>2, <1>5
  <2>2. LinesAt(header, Blank) = {}
    BY <1>3, <1>5
  <2>3. DOMAIN meta = keys
    OBVIOUS
  <2> HIDE DEF meta, keys, c, parsed, bad
  <2> QED
    BY <1>4, <2>1, <2>2, <2>3 DEF c, parsed
<1>6. CASE bad # {}
  <2> DEFINE first == Min(bad)
  <2>1. first \in bad /\ \A i \in bad : first <= i
    <3>1. bad \in SUBSET (1 .. n)
      BY <1>1
    <3> HIDE DEF bad, n
    <3> QED
      BY <1>1, <1>6, <3>1, FirstLineIs
  <2>2. first \in 1 .. n
    BY <1>1, <2>1
  <2>3. CASE c[first] = Blank
    <3>1. parsed.outcome = "hangs"
      BY <1>2, <1>6, <2>3
    <3>2. first \in LinesAt(header, Blank)
      BY <1>3, <2>1, <2>3
    <3>3. ASSUME NEW j \in LinesAt(header, Malformed) PROVE first < j
      <4>1. j \in bad /\ c[j] = Malformed /\ j \in 1 .. n
        BY <1>1, <1>3, <3>3
      <4>2. j # first
        BY <2>3, <4>1, BlankIsBlank
      <4> HIDE DEF first, bad, c, n
      <4> QED
        BY <1>1, <2>1, <2>2, <4>1, <4>2
    <3> HIDE DEF parsed, first, c
    <3> QED
      BY <3>1, <3>2, <3>3 DEF parsed
  <2>4. CASE c[first] # Blank
    <3>1. parsed.outcome = "throws"
      BY <1>2, <1>6, <2>4 DEF Fails
    <3>2. c[first] = Malformed
      BY <2>1, <2>4
    <3>3. first \in LinesAt(header, Malformed)
      BY <1>3, <2>1, <3>2
    <3>4. ASSUME NEW i \in LinesAt(header, Blank) PROVE ~(i < first)
      <4>1. i \in bad /\ i \in 1 .. n
        BY <1>1, <1>3, <3>4
      <4> HIDE DEF first, bad, c, n
      <4> QED
        BY <1>1, <2>1, <2>2, <4>1
    <3> HIDE DEF parsed, first, c
    <3> QED
      BY <3>1, <3>3, <3>4 DEF parsed
  <2> QED
    BY <2>3, <2>4
<1> QED
  BY <1>5, <1>6

LEMMA ReverseIs ==
  ASSUME NEW X, NEW v \in Seq(X)
  PROVE  /\ ReverseTuple(v) \in Seq(X)
         /\ Len(ReverseTuple(v)) = Len(v)
         /\ Range(ReverseTuple(v)) \subseteq Range(v)
         /\ ReverseTuple(ReverseTuple(v)) = v
<1> DEFINE n == Len(v)
           u == ReverseTuple(v)
<1>1. n \in Nat /\ DOMAIN v = 1 .. n /\ v = [i \in 1 .. n |-> v[i]]
      /\ \A i \in 1 .. n : v[i] \in X
  BY LenProperties, ElementOfSeq
<1>2. u = [i \in 1 .. n |-> v[n + 1 - i]]
  BY <1>1 DEF ReverseTuple
<1>3. \A i \in 1 .. n : n + 1 - i \in 1 .. n /\ n + 1 - (n + 1 - i) = i
  BY <1>1
<1> HIDE DEF n, u
<1>4. u \in [1 .. n -> X]
  BY <1>1, <1>2, <1>3
<1>5. u \in Seq(X) /\ Len(u) = n /\ DOMAIN u = 1 .. n
  <2>1. u \in Seq(X)
    BY <1>1, <1>4, SeqDef
  <2>2. DOMAIN u = 1 .. n /\ DOMAIN u = 1 .. Len(u) /\ Len(u) \in Nat
    BY <1>4, <2>1, LenProperties
  <2> QED
    BY <1>1, <2>1, <2>2
<1>6. ASSUME NEW x \in Range(u) PROVE x \in Range(v)
  <2>1. PICK i \in 1 .. n : x = u[i]
    BY <1>5 DEF Range
  <2> QED
    BY <1>1, <1>2, <1>3, <2>1 DEF Range
<1>7. ReverseTuple(u) = v
  <2>1. ReverseTuple(u) = [i \in 1 .. n |-> u[n + 1 - i]]
    BY <1>5 DEF ReverseTuple
  <2>2. \A i \in 1 .. n : u[n + 1 - i] = v[i]
    BY <1>1, <1>2, <1>3
  <2> QED
    BY <1>1, <2>1, <2>2
<1> QED
  BY <1>5, <1>6, <1>7 DEF n, u

(* A size, an origin or a spacing of an image that is accepted.             *)
FieldFits(t, ndims) ==
  /\ t \in Seq(Int) /\ Len(t) = ndims /\ NoNumber \notin Range(t)

(* What GetInformation finds in a header that it accepts.                   *)
IsInformation(info) ==
  /\ FieldFits(info.dims, info.ndims)
  /\ info.origin # Absent => FieldFits(info.origin, info.ndims)
  /\ info.spacing # Absent => FieldFits(info.spacing, info.ndims)
  /\ info.order \in {Absent, <<"big">>, <<"little">>}

LEMMA ReversedFits ==
  ASSUME NEW v \in Seq(Int), NEW ndims, IsVector(v, ndims)
  PROVE  FieldFits(ReverseTuple(v), ndims)
<1> DEFINE X == Int
<1>1. v \in Seq(X)
  OBVIOUS
<1> HIDE DEF X
<1>2. /\ ReverseTuple(v) \in Seq(X) /\ Len(ReverseTuple(v)) = Len(v)
      /\ Range(ReverseTuple(v)) \subseteq Range(v)
  BY <1>1, ReverseIs
<1> QED
  BY <1>2 DEF IsVector, FieldFits, X

LEMMA InformationIs ==
  ASSUME NEW header, IsHeader(header)
  PROVE  /\ GetInformation(header).outcome = "hangs" <=> ParseMeta(header).outcome = "hangs"
         /\ GetInformation(header).outcome = "ok" => IsInformation(GetInformation(header))
<1> DEFINE c == Complete(header)
           parsed == ParseMeta(header)
           meta   == parsed.meta
           has(key) == key \in DOMAIN meta
           is(key, values) == has(key) => meta[key] \in values
           flags  == {<<"True">>, <<"False">>}
           ndims  == meta["NDims"][1]
           vector(key) == IF has(key) THEN ReverseTuple(meta[key]) ELSE Absent
           order  == IF has("ElementByteOrderMSB") THEN meta["ElementByteOrderMSB"]
                     ELSE IF has("BinaryDataByteOrderMSB")
                     THEN meta["BinaryDataByteOrderMSB"] ELSE Absent
           sound == /\ is("ObjectType", {<<"Image">>})
                    /\ has("NDims") /\ IsVector(meta["NDims"], 1)
                    /\ is("BinaryData", {<<"True">>})
                    /\ is("BinaryDataByteOrderMSB", flags)
                    /\ is("ElementByteOrderMSB", flags)
                    /\ is("CompressedData", {<<"False">>})
                    /\ has("Offset") => IsVector(meta["Offset"], ndims)
                    /\ has("ElementSpacing") => IsVector(meta["ElementSpacing"], ndims)
                    /\ has("DimSize") /\ IsVector(meta["DimSize"], ndims)
                    /\ has("ElementType") /\ is("ElementType", {<<type>> : type \in Types})
                    /\ has("ElementDataFile")
           found == [outcome |-> "ok",
                     ndims   |-> ndims,
                     dims    |-> vector("DimSize"),
                     origin  |-> vector("Offset"),
                     spacing |-> vector("ElementSpacing"),
                     type    |-> meta["ElementType"][1],
                     order   |-> IF order = <<"True">> THEN <<"big">>
                                 ELSE IF order = <<"False">> THEN <<"little">>
                                 ELSE Absent,
                     raw     |-> meta["ElementDataFile"][1]]
           info == GetInformation(header)
<1>1. info = IF parsed.outcome # "ok" THEN parsed ELSE IF sound THEN found ELSE Fails
  BY Zenon DEF GetInformation
<1>2. found.outcome = "ok" /\ Fails.outcome = "throws"
  BY DEF Fails
<1>3. ASSUME parsed.outcome = "ok", NEW key \in NumberKeys, has(key)
      PROVE  meta[key] \in Seq(Int)
  <2>1. PICK i \in DOMAIN c : c[i].key = key /\ meta[key] = c[i].value
    <3> HIDE DEF c
    <3> QED
      BY <1>3, ParsedIs DEF c
  <2>2. c[i].value \in Seq(Int)
    BY <2>1, CompleteIs
  <2> HIDE DEF meta, c
  <2> QED
    BY <2>1, <2>2
<1>4. ASSUME parsed.outcome = "ok", sound PROVE IsInformation(found)
  <2>1. ASSUME NEW key \in {"Offset", "ElementSpacing", "DimSize"},
               has(key), IsVector(meta[key], ndims)
        PROVE  FieldFits(vector(key), ndims)
    <3>1. meta[key] \in Seq(Int)
      BY <1>3, <1>4, <2>1 DEF NumberKeys
    <3>2. vector(key) = ReverseTuple(meta[key])
      BY <2>1
    <3> HIDE DEF meta, has, vector, ndims
    <3> QED
      BY <2>1, <3>1, <3>2, ReversedFits
  <2>2. FieldFits(vector("DimSize"), ndims)
    BY <1>4, <2>1
  <2>3. ASSUME NEW key \in {"Offset", "ElementSpacing"}, vector(key) # Absent
        PROVE  FieldFits(vector(key), ndims)
    <3>1. has(key)
      BY <2>3
    <3>2. IsVector(meta[key], ndims)
      BY <1>4, <2>3, <3>1
    <3> QED
      BY <2>1, <3>1, <3>2
  <2>4. /\ found.dims = vector("DimSize") /\ found.origin = vector("Offset")
        /\ found.spacing = vector("ElementSpacing") /\ found.ndims = ndims
        /\ found.order \in {Absent, <<"big">>, <<"little">>}
    OBVIOUS
  <2> HIDE DEF found, vector, ndims, has, sound, meta
  <2> QED
    BY <2>2, <2>3, <2>4 DEF IsInformation
<1> HIDE DEF sound, found, parsed
<1> QED
  BY <1>1, <1>2, <1>4 DEF info, parsed

(* GetData, of as much data as the sizes ask for.                           *)
LEMMA DataIs ==
  ASSUME NEW info, IsInformation(info), NEW content, NEW host,
         NEW X, content \in Seq(X), Len(content) = LongProduct(info.dims) \/ LongProduct(info.dims) < 0
  PROVE  LET image == GetData(info, info.ndims, info.type, content, host)
             size == LongProduct(info.dims)
         IN  /\ image.outcome = "ok" <=> size >= 0
             /\ image.outcome = "ok" =>
                  Len(image.data) = size
<1> DEFINE image == GetData(info, info.ndims, info.type, content, host)
           size == LongProduct(info.dims)
           part == SubSeq(content, 1, size)
<1>1. size \in Int /\ Len(content) \in Nat
  BY ProductIsInt, LenProperties DEF IsInformation, FieldFits
<1>2. CASE size < 0
  <2>1. size \notin 0 .. Len(content)
    BY <1>1, <1>2
  <2>2. image = Fails
    BY <2>1 DEF GetData
  <2> HIDE DEF image, size
  <2> QED
    BY <1>1, <1>2, <2>2 DEF Fails, image, size
<1>3. CASE size >= 0
  <2>1. size \in 0 .. Len(content) /\ size = Len(content)
    BY <1>1, <1>3
  <2> DEFINE bytes == IF info.order = Absent THEN part
                     ELSE EndianConversion(part, info.order[1], host)
  <2>2. image.outcome = "ok" /\ image.data = bytes
    BY <2>1 DEF GetData
  <2>3. part = content
    BY <2>1, <1>1, PrefixIs
  <2>4. Len(bytes) = size
    <3>1. CASE info.order = Absent
      BY <2>1, <2>3, <3>1
    <3>2. CASE info.order # Absent
      <4> DEFINE from == info.order[1]
      <4>1. bytes = [k \in DOMAIN content |->
                      IF from = host THEN content[k] ELSE SwapBytes(content[k])]
        BY <2>3, <3>2 DEF EndianConversion
      <4>2. DOMAIN content = 1 .. Len(content)
        BY LenProperties
      <4> HIDE DEF bytes, size
      <4>3. bytes = [k \in 1 .. size |->
                      IF from = host THEN content[k] ELSE SwapBytes(content[k])]
        BY <2>1, <4>1, <4>2
      <4> QED
        BY <1>1, <1>3, <4>3
    <3> QED
      BY <3>1, <3>2
  <2> HIDE DEF image, size, bytes
  <2> QED
    BY <1>3, <2>2, <2>4 DEF image, size
<1> QED
  BY <1>1, <1>2, <1>3

(* Any header.                                                              *)
ReadsAnyHeader ==
  \E header :
    /\ IsHeader(header)
    /\ Called([name |-> "header", header |-> header], GetInformation(header))

HeadersSpec == CallsInit /\ [][ReadsAnyHeader]_<<call, result>>

(* GetInformation and GetData: the parser ends unless a line that is blank  *)
(* comes before any that is not understood; and whatever an accepted header *)
(* says, there is a number for each dimension, and as much data is read as  *)
(* the sizes ask for.                                                       *)
THEOREM AnyHeaderIsUnderstood == HeadersSpec => []HeadersAreUnderstood
<1>1. CallsInit => HeadersAreUnderstood
  BY DEF CallsInit, NoCall, HeadersAreUnderstood
<1>2. ASSUME HeadersAreUnderstood, UNCHANGED <<call, result>>
      PROVE  HeadersAreUnderstood'
  BY <1>2 DEF HeadersAreUnderstood
<1>3. ASSUME ReadsAnyHeader
      PROVE  HeadersAreUnderstood'
  <2>1. PICK header : /\ IsHeader(header)
                      /\ call' = [name |-> "header", header |-> header]
                      /\ result' = GetInformation(header)
    BY Zenon, <1>3 DEF ReadsAnyHeader, Called
  <2> DEFINE c == Complete(header)
             at(l) == {i \in DOMAIN c : c[i] = l}
             info == GetInformation(header)
             size == LongProduct(info.dims)
             content == [k \in 1 .. size |-> <<k, 10 + k>>]
             image == GetData(info, info.ndims, info.type, content, "little")
  <2>2. info.outcome = "hangs" <=> \E i \in at(Blank) : \A j \in at(Malformed) : i < j
    <3>1. ParseMeta(header).outcome = "hangs"
            <=> \E i \in LinesAt(header, Blank) : \A j \in LinesAt(header, Malformed) : i < j
      BY <2>1, ParsedIs
    <3>2. at(Blank) = LinesAt(header, Blank) /\ at(Malformed) = LinesAt(header, Malformed)
      BY DEF LinesAt
    <3>3. info.outcome = "hangs" <=> ParseMeta(header).outcome = "hangs"
      BY <2>1, InformationIs
    <3> HIDE DEF info, at
    <3> QED
      BY <3>1, <3>2, <3>3
  <2>3. ASSUME info.outcome = "ok"
        PROVE  /\ \A t \in {info.dims, info.spacing, info.origin} \ {Absent} :
                    Len(t) = info.ndims /\ NoNumber \notin Range(t)
               /\ image.outcome = "ok" <=> size >= 0
               /\ image.outcome = "ok" => Len(image.data) = size
    <3>1. IsInformation(info)
      BY <2>1, <2>3, InformationIs
    <3>2. size \in Int
      BY <3>1, ProductIsInt DEF IsInformation, FieldFits
    <3>3. content \in Seq(Int \X Int) /\ (size >= 0 => Len(content) = size)
      <4> HIDE DEF size
      <4>1. CASE size >= 0
        <5>1. content \in [1 .. size -> Int \X Int]
          BY <3>2, <4>1
        <5>2. content \in Seq(Int \X Int)
          BY <3>2, <4>1, <5>1, SeqDef
        <5> QED
          BY <3>2, <4>1, <5>2
      <4>2. CASE size < 0
        <5>1. 1 .. size = {} /\ 1 .. 0 = {} /\ 0 \in Nat
          BY <3>2, <4>2
        <5>2. content \in [1 .. 0 -> Int \X Int]
          BY <5>1
        <5>3. content \in Seq(Int \X Int)
          BY <5>1, <5>2, SeqDef
        <5> QED
          BY <3>2, <4>2, <5>3
      <4> QED
        BY <3>2, <4>1, <4>2
    <3> DEFINE X == Int \X Int
               host == "little"
    <3>4. content \in Seq(X) /\ (Len(content) = size \/ size < 0)
      BY <3>2, <3>3
    <3> HIDE DEF info, content, X, host
    <3>5. /\ GetData(info, info.ndims, info.type, content, host).outcome = "ok" <=> size >= 0
          /\ GetData(info, info.ndims, info.type, content, host).outcome = "ok" =>
               Len(GetData(info, info.ndims, info.type, content, host).data) = size
      BY <3>1, <3>4, DataIs
    <3>6. \A t \in {info.dims, info.spacing, info.origin} \ {Absent} :
             Len(t) = info.ndims /\ NoNumber \notin Range(t)
      BY <3>1 DEF IsInformation, FieldFits
    <3> QED
      BY <3>5, <3>6 DEF host
  <2>4. call'.header = header /\ call'.name = "header" /\ result' = info
    BY <2>1
  <2> HIDE DEF info
  <2> QED
    BY <2>2, <2>3, <2>4 DEF HeadersAreUnderstood, Complete
<1> QED
  BY <1>1, <1>2, <1>3, PTL DEF HeadersSpec

-----------------------------------------------------------------------------
(* Data in pieces                                                           *)

LEMMA TimesIs ==
  ASSUME NEW n \in Nat, NEW size \in Nat, NEW k \in 1 .. n
  PROVE  /\ (k - 1) * size \in Nat /\ k * size \in Nat /\ n * size \in Nat
         /\ k * size = (k - 1) * size + size
         /\ k * size <= n * size
<1>1. k \in Nat /\ k - 1 \in Nat /\ n - k \in Nat
  OBVIOUS
<1>2. \A a \in Nat : a * size \in Nat
  OBVIOUS
<1>3. (n - k) * size = n * size - k * size
  BY <1>1
<1>4. (k - 1) * size = k * size - size
  BY <1>1
<1>5. (n - k) * size \in Nat /\ (k - 1) * size \in Nat /\ k * size \in Nat /\ n * size \in Nat
  BY <1>1, <1>2
<1> QED
  BY <1>3, <1>4, <1>5

LEMMA PartIs ==
  ASSUME NEW E, NEW e \in Seq(E), NEW b \in 0 .. Len(e), NEW a \in 0 .. b
  PROVE  /\ SubSeq(e, a + 1, b) \in Seq(E)
         /\ Len(SubSeq(e, a + 1, b)) = b - a
         /\ DOMAIN SubSeq(e, a + 1, b) = 1 .. b - a
         /\ \A i \in 1 .. b - a : SubSeq(e, a + 1, b)[i] = e[a + i]
<1> DEFINE u == SubSeq(e, a + 1, b)
<1>1. Len(e) \in Nat /\ a + 1 \in 1 .. Len(e) + 1 /\ b \in (a + 1) - 1 .. Len(e)
  BY LenProperties
<1>2. /\ u \in Seq(E) /\ Len(u) = b - (a + 1) + 1
      /\ \A i \in 1 .. b - (a + 1) + 1 : u[i] = e[a + 1 + i - 1]
  BY <1>1, SubSeqProperties
<1>3. DOMAIN u = 1 .. Len(u)
  BY <1>2, LenProperties
<1> HIDE DEF u
<1>4. b - (a + 1) + 1 = b - a /\ \A i \in Nat : a + 1 + i - 1 = a + i
  BY <1>1
<1> QED
  BY <1>2, <1>3, <1>4 DEF u

LEMMA PartsJoin ==
  ASSUME NEW E, NEW e \in Seq(E), NEW b \in 0 .. Len(e), NEW a \in 0 .. b
  PROVE  SubSeq(e, 1, a) \o SubSeq(e, a + 1, b) = SubSeq(e, 1, b)
<1>1. Len(e) \in Nat
  BY LenProperties
<1>2. 1 \in 1 .. Len(e) + 1 /\ a \in 1 - 1 .. Len(e) /\ b \in a .. Len(e)
  BY <1>1
<1> QED
  BY <1>2, ConcatAdjacentSubSeq

Piece(bytes, size, k) == SubSeq(bytes, (k - 1) * size + 1, k * size)

(* Pieces of one size make up what they are pieces of.                      *)
LEMMA PiecesMake ==
  ASSUME NEW E, NEW bytes \in Seq(E), NEW n \in Nat, NEW size \in Nat,
         Len(bytes) = n * size
  PROVE  FlattenSeq([k \in 1 .. n |-> Piece(bytes, size, k)]) = bytes
<1> DEFINE seqs == [k \in 1 .. n |-> Piece(bytes, size, k)]
<1>1. ASSUME NEW k \in 1 .. n
      PROVE  /\ Piece(bytes, size, k) \in Seq(E)
             /\ SubSeq(bytes, 1, (k - 1) * size) \o Piece(bytes, size, k)
                  = SubSeq(bytes, 1, k * size)
  <2> DEFINE a == (k - 1) * size
             b == k * size
  <2>1. b \in 0 .. Len(bytes) /\ a \in 0 .. b
    BY TimesIs
  <2>2. Piece(bytes, size, k) = SubSeq(bytes, a + 1, b)
    BY DEF Piece
  <2> HIDE DEF a, b
  <2>3. /\ SubSeq(bytes, a + 1, b) \in Seq(E)
        /\ SubSeq(bytes, 1, a) \o SubSeq(bytes, a + 1, b) = SubSeq(bytes, 1, b)
    BY <2>1, PartIs, PartsJoin
  <2> QED
    BY <2>2, <2>3 DEF a, b
<1>2. seqs \in Seq(Seq(E)) /\ Len(seqs) = n /\ \A k \in 1 .. n : seqs[k] = Piece(bytes, size, k)
  <2> DEFINE Y == Seq(E)
  <2>1. seqs \in [1 .. n -> Y]
    BY <1>1
  <2>2. \A k \in 1 .. n : seqs[k] = Piece(bytes, size, k)
    OBVIOUS
  <2> HIDE DEF Y, seqs
  <2>3. seqs \in Seq(Y)
    BY <2>1, SeqDef
  <2>4. DOMAIN seqs = 1 .. n /\ DOMAIN seqs = 1 .. Len(seqs) /\ Len(seqs) \in Nat
    BY <2>1, <2>3, LenProperties
  <2>5. Len(seqs) = n
    BY <2>4
  <2> QED
    BY <2>2, <2>3, <2>5 DEF Y
<1> HIDE DEF seqs
<1>3. PICK f : /\ Flattens(f, seqs)
               /\ \A i \in 0 .. Len(seqs) : f[i] \in Seq(E)
               /\ FlattenSeq(seqs) = f[Len(seqs)]
  BY <1>2, FlattenIs
<1>4. /\ f[0] = <<>> /\ \A i \in 1 .. n : f[i] = f[i - 1] \o Piece(bytes, size, i)
      /\ FlattenSeq(seqs) = f[n]
  BY <1>2, <1>3 DEF Flattens
<1> DEFINE C == {i \in 0 .. n : f[i] = SubSeq(bytes, 1, i * size)}
<1>5. C = 0 .. n
  <2>1. 0 \in C
    <3>1. 0 * size = 0 /\ SubSeq(bytes, 1, 0) = <<>>
      BY SubSeqEmpty
    <3>2. f[0] = SubSeq(bytes, 1, 0 * size)
      BY <1>4, <3>1
    <3>3. 0 \in 0 .. n
      OBVIOUS
    <3> QED
      BY <3>2, <3>3
  <2>2. ASSUME NEW i \in 0 .. n, i # 0, i - 1 \in C PROVE i \in C
    <3>1. i \in 1 .. n /\ f[i - 1] = SubSeq(bytes, 1, (i - 1) * size)
      BY <2>2
    <3>2. f[i] = f[i - 1] \o Piece(bytes, size, i)
      BY <1>4, <3>1
    <3> QED
      BY <1>1, <3>1, <3>2
  <2>3. C \in SUBSET (0 .. n)
    OBVIOUS
  <2> HIDE DEF C
  <2> QED
    BY <2>1, <2>2, <2>3, UpTo
<1>6. f[n] = SubSeq(bytes, 1, Len(bytes))
  <2>1. n \in C
    <3>1. n \in 0 .. n
      OBVIOUS
    <3> HIDE DEF C
    <3> QED
      BY <1>5, <3>1
  <2> QED
    BY <2>1
<1>7. SubSeq(bytes, 1, Len(bytes)) = bytes
  BY SubSeqFull
<1> QED
  BY <1>4, <1>6, <1>7 DEF seqs

-----------------------------------------------------------------------------
(* Bytes                                                                    *)

LEMMA SizesAreEven ==
  ASSUME NEW type \in Types
  PROVE  ElementSize(type) \in {1, 2, 4, 8}
BY DEF Types, ElementSize

LEMMA SwapIs ==
  ASSUME NEW v \in Seq(Int), Len(v) \in {2, 4, 8}
  PROVE  SwapBytes(v) = ReverseTuple(v)
<1> DEFINE size == Len(v)
           half == size \div 2
<1>1. DOMAIN v = 1 .. size
  BY LenProperties
<1>2. \A i \in 1 .. size : i <= half \/ i > size - half
  <2>1. size \in {2, 4, 8} /\ half = size \div 2
    OBVIOUS
  <2> HIDE DEF size, half
  <2>2. CASE size = 2
    BY <2>1, <2>2
  <2>3. CASE size = 4
    BY <2>1, <2>3
  <2>4. CASE size = 8
    BY <2>1, <2>4
  <2> QED
    BY <2>1, <2>2, <2>3, <2>4
<1>3. SwapBytes(v) = [i \in 1 .. size |-> IF i <= half \/ i > size - half
                                          THEN v[size + 1 - i] ELSE NoNumber]
  BY DEF SwapBytes
<1>4. ReverseTuple(v) = [i \in 1 .. size |-> v[size + 1 - i]]
  BY <1>1 DEF ReverseTuple
<1> HIDE DEF size, half
<1> QED
  BY <1>2, <1>3, <1>4

LEMMA ReversesAlike ==
  ASSUME NEW v \in Seq(Int)
  PROVE  Reverse(v) = ReverseTuple(v)
<1>1. DOMAIN v = 1 .. Len(v) /\ Len(v) \in Nat
  BY LenProperties
<1>2. \A i \in 1 .. Len(v) : (Len(v) - i) + 1 = Len(v) + 1 - i
  BY <1>1
<1> QED
  BY <1>1, <1>2 DEF Reverse, ReverseTuple

(* Bytes have one order or the other.                                       *)
LEMMA NativeIs ==
  ASSUME NEW picture, picture.type \in Types, NEW k \in Int,
         NEW from \in Orders, NEW to \in Orders
  PROVE  LET size == ElementSize(picture.type) IN
         /\ Native(picture, k, from) \in Seq(Int)
         /\ Len(Native(picture, k, from)) = size
         /\ from # to /\ size > 1 =>
              SwapBytes(Native(picture, k, from)) = Native(picture, k, to)
<1> DEFINE size == ElementSize(picture.type)
           v == Value(picture, k)
           r == ReverseTuple(v)
<1>1. size \in {1, 2, 4, 8}
  BY SizesAreEven
<1> HIDE DEF size
<1>2. v \in Seq(Int) /\ Len(v) = size
  <2>1. v = [b \in 1 .. size |-> 10 * k + b]
    BY DEF Value, size
  <2>2. v \in [1 .. size -> Int]
    BY <2>1
  <2> HIDE DEF v
  <2>3. v \in Seq(Int)
    BY <1>1, <2>2, SeqDef
  <2>4. DOMAIN v = 1 .. size /\ DOMAIN v = 1 .. Len(v) /\ Len(v) \in Nat
    BY <2>2, <2>3, LenProperties
  <2> QED
    BY <1>1, <2>3, <2>4
<1> HIDE DEF v
<1>3. r \in Seq(Int) /\ Len(r) = size /\ ReverseTuple(r) = v
  <2> DEFINE X == Int
  <2>1. v \in Seq(X)
    BY <1>2
  <2> HIDE DEF X
  <2>2. ReverseTuple(v) \in Seq(X) /\ Len(ReverseTuple(v)) = Len(v)
        /\ ReverseTuple(ReverseTuple(v)) = v
    BY <2>1, ReverseIs
  <2> QED
    BY <1>2, <2>2 DEF X
<1>4. /\ Native(picture, k, "big") = v /\ Native(picture, k, "little") = r
  BY <1>2, ReversesAlike DEF Native, v
<1> HIDE DEF r
<1>5. from = "big" \/ from = "little"
  BY DEF Orders
<1>6. to = "big" \/ to = "little"
  BY DEF Orders
<1>7. ASSUME size > 1 PROVE SwapBytes(v) = r /\ SwapBytes(r) = v
  <2>1. size \in {2, 4, 8}
    BY <1>1, <1>7
  <2>2. SwapBytes(v) = ReverseTuple(v) /\ SwapBytes(r) = ReverseTuple(r)
    BY <1>2, <1>3, <2>1, SwapIs
  <2> QED
    BY <1>3, <2>2 DEF r
<1> QED
  BY <1>2, <1>3, <1>4, <1>5, <1>6, <1>7 DEF size

Converted(e, from, to) == IF from = to THEN e ELSE SwapBytes(e)

AllConverted(E, from, to) == {Converted(x, from, to) : x \in E}

LEMMA ConversionIs ==
  ASSUME NEW E, NEW bytes \in Seq(E), NEW from, NEW to
  PROVE  LET c == EndianConversion(bytes, from, to)
         IN  /\ c \in Seq(AllConverted(E, from, to)) /\ Len(c) = Len(bytes)
             /\ \A k \in 1 .. Len(bytes) : c[k] = Converted(bytes[k], from, to)
<1> DEFINE F == AllConverted(E, from, to)
           c == EndianConversion(bytes, from, to)
           n == Len(bytes)
<1>1. n \in Nat /\ DOMAIN bytes = 1 .. n /\ \A k \in 1 .. n : bytes[k] \in E
  BY LenProperties, ElementOfSeq
<1>2. c = [k \in 1 .. n |-> Converted(bytes[k], from, to)]
  BY <1>1 DEF EndianConversion, Converted
<1> HIDE DEF c, n
<1>3. \A k \in 1 .. n : Converted(bytes[k], from, to) \in F
  BY <1>1 DEF AllConverted
<1> HIDE DEF F
<1>4. c \in [1 .. n -> F]
  BY <1>2, <1>3
<1>5. c \in Seq(F)
  BY <1>1, <1>4, SeqDef
<1>6. DOMAIN c = 1 .. n /\ DOMAIN c = 1 .. Len(c) /\ Len(c) \in Nat
  BY <1>4, <1>5, LenProperties
<1>7. Len(c) = n
  BY <1>1, <1>6
<1> QED
  BY <1>2, <1>5, <1>7 DEF F, c, n

(* To convert a part is to take it from what is converted.                  *)
ConvertsAlone(bytes, a, b, from, to) ==
  EndianConversion(SubSeq(bytes, a + 1, b), from, to)
    = SubSeq(EndianConversion(bytes, from, to), a + 1, b)

LEMMA ConvertsInParts ==
  ASSUME NEW E, NEW bytes \in Seq(E), NEW from, NEW to,
         NEW b \in 0 .. Len(bytes), NEW a \in 0 .. b
  PROVE  ConvertsAlone(bytes, a, b, from, to)
<1> DEFINE F == AllConverted(E, from, to)
           c == EndianConversion(bytes, from, to)
           u == SubSeq(bytes, a + 1, b)
           w == EndianConversion(u, from, to)
           z == SubSeq(c, a + 1, b)
<1>1. /\ u \in Seq(E) /\ Len(u) = b - a
      /\ \A i \in 1 .. b - a : u[i] = bytes[a + i]
  BY PartIs
<1>2. c \in Seq(F) /\ Len(c) = Len(bytes)
      /\ \A k \in 1 .. Len(bytes) : c[k] = Converted(bytes[k], from, to)
  BY ConversionIs
<1> HIDE DEF u
<1>3. w \in Seq(F) /\ Len(w) = b - a
      /\ \A k \in 1 .. b - a : w[k] = Converted(u[k], from, to)
  BY <1>1, ConversionIs
<1> HIDE DEF c, F, w
<1>4. z \in Seq(F) /\ Len(z) = b - a /\ \A i \in 1 .. b - a : z[i] = c[a + i]
  <2>1. b \in 0 .. Len(c)
    BY <1>2
  <2> QED
    BY <1>2, <2>1, PartIs
<1> HIDE DEF z
<1>5. Len(bytes) \in Nat
  BY LenProperties
<1>6. ASSUME NEW i \in 1 .. b - a PROVE w[i] = z[i]
  <2>1. a + i \in 1 .. Len(bytes)
    BY <1>5
  <2> QED
    BY <1>1, <1>2, <1>3, <1>4, <2>1
<1>7. w = z
  BY <1>3, <1>4, <1>6, SeqEqual
<1> QED
  BY <1>7 DEF ConvertsAlone, u, c, w, z

-----------------------------------------------------------------------------
(* StreamingRawWriter                                                       *)

LEMMA Quotients ==
  ASSUME NEW size \in Nat \ {0}, NEW k \in Nat
  PROVE  /\ k * size \in Nat
         /\ (k * size) % size = 0 /\ (k * size) \div size = k
<1>1. k * size \in Nat
  OBVIOUS
<1>2. (k * size) \div size = k
  OBVIOUS
<1>3. (k * size) % size = 0
  OBVIOUS
<1> QED
  BY <1>1, <1>2, <1>3

LEMMA FactorsAreOne ==
  ASSUME NEW size \in Nat \ {0}, NEW a \in Nat, NEW b \in Nat, a * size = b * size
  PROVE  a = b
BY Quotients

(* A slice, or a stack of slices.                                           *)
IsPortion(w, E, size) ==
  /\ w.data \in Seq(E)
  /\ \E k \in Nat : /\ Len(w.data) = k * size
                    /\ w.kind = "slice" => k = 1

Streamed(E) == [outcome : {"ok"}, data : Seq(E), slices : Nat]

StreamStep(size, s, w) ==
  IF s.outcome = "throws"
       \/ (IF w.kind = "slice" THEN Len(w.data) # size
           ELSE Len(w.data) % size # 0)
  THEN Fails
  ELSE [s EXCEPT !.data = @ \o w.data,
                 !.slices = @ + (IF w.kind = "slice" THEN 1
                                 ELSE Len(w.data) \div size)]

NothingStreamed == [outcome |-> "ok", data |-> <<>>, slices |-> 0]

StreamsBy(f, size, writes) ==
  f = [s \in SUBSET DOMAIN writes |->
         IF s = {} THEN NothingStreamed
         ELSE StreamStep(size, f[s \ {Max(s)}], writes[Max(s)])]

LEMMA StreamedBy ==
  ASSUME NEW sliceDims, NEW writes
  PROVE  StreamedFile(sliceDims, writes)
           = (CHOOSE f : StreamsBy(f, LongProduct(sliceDims), writes))[DOMAIN writes]
BY Zenon DEF StreamedFile, FoldLeft, MapThenFoldSet, StreamsBy, StreamStep, NothingStreamed

(* From s to r by w, with as many slices as there is data for.              *)
StepsTo(E, size, s, w, r) ==
  /\ r \in Streamed(E)
  /\ r.data = s.data \o w.data
  /\ Len(s.data) = s.slices * size => Len(r.data) = r.slices * size

LEMMA StreamStepIs ==
  ASSUME NEW E, NEW size \in Nat \ {0}, NEW s \in Streamed(E), NEW w, IsPortion(w, E, size)
  PROVE  StepsTo(E, size, s, w, StreamStep(size, s, w))
<1> DEFINE r == StreamStep(size, s, w)
           more == IF w.kind = "slice" THEN 1 ELSE Len(w.data) \div size
<1>1. PICK k \in Nat : Len(w.data) = k * size /\ (w.kind = "slice" => k = 1)
  BY DEF IsPortion
<1>2. w.data \in Seq(E) /\ s.data \in Seq(E) /\ s.slices \in Nat /\ s.outcome = "ok"
  BY DEF IsPortion, Streamed
<1>3. k * size \in Nat /\ (k * size) % size = 0 /\ (k * size) \div size = k
  BY Quotients
<1>4. Len(w.data) = size \/ w.kind # "slice"
  BY <1>1
<1>5. ~(IF w.kind = "slice" THEN Len(w.data) # size ELSE Len(w.data) % size # 0)
  BY <1>1, <1>3, <1>4
<1>6. r = [s EXCEPT !.data = @ \o w.data, !.slices = @ + more]
  BY <1>2, <1>5 DEF StreamStep
<1>7. more = k
  BY <1>1, <1>3
<1> HIDE DEF more, r
<1>8. s.data \o w.data \in Seq(E)
      /\ Len(s.data \o w.data) = Len(s.data) + Len(w.data)
  BY <1>2, ConcatProperties
<1>9. /\ r \in Streamed(E) /\ r.data = s.data \o w.data /\ r.slices = s.slices + k
  <2>1. r = [s EXCEPT !.data = s.data \o w.data, !.slices = s.slices + k]
    BY <1>6, <1>7
  <2>2. s.slices + k \in Nat
    BY <1>2
  <2> DEFINE d == s.data \o w.data
             m == s.slices + k
  <2>3. r = [s EXCEPT !.data = d, !.slices = m] /\ d \in Seq(E) /\ m \in Nat
    BY <1>8, <2>1, <2>2
  <2> HIDE DEF d, m
  <2>4. r \in Streamed(E) /\ r.data = d /\ r.slices = m
    BY <2>3 DEF Streamed
  <2> QED
    BY <2>4 DEF d, m
<1>10. (s.slices + k) * size = s.slices * size + k * size
  BY <1>2
<1>11. Len(s.data) = s.slices * size => Len(r.data) = r.slices * size
  BY <1>1, <1>8, <1>9, <1>10
<1> QED
  BY <1>9, <1>11 DEF r, StepsTo

LEMMA StreamsExist ==
  ASSUME NEW E, NEW size \in Nat \ {0}, NEW writes, NEW n \in Nat,
         DOMAIN writes = 1 .. n, \A i \in 1 .. n : IsPortion(writes[i], E, size)
  PROVE  \E f : StreamsBy(f, size, writes) /\ FoldsIn(Streamed(E), f,
           [p \in Streamed(E) \X (1 .. n) |-> StreamStep(size, p[1], writes[p[2]])],
           NothingStreamed, n)
<1> DEFINE X == Streamed(E)
           g == [p \in X \X (1 .. n) |-> StreamStep(size, p[1], writes[p[2]])]
<1>1. \A x \in X, i \in 1 .. n : StreamStep(size, x, writes[i]) \in X
  BY StreamStepIs DEF StepsTo
<1>2. NothingStreamed \in X
  <2>1. <<>> \in Seq(E)
    OBVIOUS
  <2> QED
    BY <2>1 DEF NothingStreamed, Streamed
<1> HIDE DEF X
<1>3. g \in [X \X (1 .. n) -> X]
      /\ \A x \in X, i \in 1 .. n : g[<<x, i>>] = StreamStep(size, x, writes[i])
  BY <1>1
<1> HIDE DEF g
<1>4. PICK f : FoldsIn(X, f, g, NothingStreamed, n)
  BY <1>2, <1>3, FoldSteps
<1>8. f = [s \in SUBSET (1 .. n) |-> f[s]]
  BY <1>4 DEF FoldsIn
<1> DEFINE h == [s \in SUBSET (1 .. n) |->
                   IF s = {} THEN NothingStreamed
                   ELSE StreamStep(size, f[s \ {Max(s)}], writes[Max(s)])]
<1>5. ASSUME NEW s \in SUBSET (1 .. n) PROVE f[s] = h[s]
  <2>1. CASE s = {}
    BY <1>4, <2>1 DEF FoldsIn
  <2>2. CASE s # {}
    <3>1. /\ f[s \ {Max(s)}] \in X /\ Max(s) \in 1 .. n
          /\ f[s] = g[<<f[s \ {Max(s)}], Max(s)>>]
      BY <1>4, <2>2 DEF FoldsIn
    <3>2. f[s] = StreamStep(size, f[s \ {Max(s)}], writes[Max(s)])
      BY <1>3, <3>1
    <3> QED
      BY <2>2, <3>2
  <2> QED
    BY <2>1, <2>2
<1>6. h = [s \in SUBSET (1 .. n) |-> h[s]]
  OBVIOUS
<1>7. f = h
  <2> HIDE DEF h
  <2> QED
    BY <1>5, <1>6, <1>8
<1>9. StreamsBy(f, size, writes)
  BY <1>7 DEF StreamsBy
<1> QED
  BY <1>4, <1>9 DEF g, X

(* Portions that together are so much data.                                 *)
ArePortions(writes, E, size, bytes) ==
  /\ IsList(writes)
  /\ \A i \in DOMAIN writes : IsPortion(writes[i], E, size)
  /\ FlattenSeq([i \in DOMAIN writes |-> writes[i].data]) = bytes

(* What is streamed is what the portions are, with as many slices as they   *)
(* have together.                                                           *)
IsStreamed(streamed, E, bytes, m) ==
  bytes \in Seq(E) /\ streamed.data = bytes /\ streamed.slices = m

LEMMA StreamedIs ==
  ASSUME NEW E, NEW sliceDims, LongProduct(sliceDims) \in Nat \ {0},
         NEW bytes, NEW m \in Nat, Len(bytes) = m * LongProduct(sliceDims),
         NEW writes, ArePortions(writes, E, LongProduct(sliceDims), bytes)
  PROVE  IsStreamed(StreamedFile(sliceDims, writes), E, bytes, m)
<1> DEFINE size == LongProduct(sliceDims)
           r == CHOOSE f : StreamsBy(f, size, writes)
           n == Len(writes)
           seqs == [i \in DOMAIN writes |-> writes[i].data]
<1>1. n \in Nat /\ DOMAIN writes = 1 .. n
  BY ListIs DEF ArePortions, IsList
<1>2. \A i \in 1 .. n : IsPortion(writes[i], E, size)
  BY <1>1 DEF ArePortions
<1>3. StreamedFile(sliceDims, writes) = r[1 .. n]
  BY <1>1, StreamedBy
<1>4. size \in Nat \ {0}
  OBVIOUS
<1>5. FlattenSeq(seqs) = bytes /\ Len(bytes) = m * size
  BY DEF ArePortions
<1> HIDE DEF size
<1>6. StreamsBy(r, size, writes)
  <2> HIDE DEF n
  <2> QED
    BY <1>1, <1>2, <1>4, StreamsExist
<1> HIDE DEF r, n
<1>7. seqs \in Seq(Seq(E)) /\ Len(seqs) = n /\ \A i \in 1 .. n : seqs[i] = writes[i].data
  <2> DEFINE Y == Seq(E)
  <2>1. \A i \in 1 .. n : writes[i].data \in Y
    BY <1>2 DEF IsPortion
  <2> HIDE DEF Y
  <2>2. seqs \in [1 .. n -> Y] /\ \A i \in 1 .. n : seqs[i] = writes[i].data
    BY <1>1, <2>1
  <2> HIDE DEF seqs
  <2>3. seqs \in Seq(Y)
    BY <1>1, <2>2, SeqDef
  <2>4. DOMAIN seqs = 1 .. n /\ DOMAIN seqs = 1 .. Len(seqs) /\ Len(seqs) \in Nat
    BY <2>2, <2>3, LenProperties
  <2>5. Len(seqs) = n
    BY <1>1, <2>4
  <2> QED
    BY <2>2, <2>3, <2>5 DEF Y
<1> HIDE DEF seqs
<1>8. PICK fl : /\ Flattens(fl, seqs)
                /\ \A i \in 0 .. Len(seqs) : fl[i] \in Seq(E)
                /\ FlattenSeq(seqs) = fl[Len(seqs)]
  BY <1>7, FlattenIs
<1>9. /\ fl[0] = <<>> /\ \A i \in 1 .. n : fl[i] = fl[i - 1] \o writes[i].data
      /\ bytes = fl[n] /\ fl[n] \in Seq(E)
  <2>1. n \in 0 .. n
    BY <1>1
  <2> QED
    BY <1>5, <1>7, <1>8, <2>1 DEF Flattens
<1> DEFINE good(i) == /\ r[1 .. i] \in Streamed(E)
                      /\ r[1 .. i].data = fl[i]
                      /\ Len(r[1 .. i].data) = r[1 .. i].slices * size
           C == {i \in 0 .. n : good(i)}
<1>10. C = 0 .. n
  <2>1. 0 \in C
    <3>1. 1 .. 0 = {} /\ {} \in SUBSET (1 .. n)
      OBVIOUS
    <3>2. r[{}] = NothingStreamed
      BY <1>1, <1>6, <3>1 DEF StreamsBy
    <3>3. NothingStreamed \in Streamed(E)
      <4>1. <<>> \in Seq(E)
        OBVIOUS
      <4> QED
        BY <4>1 DEF NothingStreamed, Streamed
    <3>4. NothingStreamed.data = <<>> /\ NothingStreamed.slices = 0 /\ Len(<<>>) = 0
          /\ 0 * size = 0
      BY <1>4 DEF NothingStreamed
    <3>5. good(0)
      BY <1>9, <3>1, <3>2, <3>3, <3>4
    <3>6. 0 \in 0 .. n
      BY <1>1
    <3> HIDE DEF good
    <3> QED
      BY <3>5, <3>6
  <2>2. ASSUME NEW i \in 0 .. n, i # 0, i - 1 \in C PROVE i \in C
    <3>1. i \in 1 .. n /\ good(i - 1)
      BY <1>1, <2>2
    <3>2. /\ 1 .. i \in SUBSET (1 .. n) /\ 1 .. i # {}
          /\ Max(1 .. i) = i /\ (1 .. i) \ {Max(1 .. i)} = 1 .. (i - 1)
      BY <1>1, <3>1, PlaceByPlace
    <3>3. r[1 .. i] = StreamStep(size, r[(1 .. i) \ {Max(1 .. i)}], writes[Max(1 .. i)])
      BY <1>1, <1>6, <3>2 DEF StreamsBy
    <3> DEFINE s == r[1 .. (i - 1)]
               w == writes[i]
    <3>4. r[1 .. i] = StreamStep(size, s, w)
      BY <3>2, <3>3
    <3>5. s \in Streamed(E) /\ s.data = fl[i - 1] /\ Len(s.data) = s.slices * size
      BY <3>1
    <3>6. IsPortion(w, E, size)
      BY <1>2, <3>1
    <3>7. fl[i] = fl[i - 1] \o w.data
      BY <1>9, <3>1
    <3> HIDE DEF s, w
    <3>8. StepsTo(E, size, s, w, StreamStep(size, s, w))
      BY <1>4, <3>5, <3>6, StreamStepIs
    <3>9. good(i)
      BY <3>4, <3>5, <3>7, <3>8 DEF StepsTo
    <3> HIDE DEF good
    <3> QED
      BY <3>9
  <2>3. C \in SUBSET (0 .. n)
    OBVIOUS
  <2> HIDE DEF C
  <2> QED
    BY <1>1, <2>1, <2>2, <2>3, UpTo
<1>11. good(n)
  <2>1. n \in C
    <3>1. n \in 0 .. n
      BY <1>1
    <3> HIDE DEF C
    <3> QED
      BY <1>10, <3>1
  <2> HIDE DEF good
  <2> QED
    BY <2>1
<1>12. r[1 .. n].slices \in Nat /\ r[1 .. n].slices * size = m * size
  BY <1>5, <1>9, <1>11 DEF Streamed
<1>13. r[1 .. n].slices = m
  BY <1>4, <1>12, FactorsAreOne
<1> QED
  BY <1>3, <1>9, <1>11, <1>13 DEF IsStreamed

-----------------------------------------------------------------------------
(* The header that is written is the header that is read                    *)

(* What a header with one line for each key says.                           *)
TakesEachLine(parsed, e) ==
  /\ parsed.outcome = "ok"
  /\ DOMAIN parsed.meta = {e[i].key : i \in DOMAIN e}
  /\ \A i \in DOMAIN e : parsed.meta[e[i].key] = e[i].value

LEMMA EachLineCounts ==
  ASSUME NEW header, header.ended = TRUE,
         NEW n \in Nat, DOMAIN header.lines = 1 .. n,
         \A i \in 1 .. n : header.lines[i].key # "",
         Distinct(header.lines)
  PROVE  TakesEachLine(ParseMeta(header), header.lines)
<1> DEFINE e == Complete(header)
           bad == {i \in DOMAIN e : e[i] \in {Blank, Malformed}}
           of(key) == {i \in DOMAIN e : e[i].key = key}
           keys == {e[i].key : i \in DOMAIN e}
           meta == [key \in keys |-> e[Max(of(key))].value]
           parsed == ParseMeta(header)
<1>1. /\ e = header.lines /\ DOMAIN e = 1 .. n /\ \A i \in 1 .. n : e[i].key # ""
      /\ \A i, j \in 1 .. n : e[i].key = e[j].key => i = j
  BY DEF Complete, Distinct
<1>2. parsed = IF bad # {}
               THEN IF e[Min(bad)] = Blank THEN [outcome |-> "hangs"] ELSE Fails
               ELSE [outcome |-> "ok", meta |-> meta]
  BY DEF ParseMeta, Complete
<1> HIDE DEF e
<1>3. bad = {}
  <2>1. Blank.key = "" /\ Malformed.key = ""
    BY DEF Blank, Malformed
  <2> QED
    BY <1>1, <2>1
<1>4. parsed.outcome = "ok" /\ parsed.meta = meta /\ DOMAIN meta = keys
  <2>1. parsed = [outcome |-> "ok", meta |-> meta]
    BY <1>2, <1>3
  <2> HIDE DEF parsed
  <2> QED
    BY <2>1
<1>5. ASSUME NEW i \in 1 .. n PROVE meta[e[i].key] = e[i].value
  <2>1. of(e[i].key) \in SUBSET (1 .. n) /\ of(e[i].key) # {}
    BY <1>1
  <2>2. Max(of(e[i].key)) \in of(e[i].key)
    BY <2>1, LastLineIs
  <2>3. Max(of(e[i].key)) = i
    <3>1. \A j \in of(e[i].key) : j = i
      BY <1>1
    <3> QED
      BY <2>2, <3>1
  <2>4. meta[e[i].key] = e[Max(of(e[i].key))].value
    <3>1. e[i].key \in keys
      BY <1>1
    <3> QED
      BY <3>1
  <2> HIDE DEF meta, of
  <2> QED
    BY <2>3, <2>4
<1> HIDE DEF parsed, meta
<1>6. DOMAIN parsed.meta = {e[i].key : i \in DOMAIN e}
  BY <1>4
<1>7. \A i \in DOMAIN e : parsed.meta[e[i].key] = e[i].value
  <2> HIDE DEF keys
  <2> QED
    BY <1>1, <1>4, <1>5
<1>8. TakesEachLine(parsed, e)
  <2> HIDE DEF keys, of, bad
  <2> QED
    BY <1>4, <1>6, <1>7 DEF TakesEachLine
<1> QED
  BY <1>1, <1>8 DEF parsed

Places(t) == \A i \in DOMAIN t : Printed(t[i]) = t[i]

LEMMA PlacesAreNumbers ==
  ASSUME NEW x \in Int, Printed(x) = x
  PROVE  x # NoNumber
BY DEF Printed, NoNumber

LEMMA PrintedIs ==
  ASSUME NEW t \in Seq(Int), Places(t)
  PROVE  /\ [i \in DOMAIN t |-> Printed(ReverseTuple(t)[i])] = ReverseTuple(t)
         /\ IsVector(ReverseTuple(t), Len(t))
<1> DEFINE n == Len(t)
           u == ReverseTuple(t)
<1>1. n \in Nat /\ DOMAIN t = 1 .. n /\ \A i \in 1 .. n : t[i] \in Int
  BY LenProperties, ElementOfSeq
<1>2. u = [i \in 1 .. n |-> t[n + 1 - i]]
  BY <1>1 DEF ReverseTuple
<1>3. \A i \in 1 .. n : n + 1 - i \in 1 .. n
  BY <1>1
<1>4. Len(u) = n /\ Range(u) \subseteq Range(t)
  <2> DEFINE X == Int
  <2>1. t \in Seq(X)
    OBVIOUS
  <2> HIDE DEF X
  <2> QED
    BY <2>1, ReverseIs
<1> HIDE DEF u, n
<1>5. [i \in 1 .. n |-> Printed(u[i])] = u
  <2>1. \A i \in 1 .. n : Printed(u[i]) = t[n + 1 - i]
    BY <1>1, <1>2, <1>3 DEF Places
  <2> QED
    BY <1>2, <2>1
<1>6. NoNumber \notin Range(t)
  <2>1. \A i \in 1 .. n : t[i] # NoNumber
    BY <1>1, PlacesAreNumbers DEF Places
  <2> QED
    BY <1>1, <2>1 DEF Range
<1>7. IsVector(u, n)
  BY <1>4, <1>6 DEF IsVector
<1> QED
  BY <1>1, <1>5, <1>7 DEF u, n

LEMMA SizesAreNumbers ==
  ASSUME NEW t \in Seq(Nat)
  PROVE  /\ IsVector(ReverseTuple(t), Len(t))
         /\ ReverseTuple(ReverseTuple(t)) = t
<1> DEFINE X == Nat
<1>1. t \in Seq(X) /\ \A x \in X : x # NoNumber
  BY DEF NoNumber
<1> HIDE DEF X
<1>2. /\ Len(ReverseTuple(t)) = Len(t)
      /\ Range(ReverseTuple(t)) \subseteq Range(t)
      /\ ReverseTuple(ReverseTuple(t)) = t
  BY <1>1, ReverseIs
<1>3. NoNumber \notin Range(t)
  <2>1. \A i \in DOMAIN t : t[i] \in X
    BY <1>1, LenProperties, ElementOfSeq
  <2> QED
    BY <1>1, <2>1 DEF Range
<1> QED
  BY <1>2, <1>3 DEF IsVector

(* The lines that FormatMetaInfo writes.                                    *)
KeyOf(i) ==
  <<"ObjectType", "NDims", "BinaryData", "BinaryDataByteOrderMSB", "CompressedData",
    "Offset", "ElementSpacing", "DimSize", "ElementType", "ElementDataFile">>[i]

LEMMA KeysDiffer ==
  /\ \A i \in 1 .. 10 : KeyOf(i) # ""
  /\ \A i, j \in 1 .. 10 : KeyOf(i) = KeyOf(j) => i = j
BY DEF KeyOf

LEMMA LineIs ==
  ASSUME NEW key, NEW x, x # "a=b.raw"
  PROVE  Line(key, <<x>>) = [key |-> key, value |-> <<x>>]
<1> DEFINE v == <<x>>
<1>1. Range(v) = {x}
  BY DEF Range
<1> QED
  BY <1>1 DEF Line

LEMMA TypesAreNoFiles ==
  ASSUME NEW type \in Types
  PROVE  type # "a=b.raw"
BY DEF Types

LEMMA WordsAreNoFiles ==
  /\ "Image" # "a=b.raw" /\ "True" # "a=b.raw" /\ "False" # "a=b.raw" /\ "a.raw" # "a=b.raw"
OBVIOUS

(* What the writer is given.                                                *)
IsImage(image) ==
  /\ image.dims \in Seq(Nat)
  /\ image.origin \in Seq(Int) /\ Places(image.origin)
  /\ image.spacing \in Seq(Int) /\ Places(image.spacing)
  /\ image.type \in Types

(* The header of an image.                                                  *)
IsHeaderOf(header, image, host) ==
  LET e == header.lines IN
  /\ header.ended = TRUE
  /\ DOMAIN e = 1 .. 10
  /\ \A i \in 1 .. 10 : e[i].key = KeyOf(i)
  /\ e[1].value = <<"Image">>
  /\ e[2].value = <<Len(image.dims)>>
  /\ e[3].value = <<"True">>
  /\ e[4].value = <<IF host = "big" THEN "True" ELSE "False">>
  /\ e[5].value = <<"False">>
  /\ e[6].value = ReverseTuple(image.origin)
  /\ e[7].value = ReverseTuple(image.spacing)
  /\ e[8].value = ReverseTuple(image.dims)
  /\ e[9].value = <<image.type>>
  /\ e[10].value = <<"a.raw">>

LEMMA HeaderIsOf ==
  ASSUME NEW image, IsImage(image), NEW host \in Orders
  PROVE  IsHeaderOf(FormatMetaInfo(image, "a.raw", host), image, host)
<1> DEFINE real(t) == [i \in DOMAIN t |-> Printed(ReverseTuple(t)[i])]
           order == IF host = "big" THEN "True" ELSE "False"
           o == real(image.origin)
           s == real(image.spacing)
           d == ReverseTuple(image.dims)
           lines == <<Line("ObjectType", <<"Image">>),
                      NumbersLine("NDims", <<Len(image.dims)>>),
                      Line("BinaryData", <<"True">>),
                      Line("BinaryDataByteOrderMSB", <<order>>),
                      Line("CompressedData", <<"False">>),
                      NumbersLine("Offset", o),
                      NumbersLine("ElementSpacing", s),
                      NumbersLine("DimSize", d),
                      Line("ElementType", <<image.type>>),
                      Line("ElementDataFile", <<"a.raw">>)>>
           e == <<[key |-> "ObjectType", value |-> <<"Image">>],
                  [key |-> "NDims", value |-> <<Len(image.dims)>>],
                  [key |-> "BinaryData", value |-> <<"True">>],
                  [key |-> "BinaryDataByteOrderMSB", value |-> <<order>>],
                  [key |-> "CompressedData", value |-> <<"False">>],
                  [key |-> "Offset", value |-> o],
                  [key |-> "ElementSpacing", value |-> s],
                  [key |-> "DimSize", value |-> d],
                  [key |-> "ElementType", value |-> <<image.type>>],
                  [key |-> "ElementDataFile", value |-> <<"a.raw">>]>>
           header == FormatMetaInfo(image, "a.raw", host)
<1>1. header.ended = TRUE /\ header.lines = lines
  BY DEF FormatMetaInfo
<1>2. order # "a=b.raw" /\ image.type # "a=b.raw"
  BY WordsAreNoFiles, TypesAreNoFiles DEF IsImage
<1>3. /\ Line("ObjectType", <<"Image">>) = [key |-> "ObjectType", value |-> <<"Image">>]
      /\ Line("BinaryData", <<"True">>) = [key |-> "BinaryData", value |-> <<"True">>]
      /\ Line("BinaryDataByteOrderMSB", <<order>>)
           = [key |-> "BinaryDataByteOrderMSB", value |-> <<order>>]
      /\ Line("CompressedData", <<"False">>) = [key |-> "CompressedData", value |-> <<"False">>]
      /\ Line("ElementType", <<image.type>>)
           = [key |-> "ElementType", value |-> <<image.type>>]
      /\ Line("ElementDataFile", <<"a.raw">>)
           = [key |-> "ElementDataFile", value |-> <<"a.raw">>]
  <2> HIDE DEF order
  <2> QED
    BY <1>2, WordsAreNoFiles, LineIs
<1> HIDE DEF order, o, s, d
<1>4. lines = e
  BY <1>3 DEF NumbersLine
<1>5. o = ReverseTuple(image.origin) /\ s = ReverseTuple(image.spacing)
  BY PrintedIs DEF IsImage, o, s
<1> HIDE DEF lines, header
<1>6. /\ DOMAIN e = 1 .. 10
      /\ \A i \in 1 .. 10 : e[i].key = KeyOf(i)
  BY DEF KeyOf
<1>7. /\ e[1].value = <<"Image">> /\ e[2].value = <<Len(image.dims)>>
      /\ e[3].value = <<"True">> /\ e[4].value = <<order>> /\ e[5].value = <<"False">>
      /\ e[6].value = o /\ e[7].value = s /\ e[8].value = d
      /\ e[9].value = <<image.type>> /\ e[10].value = <<"a.raw">>
  OBVIOUS
<1> HIDE DEF e
<1>8. header.lines = e
  BY <1>1, <1>4
<1>9. IsHeaderOf(header, image, host)
  BY <1>1, <1>5, <1>6, <1>7, <1>8 DEF IsHeaderOf, order, d
<1> QED
  BY <1>9 DEF header

(* What an image's header tells its reader.                                 *)
Tells(info, image, host) ==
  /\ info.outcome = "ok" /\ info.ndims = Len(image.dims) /\ info.dims = image.dims
  /\ info.origin = image.origin /\ info.spacing = image.spacing
  /\ info.type = image.type /\ info.order = <<host>>

LEMMA HeaderSays ==
  ASSUME NEW header, NEW image, NEW host, IsHeaderOf(header, image, host)
  PROVE  LET parsed == ParseMeta(header) IN
         /\ parsed.outcome = "ok"
         /\ DOMAIN parsed.meta = {KeyOf(i) : i \in 1 .. 10}
         /\ \A i \in 1 .. 10 : parsed.meta[KeyOf(i)] = header.lines[i].value
<1> DEFINE e == header.lines
           parsed == ParseMeta(header)
<1>1. /\ header.ended = TRUE /\ DOMAIN e = 1 .. 10
      /\ \A i \in 1 .. 10 : e[i].key = KeyOf(i)
  BY DEF IsHeaderOf
<1>2. TakesEachLine(parsed, e)
  <2>1. Distinct(e) /\ \A i \in 1 .. 10 : e[i].key # ""
    <3> HIDE DEF e
    <3>1. \A i \in 1 .. 10 : e[i].key # ""
      BY <1>1, KeysDiffer
    <3>2. ASSUME NEW i \in DOMAIN e, NEW j \in DOMAIN e, e[i].key = e[j].key PROVE i = j
      <4>1. KeyOf(i) = KeyOf(j) /\ i \in 1 .. 10 /\ j \in 1 .. 10
        BY <1>1, <3>2
      <4> QED
        BY <4>1, KeysDiffer
    <3> QED
      BY <3>1, <3>2 DEF Distinct
  <2>2. 10 \in Nat
    OBVIOUS
  <2> QED
    BY <1>1, <2>1, <2>2, EachLineCounts
<1> HIDE DEF parsed
<1> QED
  BY <1>1, <1>2 DEF TakesEachLine, parsed

LEMMA HeaderTells ==
  ASSUME NEW image, IsImage(image), Len(image.origin) = Len(image.dims),
         Len(image.spacing) = Len(image.dims), NEW host \in Orders,
         NEW header, IsHeaderOf(header, image, host)
  PROVE  Tells(GetInformation(header), image, host)
<1> DEFINE parsed == ParseMeta(header)
           meta   == parsed.meta
           has(key) == key \in DOMAIN meta
           is(key, values) == has(key) => meta[key] \in values
           flags  == {<<"True">>, <<"False">>}
           ndims  == meta["NDims"][1]
           vector(key) == IF has(key) THEN ReverseTuple(meta[key]) ELSE Absent
           order  == IF has("ElementByteOrderMSB") THEN meta["ElementByteOrderMSB"]
                     ELSE IF has("BinaryDataByteOrderMSB")
                     THEN meta["BinaryDataByteOrderMSB"] ELSE Absent
           sound == /\ is("ObjectType", {<<"Image">>})
                    /\ has("NDims") /\ IsVector(meta["NDims"], 1)
                    /\ is("BinaryData", {<<"True">>})
                    /\ is("BinaryDataByteOrderMSB", flags)
                    /\ is("ElementByteOrderMSB", flags)
                    /\ is("CompressedData", {<<"False">>})
                    /\ has("Offset") => IsVector(meta["Offset"], ndims)
                    /\ has("ElementSpacing") => IsVector(meta["ElementSpacing"], ndims)
                    /\ has("DimSize") /\ IsVector(meta["DimSize"], ndims)
                    /\ has("ElementType") /\ is("ElementType", {<<type>> : type \in Types})
                    /\ has("ElementDataFile")
           found == [outcome |-> "ok",
                     ndims   |-> ndims,
                     dims    |-> vector("DimSize"),
                     origin  |-> vector("Offset"),
                     spacing |-> vector("ElementSpacing"),
                     type    |-> meta["ElementType"][1],
                     order   |-> IF order = <<"True">> THEN <<"big">>
                                 ELSE IF order = <<"False">> THEN <<"little">>
                                 ELSE Absent,
                     raw     |-> meta["ElementDataFile"][1]]
           info == GetInformation(header)
           flag == IF host = "big" THEN "True" ELSE "False"
           n == Len(image.dims)
<1>1. info = IF parsed.outcome # "ok" THEN parsed ELSE IF sound THEN found ELSE Fails
  BY Zenon DEF GetInformation
<1>2. /\ parsed.outcome = "ok"
      /\ DOMAIN meta = {KeyOf(i) : i \in 1 .. 10}
      /\ \A i \in 1 .. 10 : meta[KeyOf(i)] = header.lines[i].value
  BY HeaderSays
<1> HIDE DEF meta, parsed
<1>3. /\ has("ObjectType") /\ has("NDims") /\ has("BinaryData")
      /\ has("BinaryDataByteOrderMSB") /\ has("CompressedData") /\ has("Offset")
      /\ has("ElementSpacing") /\ has("DimSize") /\ has("ElementType")
      /\ has("ElementDataFile") /\ ~has("ElementByteOrderMSB")
  BY <1>2 DEF KeyOf
<1>4. /\ meta["ObjectType"] = header.lines[1].value
      /\ meta["NDims"] = header.lines[2].value
      /\ meta["BinaryData"] = header.lines[3].value
      /\ meta["BinaryDataByteOrderMSB"] = header.lines[4].value
      /\ meta["CompressedData"] = header.lines[5].value
      /\ meta["Offset"] = header.lines[6].value
      /\ meta["ElementSpacing"] = header.lines[7].value
      /\ meta["DimSize"] = header.lines[8].value
      /\ meta["ElementType"] = header.lines[9].value
      /\ meta["ElementDataFile"] = header.lines[10].value
  BY <1>2 DEF KeyOf
<1>5. /\ meta["ObjectType"] = <<"Image">> /\ meta["NDims"] = <<n>>
      /\ meta["BinaryData"] = <<"True">> /\ meta["BinaryDataByteOrderMSB"] = <<flag>>
      /\ meta["CompressedData"] = <<"False">>
      /\ meta["Offset"] = ReverseTuple(image.origin)
      /\ meta["ElementSpacing"] = ReverseTuple(image.spacing)
      /\ meta["DimSize"] = ReverseTuple(image.dims)
      /\ meta["ElementType"] = <<image.type>>
  BY <1>4 DEF IsHeaderOf
<1>6. ndims = n
  BY <1>5
<1>7. /\ IsVector(meta["Offset"], ndims) /\ IsVector(meta["ElementSpacing"], ndims)
      /\ IsVector(meta["DimSize"], ndims)
  BY <1>5, <1>6, PrintedIs, SizesAreNumbers DEF IsImage
<1>8. IsVector(meta["NDims"], 1)
  <2>1. n \in Nat /\ Len(<<n>>) = 1 /\ Range(<<n>>) = {n}
    <3>1. n \in Nat
      BY LenProperties DEF IsImage
    <3> HIDE DEF n
    <3> QED
      BY <3>1 DEF Range
  <2>2. n # NoNumber
    BY <2>1 DEF NoNumber
  <2> HIDE DEF n
  <2> QED
    BY <1>5, <2>1, <2>2 DEF IsVector
<1>9. flag \in {"True", "False"} /\ image.type \in Types
  BY DEF IsImage
<1>10. sound
  BY <1>3, <1>5, <1>7, <1>8, <1>9
<1>11. /\ ReverseTuple(ReverseTuple(image.origin)) = image.origin
       /\ ReverseTuple(ReverseTuple(image.spacing)) = image.spacing
       /\ ReverseTuple(ReverseTuple(image.dims)) = image.dims
  <2> DEFINE X == Int
  <2>1. image.origin \in Seq(X) /\ image.spacing \in Seq(X)
    BY DEF IsImage
  <2> HIDE DEF X
  <2> QED
    BY <2>1, ReverseIs, SizesAreNumbers DEF IsImage
<1>12. /\ vector("Offset") = image.origin /\ vector("ElementSpacing") = image.spacing
       /\ vector("DimSize") = image.dims
  BY <1>3, <1>5, <1>11
<1>13. order = <<flag>>
  BY <1>3, <1>5
<1>14. found.order = <<host>>
  <2>1. host = "big" \/ host = "little"
    BY DEF Orders
  <2>2. CASE host = "big"
    <3>1. order = <<"True">>
      BY <1>13, <2>2
    <3> QED
      BY <2>2, <3>1
  <2>3. CASE host = "little"
    <3>1. order = <<"False">> /\ order # <<"True">>
      BY <1>13, <2>3
    <3> QED
      BY <2>3, <3>1
  <2> QED
    BY <2>1, <2>2, <2>3
<1>15. /\ found.outcome = "ok" /\ found.ndims = ndims /\ found.dims = vector("DimSize")
       /\ found.origin = vector("Offset") /\ found.spacing = vector("ElementSpacing")
       /\ found.type = meta["ElementType"][1]
  OBVIOUS
<1>16. meta["ElementType"][1] = image.type
  BY <1>5
<1>17. info = found
  <2> HIDE DEF sound, found, info
  <2> QED
    BY <1>1, <1>2, <1>10
<1> HIDE DEF found, vector, ndims, order, flag, has, is, sound
<1>18. Tells(found, image, host)
  BY <1>6, <1>12, <1>14, <1>15, <1>16 DEF Tells
<1> QED
  BY <1>17, <1>18

-----------------------------------------------------------------------------
(* Images                                                                   *)

(* Any picture, in places that are printed as they are.                     *)
IsPicture(picture) ==
  /\ picture.dims \in Seq(Nat \ {0}) /\ Len(picture.dims) = 3
  /\ picture.origin \in Seq(Int) /\ Places(picture.origin) /\ Len(picture.origin) = 3
  /\ picture.spacing \in Seq(Int) /\ Places(picture.spacing) /\ Len(picture.spacing) = 3
  /\ picture.type \in Types

SliceSize(picture) == LongProduct(Tail(picture.dims))

LEMMA OfThree ==
  ASSUME NEW X, NEW a \in X, NEW b \in X, NEW c \in X
  PROVE  /\ <<a>> \in Seq(X) /\ Len(<<a>>) = 1 /\ <<a>>[1] = a
         /\ <<b, c>> \in Seq(X) /\ Len(<<b, c>>) = 2 /\ <<b, c>>[1] = b /\ <<b, c>>[2] = c
         /\ <<a, b, c>> \in Seq(X) /\ Len(<<a, b, c>>) = 3
         /\ <<a, b, c>>[1] = a /\ <<a, b, c>>[2] = b /\ <<a, b, c>>[3] = c
OBVIOUS

LEMMA TailOfThree ==
  ASSUME NEW X, NEW a \in X, NEW b \in X, NEW c \in X
  PROVE  Tail(<<a, b, c>>) = <<b, c>> /\ <<a>> \o <<b, c>> = <<a, b, c>>
<1> DEFINE o == <<a>>
           t == <<a, b, c>>
           u == <<b, c>>
           y == Tail(t)
           z == o \o u
<1>1. /\ o \in Seq(X) /\ Len(o) = 1 /\ o[1] = a
      /\ u \in Seq(X) /\ Len(u) = 2 /\ u[1] = b /\ u[2] = c
      /\ t \in Seq(X) /\ Len(t) = 3 /\ t[1] = a /\ t[2] = b /\ t[3] = c
  BY OfThree
<1> HIDE DEF o, t, u
<1>2. /\ y \in Seq(X) /\ Len(y) = 2
      /\ \A i \in 1 .. 2 : y[i] = t[i + 1]
  <2>1. t # <<>>
    <3>1. Len(<<>>) = 0 /\ Len(t) = 3
      BY <1>1
    <3> QED
      BY <3>1
  <2>2. /\ y \in Seq(X) /\ Len(y) = Len(t) - 1
        /\ \A i \in 1 .. Len(y) : y[i] = t[i + 1]
    BY <1>1, <2>1, HeadTailProperties
  <2> HIDE DEF y
  <2>3. Len(y) = 2
    BY <1>1, <2>2
  <2> QED
    BY <2>2, <2>3
<1>3. /\ z \in Seq(X) /\ Len(z) = 3
      /\ \A i \in 1 .. 3 : z[i] = IF i <= 1 THEN o[i] ELSE u[i - 1]
  <2>1. /\ z \in Seq(X) /\ Len(z) = Len(o) + Len(u)
        /\ \A i \in 1 .. Len(o) + Len(u) : z[i] = IF i <= Len(o) THEN o[i] ELSE u[i - Len(o)]
    BY <1>1, ConcatProperties
  <2> HIDE DEF z
  <2> QED
    BY <1>1, <2>1
<1> HIDE DEF y, z
<1>4. y = u
  <2>1. 1 \in 1 .. 2 /\ 2 \in 1 .. 2 /\ 1 + 1 = 2 /\ 2 + 1 = 3
    OBVIOUS
  <2>2. y[1] = u[1] /\ y[2] = u[2]
    BY <1>1, <1>2, <2>1
  <2>3. \A i \in 1 .. 2 : i = 1 \/ i = 2
    OBVIOUS
  <2> QED
    BY <1>1, <1>2, <2>2, <2>3, SeqEqual
<1>5. z = t
  <2>1. z[1] = o[1] /\ z[2] = u[1] /\ z[3] = u[2]
    <3>1. z[1] = o[1]
      BY <1>3
    <3>2. z[2] = u[1]
      BY <1>3
    <3>3. z[3] = u[2]
      BY <1>3
    <3> QED
      BY <3>1, <3>2, <3>3
  <2>2. \A i \in 1 .. 3 : i = 1 \/ i = 2 \/ i = 3
    OBVIOUS
  <2> QED
    BY <1>1, <1>3, <2>1, <2>2, SeqEqual
<1> QED
  BY <1>4, <1>5 DEF o, t, u, y, z

LEMMA PictureHas ==
  ASSUME NEW picture, IsPicture(picture)
  PROVE  /\ picture.dims[1] \in Nat \ {0} /\ SliceSize(picture) \in Nat \ {0}
         /\ Volume(picture) = picture.dims[1] * SliceSize(picture)
         /\ <<picture.dims[1]>> \o Tail(picture.dims) = picture.dims
         /\ picture.dims \in Seq(Nat)
<1> DEFINE X == Nat \ {0}
           d == picture.dims
           a == d[1]
           b == d[2]
           c == d[3]
<1>1. d \in Seq(X) /\ Len(d) = 3
  BY DEF IsPicture
<1>2. DOMAIN d = 1 .. 3 /\ \A i \in 1 .. 3 : d[i] \in X
  <2> HIDE DEF X, d
  <2> QED
    BY <1>1, LenProperties, ElementOfSeq
<1>3. a \in X /\ b \in X /\ c \in X
  BY <1>2
<1>4. d = <<a, b, c>>
  <2> HIDE DEF X
  <2>1. d = [i \in 1 .. 3 |-> d[i]]
    BY <1>1, <1>2, LenProperties
  <2>2. <<a, b, c>> = [i \in 1 .. 3 |-> d[i]]
    OBVIOUS
  <2> QED
    BY <2>1, <2>2
<1>5. d \in Seq(Nat)
  <2>1. X \subseteq Nat
    OBVIOUS
  <2>2. d \in [1 .. 3 -> Nat]
    BY <1>1, <1>2, <2>1, LenProperties
  <2> QED
    BY <2>2, SeqDef
<1> HIDE DEF a, b, c, d
<1>6. Tail(<<a, b, c>>) = <<b, c>> /\ <<a>> \o <<b, c>> = <<a, b, c>>
  <2> HIDE DEF X
  <2> QED
    BY <1>3, TailOfThree
<1>7. LongProduct(<<b, c>>) = b * c /\ LongProduct(<<a, b, c>>) = a * b * c
  BY <1>3, ProductOfTwo, ProductOfThree
<1>8. b * c \in Nat \ {0} /\ a * b * c = a * (b * c)
  BY <1>3
<1>9. SliceSize(picture) = b * c /\ Volume(picture) = a * b * c
  BY <1>4, <1>6, <1>7 DEF SliceSize, Volume, d
<1> QED
  BY <1>3, <1>4, <1>5, <1>6, <1>8, <1>9 DEF d, a

LEMMA MemoryIs ==
  ASSUME NEW picture, IsPicture(picture), NEW host \in Orders
  PROVE  /\ InMemory(picture, host) \in Seq(Seq(Int))
         /\ Len(InMemory(picture, host)) = Volume(picture)
         /\ DOMAIN InMemory(picture, host) = 1 .. Volume(picture)
         /\ Volume(picture) \in Nat
         /\ \A k \in 1 .. Volume(picture) :
              InMemory(picture, host)[k] = Native(picture, k, host)
<1> DEFINE Y == Seq(Int)
           m == InMemory(picture, host)
           n == Volume(picture)
<1>1. n \in Nat
  <2> DEFINE a == picture.dims[1]
             s == SliceSize(picture)
  <2>1. a \in Nat /\ s \in Nat /\ n = a * s
    BY PictureHas
  <2> HIDE DEF a, s, n
  <2> QED
    BY <2>1
<1>2. \A k \in 1 .. n : Native(picture, k, host) \in Y
  BY <1>1, NativeIs DEF IsPicture
<1>3. m = [k \in 1 .. n |-> Native(picture, k, host)]
  BY DEF InMemory
<1> HIDE DEF Y, m, n
<1>4. m \in [1 .. n -> Y]
  BY <1>2, <1>3
<1>5. m \in Seq(Y)
  BY <1>1, <1>4, SeqDef
<1>6. DOMAIN m = 1 .. n /\ DOMAIN m = 1 .. Len(m) /\ Len(m) \in Nat
  BY <1>4, <1>5, LenProperties
<1>7. Len(m) = n
  BY <1>1, <1>6
<1> QED
  BY <1>1, <1>3, <1>5, <1>6, <1>7 DEF Y, m, n

(* From the memory of one machine to that of another.                       *)
LEMMA MemoryConverts ==
  ASSUME NEW picture, IsPicture(picture), NEW from \in Orders, NEW to \in Orders,
         ElementSize(picture.type) > 1
  PROVE  EndianConversion(InMemory(picture, from), from, to) = InMemory(picture, to)
<1> DEFINE m == InMemory(picture, from)
           n == Volume(picture)
<1>1. /\ n \in Nat /\ DOMAIN m = 1 .. n
      /\ \A k \in 1 .. n : m[k] = Native(picture, k, from)
  BY MemoryIs
<1>2. \A k \in 1 .. n : from # to => SwapBytes(Native(picture, k, from)) = Native(picture, k, to)
  BY <1>1, NativeIs DEF IsPicture
<1>3. EndianConversion(m, from, to)
        = [k \in 1 .. n |-> IF from = to THEN m[k] ELSE SwapBytes(m[k])]
  BY <1>1 DEF EndianConversion
<1>4. InMemory(picture, to) = [k \in 1 .. n |-> Native(picture, k, to)]
  BY DEF InMemory
<1>5. \A k \in 1 .. n : (IF from = to THEN m[k] ELSE SwapBytes(m[k])) = Native(picture, k, to)
  BY <1>1, <1>2
<1> HIDE DEF m, n
<1> QED
  BY <1>3, <1>4, <1>5 DEF m

(* What is read of a picture, as a whole and projection by projection.      *)
ReadAs(picture, reader, image, projections) ==
  /\ image.outcome = "ok"
  /\ image.dims = picture.dims
  /\ image.spacing = picture.spacing
  /\ image.origin = picture.origin
  /\ ElementSize(picture.type) > 1 => image.data = InMemory(picture, reader)
  /\ FlattenSeq(projections) = image.data

(* The header that is written for a picture is understood.                  *)
LEMMA PictureTells ==
  ASSUME NEW picture, IsPicture(picture), NEW writer \in Orders,
         NEW streamed, streamed.slices = picture.dims[1]
  PROVE  Tells(GetInformation(ClosedHeader(
                 [sliceDims |-> Tail(picture.dims), spacing |-> picture.spacing,
                  origin |-> picture.origin, type |-> picture.type],
                 streamed, "a.raw", writer)), picture, writer)
<1> DEFINE settings == [sliceDims |-> Tail(picture.dims), spacing |-> picture.spacing,
                        origin |-> picture.origin, type |-> picture.type]
           image == [dims    |-> picture.dims,
                     spacing |-> picture.spacing,
                     origin  |-> picture.origin,
                     type    |-> picture.type]
           header == FormatMetaInfo(image, "a.raw", writer)
<1>1. /\ <<picture.dims[1]>> \o Tail(picture.dims) = picture.dims
      /\ picture.dims \in Seq(Nat)
  BY PictureHas
<1>2. ClosedHeader(settings, streamed, "a.raw", writer) = header
  BY <1>1 DEF ClosedHeader
<1>3. /\ image.dims = picture.dims /\ image.spacing = picture.spacing
      /\ image.origin = picture.origin /\ image.type = picture.type
  OBVIOUS
<1> HIDE DEF image, header, settings
<1>4. IsImage(image) /\ Len(image.origin) = Len(image.dims) /\ Len(image.spacing) = Len(image.dims)
  BY <1>1, <1>3 DEF IsPicture, IsImage
<1>5. IsHeaderOf(header, image, writer)
  BY <1>4, HeaderIsOf DEF header
<1>6. Tells(GetInformation(header), image, writer)
  BY <1>4, <1>5, HeaderTells
<1>7. Tells(GetInformation(header), picture, writer)
  BY <1>3, <1>6 DEF Tells
<1> QED
  BY <1>2, <1>7 DEF settings

(* What GetData makes of it.                                                *)
LEMMA PictureIsTaken ==
  ASSUME NEW picture, IsPicture(picture), NEW writer \in Orders, NEW reader \in Orders,
         NEW info, Tells(info, picture, writer)
  PROVE  LET image == GetData(info, 3, picture.type, InMemory(picture, writer), reader) IN
         /\ image.outcome = "ok" /\ image.dims = picture.dims
         /\ image.spacing = picture.spacing /\ image.origin = picture.origin
         /\ image.data = EndianConversion(InMemory(picture, writer), writer, reader)
<1> DEFINE m == InMemory(picture, writer)
           image == GetData(info, 3, picture.type, m, reader)
           n == LongProduct(info.dims)
           part == SubSeq(m, 1, n)
<1>1. /\ info.ndims = 3 /\ info.type = picture.type /\ info.dims = picture.dims
      /\ info.origin = picture.origin /\ info.spacing = picture.spacing
      /\ info.order = <<writer>>
  BY DEF Tells, IsPicture
<1>2. n = Volume(picture)
  BY <1>1 DEF Volume
<1>3. m \in Seq(Seq(Int)) /\ Len(m) = n /\ n \in Nat
  BY <1>2, MemoryIs
<1>4. n \in 0 .. Len(m)
  BY <1>3
<1>5. info.origin # Absent /\ info.spacing # Absent /\ info.order # Absent
  <2>1. Len(info.origin) = 3 /\ Len(info.spacing) = 3 /\ Len(info.order) = 1 /\ Len(Absent) = 0
    BY <1>1 DEF IsPicture, Absent
  <2> QED
    BY <2>1
<1>6. part = m
  BY <1>3, SubSeqFull
<1>7. info.order[1] = writer
  BY <1>1
<1> HIDE DEF m
<1>8. image = [outcome |-> "ok", dims |-> info.dims, spacing |-> info.spacing,
               origin |-> info.origin,
               data |-> EndianConversion(part, info.order[1], reader)]
  BY <1>1, <1>4, <1>5 DEF GetData
<1> HIDE DEF n, part, image
<1> QED
  BY <1>1, <1>6, <1>7, <1>8 DEF image, m

(* What the reader of projections makes of it.                              *)
LEMMA ProjectionsAreTaken ==
  ASSUME NEW picture, IsPicture(picture), NEW writer \in Orders, NEW reader \in Orders,
         NEW info, Tells(info, picture, writer)
  PROVE  FlattenSeq([n \in 1 .. picture.dims[1] |->
           StreamedProjection(info, SliceSize(picture), n, InMemory(picture, writer), reader)])
           = EndianConversion(InMemory(picture, writer), writer, reader)
<1> DEFINE m == InMemory(picture, writer)
           E == Seq(Int)
           c == EndianConversion(m, writer, reader)
           F == AllConverted(E, writer, reader)
           size == SliceSize(picture)
           k == picture.dims[1]
<1>1. k \in Nat /\ size \in Nat /\ Volume(picture) = k * size
  BY PictureHas
<1>2. m \in Seq(E) /\ Len(m) = k * size
  BY <1>1, MemoryIs
<1>3. info.order[1] = writer
  BY DEF Tells
<1> HIDE DEF m, E, size, k, F
<1>4. c \in Seq(F) /\ Len(c) = k * size
  BY <1>2, ConversionIs DEF F
<1>5. ASSUME NEW n \in 1 .. k
      PROVE  StreamedProjection(info, size, n, m, reader) = Piece(c, size, n)
  <2> DEFINE a == (n - 1) * size
             b == n * size
  <2>1. b \in 0 .. Len(m) /\ a \in 0 .. b
    BY <1>1, <1>2, TimesIs
  <2>2. StreamedProjection(info, size, n, m, reader)
          = EndianConversion(SubSeq(m, a + 1, b), writer, reader)
    BY <1>3 DEF StreamedProjection
  <2>3. Piece(c, size, n) = SubSeq(c, a + 1, b)
    BY DEF Piece
  <2> HIDE DEF a, b, c
  <2>4. ConvertsAlone(m, a, b, writer, reader)
    BY <1>2, <2>1, ConvertsInParts
  <2> QED
    BY <2>2, <2>3, <2>4 DEF ConvertsAlone, c
<1> HIDE DEF c
<1>6. [n \in 1 .. k |-> StreamedProjection(info, size, n, m, reader)]
        = [n \in 1 .. k |-> Piece(c, size, n)]
  BY <1>5
<1>7. FlattenSeq([n \in 1 .. k |-> Piece(c, size, n)]) = c
  BY <1>1, <1>4, PiecesMake
<1> QED
  BY <1>6, <1>7 DEF m, size, k, c

LEMMA PictureIsRead ==
  ASSUME NEW picture, IsPicture(picture), NEW writer \in Orders, NEW reader \in Orders,
         NEW portions,
         ArePortions(portions, Seq(Int), SliceSize(picture), InMemory(picture, writer))
  PROVE  LET r == WrittenAndRead(picture, writer, reader, portions) IN
         ReadAs(picture, reader, r.image, r.projections)
<1> DEFINE slice == Tail(picture.dims)
           m == InMemory(picture, writer)
           streamed == StreamedFile(slice, portions)
           info == GetInformation(ClosedHeader(
                     [sliceDims |-> slice, spacing |-> picture.spacing,
                      origin |-> picture.origin, type |-> picture.type],
                     streamed, "a.raw", writer))
           image == GetData(info, 3, picture.type, streamed.data, reader)
           projections ==
             [n \in 1 .. picture.dims[1] |->
                StreamedProjection(info, LongProduct(slice), n, streamed.data, reader)]
           r == WrittenAndRead(picture, writer, reader, portions)
           c == EndianConversion(m, writer, reader)
<1>1. r.image = image /\ r.projections = projections
  BY DEF WrittenAndRead
<1>2. SliceSize(picture) = LongProduct(slice)
  BY DEF SliceSize
<1>3. streamed.data = m /\ streamed.slices = picture.dims[1]
  <2> DEFINE E == Seq(Int)
             k == picture.dims[1]
             size == LongProduct(slice)
  <2>1. ArePortions(portions, E, size, m)
    BY <1>2
  <2>2. k \in Nat /\ size \in Nat \ {0} /\ Len(m) = k * size
    BY <1>2, PictureHas, MemoryIs
  <2> HIDE DEF E, k, m, slice, streamed
  <2>3. IsStreamed(streamed, E, m, k)
    BY <2>1, <2>2, StreamedIs DEF streamed
  <2> QED
    BY <2>3 DEF IsStreamed, k
<1>4. Tells(info, picture, writer)
  <2> HIDE DEF streamed
  <2> QED
    BY <1>3, PictureTells
<1> HIDE DEF r, info, streamed
<1>5. /\ image.outcome = "ok" /\ image.dims = picture.dims
      /\ image.spacing = picture.spacing /\ image.origin = picture.origin
      /\ image.data = c
  BY <1>3, <1>4, PictureIsTaken
<1>6. FlattenSeq(projections) = c
  BY <1>2, <1>3, <1>4, ProjectionsAreTaken
<1>7. ElementSize(picture.type) > 1 => c = InMemory(picture, reader)
  BY MemoryConverts
<1> HIDE DEF image, projections, c, m
<1>8. ReadAs(picture, reader, image, projections)
  BY <1>5, <1>6, <1>7 DEF ReadAs
<1> QED
  BY <1>1, <1>8 DEF r

(* Any picture, between any two machines, in any slices and stacks.         *)
ReadsAnyPicture ==
  \E picture, writer, reader, portions :
    /\ IsPicture(picture) /\ writer \in Orders /\ reader \in Orders
    /\ ArePortions(portions, Seq(Int), SliceSize(picture), InMemory(picture, writer))
    /\ Called([name |-> "picture", picture |-> picture, writer |-> writer,
               reader |-> reader],
              WrittenAndRead(picture, writer, reader, portions))

PicturesSpec == CallsInit /\ [][ReadsAnyPicture]_<<call, result>>

(* The writers and readers of MetaImage files: whatever is written, in      *)
(* slices or in stacks, is read with its sizes, its places and, but for     *)
(* elements of one byte, its values, on a machine with the same byte order  *)
(* or the other; and the projections are what the image is.                 *)
THEOREM AnyImageIsRead == PicturesSpec => []ImagesAreRead
<1>1. CallsInit => ImagesAreRead
  BY DEF CallsInit, NoCall, ImagesAreRead
<1>2. ASSUME ImagesAreRead, UNCHANGED <<call, result>>
      PROVE  ImagesAreRead'
  BY <1>2 DEF ImagesAreRead
<1>3. ASSUME ReadsAnyPicture
      PROVE  ImagesAreRead'
  <2>1. PICK picture, writer, reader, portions :
          /\ IsPicture(picture) /\ writer \in Orders /\ reader \in Orders
          /\ ArePortions(portions, Seq(Int), SliceSize(picture), InMemory(picture, writer))
          /\ call' = [name |-> "picture", picture |-> picture, writer |-> writer,
                      reader |-> reader]
          /\ result' = WrittenAndRead(picture, writer, reader, portions)
    BY Zenon, <1>3 DEF ReadsAnyPicture, Called
  <2>2. ReadAs(picture, reader, result'.image, result'.projections)
    BY <2>1, PictureIsRead
  <2>3. call'.picture = picture /\ call'.reader = reader
    BY <2>1
  <2> QED
    BY <2>2, <2>3 DEF ImagesAreRead, ReadAs
<1> QED
  BY <1>1, <1>2, <1>3, PTL DEF PicturesSpec

-----------------------------------------------------------------------------
(* The pictures that are checked are some of them                           *)

LEMMA PicturesArePictures ==
  ASSUME NEW picture \in Pictures
  PROVE  IsPicture(picture)
<1>1. /\ picture.dims \in {<<1, 2, 1>>, <<2, 1, 2>>, <<3, 1, 2>>, <<2, 2, 2>>}
      /\ picture.type \in {"MET_UCHAR", "MET_SHORT", "MET_FLOAT", "MET_DOUBLE"}
      /\ picture.origin = <<-7, 0, 40>> /\ picture.spacing = <<1, 2, 3>>
  BY DEF Pictures
<1>2. picture.dims \in Seq(Nat \ {0}) /\ Len(picture.dims) = 3
  <2> DEFINE X == Nat \ {0}
  <2>1. \A a \in X, b \in X, c \in X : <<a, b, c>> \in Seq(X) /\ Len(<<a, b, c>>) = 3
    <3> HIDE DEF X
    <3> QED
      BY OfThree
  <2>2. 1 \in X /\ 2 \in X /\ 3 \in X
    OBVIOUS
  <2> HIDE DEF X
  <2>3. \/ picture.dims = <<1, 2, 1>> \/ picture.dims = <<2, 1, 2>>
        \/ picture.dims = <<3, 1, 2>> \/ picture.dims = <<2, 2, 2>>
    BY <1>1
  <2>4. picture.dims \in Seq(X) /\ Len(picture.dims) = 3
    BY <2>1, <2>2, <2>3
  <2> QED
    BY <2>4 DEF X
<1>3. picture.type \in Types
  BY <1>1 DEF Types
<1>4. /\ <<-7, 0, 40>> \in Seq(Int) /\ Len(<<-7, 0, 40>>) = 3
      /\ <<1, 2, 3>> \in Seq(Int) /\ Len(<<1, 2, 3>>) = 3
  OBVIOUS
<1>5. Places(<<-7, 0, 40>>) /\ Places(<<1, 2, 3>>)
  BY DEF Places, Printed
<1> QED
  BY <1>1, <1>2, <1>3, <1>4, <1>5 DEF IsPicture

LEMMA FlattenOne ==
  ASSUME NEW E, NEW a \in Seq(E)
  PROVE  FlattenSeq(<<a>>) = a
<1> DEFINE Y == Seq(E)
           seqs == <<a>>
<1>1. seqs \in Seq(Y) /\ Len(seqs) = 1 /\ seqs[1] = a
  <2>1. a \in Y
    OBVIOUS
  <2> HIDE DEF Y
  <2> QED
    BY <2>1
<1> HIDE DEF seqs
<1>2. PICK f : /\ Flattens(f, seqs)
               /\ FlattenSeq(seqs) = f[1]
  BY <1>1, FlattenIs
<1>3. f[0] = <<>> /\ f[1] = f[0] \o seqs[1]
  <2>1. \A i \in 1 .. 1 : f[i] = f[i - 1] \o seqs[i]
    BY <1>1, <1>2 DEF Flattens
  <2>2. 1 \in 1 .. 1 /\ 1 - 1 = 0
    OBVIOUS
  <2>3. f[0] = <<>>
    BY <1>2 DEF Flattens
  <2>4. f[1] = f[1 - 1] \o seqs[1]
    BY <2>1, <2>2
  <2> QED
    BY <2>2, <2>3, <2>4
<1>4. <<>> \o a = a
  BY ConcatEmptySeq
<1> QED
  BY <1>1, <1>2, <1>3, <1>4 DEF seqs

LEMMA FlattenTwo ==
  ASSUME NEW E, NEW a \in Seq(E), NEW b \in Seq(E)
  PROVE  FlattenSeq(<<a, b>>) = a \o b
<1> DEFINE Y == Seq(E)
           seqs == <<a, b>>
<1>1. seqs \in Seq(Y) /\ Len(seqs) = 2 /\ seqs[1] = a /\ seqs[2] = b
  <2>1. a \in Y /\ b \in Y
    OBVIOUS
  <2> HIDE DEF Y
  <2> QED
    BY <2>1
<1> HIDE DEF seqs
<1>2. PICK f : /\ Flattens(f, seqs)
               /\ FlattenSeq(seqs) = f[2]
  BY <1>1, FlattenIs
<1>3. f[0] = <<>> /\ f[1] = f[0] \o seqs[1] /\ f[2] = f[1] \o seqs[2]
  <2>1. \A i \in 1 .. 2 : f[i] = f[i - 1] \o seqs[i]
    BY <1>1, <1>2 DEF Flattens
  <2>2. 1 \in 1 .. 2 /\ 2 \in 1 .. 2 /\ 1 - 1 = 0 /\ 2 - 1 = 1
    OBVIOUS
  <2>3. f[0] = <<>>
    BY <1>2 DEF Flattens
  <2>4. f[1] = f[1 - 1] \o seqs[1] /\ f[2] = f[2 - 1] \o seqs[2]
    BY <2>1, <2>2
  <2> QED
    BY <2>2, <2>3, <2>4
<1>4. <<>> \o a = a
  BY ConcatEmptySeq
<1> QED
  BY <1>1, <1>2, <1>3, <1>4 DEF seqs

LEMMA ListsOfPortions ==
  ASSUME NEW E, NEW size, NEW n \in Nat, NEW writes,
         writes = [i \in 1 .. n |-> writes[i]],
         \A i \in 1 .. n : IsPortion(writes[i], E, size)
  PROVE  IsList(writes) /\ \A i \in DOMAIN writes : IsPortion(writes[i], E, size)
<1> DEFINE X == {writes[i] : i \in DOMAIN writes}
<1>1. DOMAIN writes = 1 .. n
  OBVIOUS
<1>2. writes \in [1 .. n -> X]
  BY <1>1
<1> HIDE DEF X
<1>3. writes \in Seq(X)
  BY <1>2, SeqDef
<1> QED
  BY <1>1, <1>3 DEF IsList, X

(* The ways to write a picture that are checked.                            *)
LEMMA PortionsArePortions ==
  ASSUME NEW picture, IsPicture(picture), NEW host \in Orders,
         NEW way \in {"stack", "mixed", "slices"}
  PROVE  ArePortions(Portions(picture, host, way), Seq(Int), SliceSize(picture),
                     InMemory(picture, host))
<1> DEFINE E == Seq(Int)
           m == InMemory(picture, host)
           n == picture.dims[1]
           size == SliceSize(picture)
           quotient == Volume(picture) \div picture.dims[1]
           slice(k) == [kind |-> "slice", data |-> Piece(m, size, k)]
           rest == [kind |-> "stack", data |-> SubSeq(m, size + 1, Len(m))]
           all == [kind |-> "stack", data |-> m]
           p == Portions(picture, host, way)
<1>1. n \in Nat \ {0} /\ size \in Nat \ {0} /\ Volume(picture) = n * size
  BY PictureHas
<1>2. m \in Seq(E) /\ Len(m) = n * size
  BY <1>1, MemoryIs
<1>3. quotient = size
  <2> HIDE DEF size, n
  <2>1. size * n = n * size /\ (size * n) \div n = size
    BY <1>1, Quotients
  <2> QED
    BY <1>1, <2>1 DEF n
<1>4. p = CASE way = "stack"  -> <<all>>
            [] way = "mixed"  -> <<slice(1), rest>>
            [] way = "slices" -> [k \in 1 .. n |-> slice(k)]
  BY <1>3 DEF Portions, Piece
<1> HIDE DEF m, size, n, E, p
<1>5. ASSUME NEW k \in 1 .. n
      PROVE  /\ Piece(m, size, k) \in Seq(E) /\ Len(Piece(m, size, k)) = size
             /\ IsPortion(slice(k), E, size)
  <2> DEFINE a == (k - 1) * size
             b == k * size
  <2>1. n \in Nat /\ size \in Nat
    BY <1>1
  <2>2. a \in Nat /\ b \in Nat /\ b = a + size /\ b <= n * size
    BY <2>1, TimesIs
  <2> HIDE DEF a, b
  <2>3. b \in 0 .. Len(m) /\ a \in 0 .. b
    BY <1>1, <1>2, <2>2
  <2>4. SubSeq(m, a + 1, b) \in Seq(E) /\ Len(SubSeq(m, a + 1, b)) = b - a
    BY <1>2, <2>3, PartIs
  <2>5. Piece(m, size, k) = SubSeq(m, a + 1, b)
    BY DEF Piece, a, b
  <2>6. Piece(m, size, k) \in Seq(E) /\ Len(Piece(m, size, k)) = size
    BY <2>1, <2>2, <2>4, <2>5
  <2>7. slice(k).data = Piece(m, size, k) /\ Len(slice(k).data) = 1 * size
    BY <2>1, <2>6
  <2> HIDE DEF slice
  <2> QED
    BY <2>6, <2>7 DEF IsPortion
<1>6. CASE way = "stack"
  <2>1. p = <<all>>
    BY <1>4, <1>6
  <2>2. IsPortion(all, E, size)
    <3>1. all.data \in Seq(E) /\ Len(all.data) = n * size /\ all.kind # "slice"
      BY <1>2
    <3> HIDE DEF all
    <3> QED
      BY <1>1, <3>1 DEF IsPortion
  <2>3. all.data = m
    OBVIOUS
  <2> HIDE DEF all
  <2>4. p = [i \in 1 .. 1 |-> p[i]] /\ p[1] = all /\ DOMAIN p = 1 .. 1
    BY <2>1
  <2>5. [i \in DOMAIN p |-> p[i].data] = <<m>>
    BY <2>3, <2>4
  <2>6. FlattenSeq(<<m>>) = m
    BY <1>2, FlattenOne
  <2>7. IsList(p) /\ \A i \in DOMAIN p : IsPortion(p[i], E, size)
    <3>1. \A i \in 1 .. 1 : i = 1
      OBVIOUS
    <3>2. \A i \in 1 .. 1 : IsPortion(p[i], E, size)
      BY <2>2, <2>4, <3>1
    <3> QED
      BY <2>4, <3>2, ListsOfPortions
  <2>8. ArePortions(p, E, size, m)
    BY <2>5, <2>6, <2>7 DEF ArePortions
  <2> QED
    BY <2>8 DEF p, E, size, m
<1>7. CASE way = "mixed"
  <2>1. p = <<slice(1), rest>>
    BY <1>4, <1>7
  <2> DEFINE r == SubSeq(m, size + 1, Len(m))
             h == Piece(m, size, 1)
  <2>2. 1 \in 1 .. n /\ size \in 0 .. Len(m) /\ Len(m) \in 0 .. Len(m)
        /\ n - 1 \in Nat /\ n * size - size = (n - 1) * size
    <3>1. size \in Nat /\ n \in Nat /\ n >= 1 /\ 1 * size = size
      BY <1>1
    <3>2. 1 \in 1 .. n
      BY <3>1
    <3>3. n * size \in Nat /\ 1 * size <= n * size
      BY <3>1, <3>2, TimesIs
    <3>4. n * size - size = (n - 1) * size
      BY <3>1
    <3> QED
      BY <1>2, <3>1, <3>2, <3>3, <3>4
  <2>3. r \in Seq(E) /\ Len(r) = Len(m) - size
    BY <1>2, <2>2, PartIs
  <2>4. IsPortion(rest, E, size)
    <3>1. rest.data = r /\ rest.kind # "slice"
      OBVIOUS
    <3> HIDE DEF rest, r
    <3>2. Len(rest.data) = (n - 1) * size /\ rest.data \in Seq(E)
      BY <1>2, <2>2, <2>3, <3>1
    <3> QED
      BY <2>2, <3>1, <3>2 DEF IsPortion
  <2>5. IsPortion(slice(1), E, size) /\ h \in Seq(E)
    BY <1>5, <2>2
  <2>6. slice(1).data = h /\ rest.data = r
    OBVIOUS
  <2>7. h \o r = m
    <3>1. SubSeq(m, 1, size) \o SubSeq(m, size + 1, Len(m)) = SubSeq(m, 1, Len(m))
      BY <1>2, <2>2, PartsJoin
    <3>2. SubSeq(m, 1, Len(m)) = m
      BY <1>2, SubSeqFull
    <3>3. (1 - 1) * size + 1 = 1 /\ 1 * size = size
      BY <1>1
    <3>4. h = SubSeq(m, 1, size)
      BY <3>3 DEF Piece
    <3> QED
      BY <3>1, <3>2, <3>4
  <2> HIDE DEF slice, rest, r, h
  <2>8. p = [i \in 1 .. 2 |-> p[i]] /\ p[1] = slice(1) /\ p[2] = rest /\ DOMAIN p = 1 .. 2
    BY <2>1
  <2>9. [i \in DOMAIN p |-> p[i].data] = <<h, r>>
    <3>1. [i \in 1 .. 2 |-> p[i].data] = <<p[1].data, p[2].data>>
      OBVIOUS
    <3> QED
      BY <2>6, <2>8, <3>1
  <2>10. FlattenSeq(<<h, r>>) = m
    BY <2>3, <2>5, <2>7, FlattenTwo
  <2>11. IsList(p) /\ \A i \in DOMAIN p : IsPortion(p[i], E, size)
    <3>1. \A i \in 1 .. 2 : i = 1 \/ i = 2
      OBVIOUS
    <3>2. \A i \in 1 .. 2 : IsPortion(p[i], E, size)
      BY <2>4, <2>5, <2>8, <3>1
    <3> QED
      BY <2>8, <3>2, ListsOfPortions
  <2>12. ArePortions(p, E, size, m)
    BY <2>9, <2>10, <2>11 DEF ArePortions
  <2> QED
    BY <2>12 DEF p, E, size, m
<1>8. CASE way = "slices"
  <2>1. p = [k \in 1 .. n |-> slice(k)]
    BY <1>4, <1>8
  <2>2. \A k \in 1 .. n : p[k] = slice(k) /\ p[k].data = Piece(m, size, k)
    BY <2>1
  <2> HIDE DEF slice
  <2>3. p = [k \in 1 .. n |-> p[k]] /\ DOMAIN p = 1 .. n
    BY <2>1
  <2>4. [i \in DOMAIN p |-> p[i].data] = [i \in 1 .. n |-> Piece(m, size, i)]
    BY <2>2, <2>3
  <2>5. FlattenSeq([i \in 1 .. n |-> Piece(m, size, i)]) = m
    BY <1>1, <1>2, PiecesMake
  <2>6. IsList(p) /\ \A i \in DOMAIN p : IsPortion(p[i], E, size)
    <3>1. \A i \in 1 .. n : IsPortion(p[i], E, size)
      BY <1>5, <2>2
    <3> QED
      BY <1>1, <2>3, <3>1, ListsOfPortions
  <2>7. ArePortions(p, E, size, m)
    BY <2>4, <2>5, <2>6 DEF ArePortions
  <2> QED
    BY <2>7 DEF p, E, size, m
<1> QED
  BY <1>6, <1>7, <1>8

LEMMA PicturesAreAny == WritesAndReads => ReadsAnyPicture
<1> SUFFICES ASSUME WritesAndReads PROVE ReadsAnyPicture
  OBVIOUS
<1>1. PICK picture \in Pictures, writer \in Orders, reader \in Orders,
           way \in {"stack", "mixed", "slices"} :
        Called([name |-> "picture", picture |-> picture, writer |-> writer,
                reader |-> reader],
               WrittenAndRead(picture, writer, reader, Portions(picture, writer, way)))
  BY Zenon DEF WritesAndReads
<1> DEFINE portions == Portions(picture, writer, way)
<1>2. /\ IsPicture(picture) /\ writer \in Orders /\ reader \in Orders
      /\ ArePortions(portions, Seq(Int), SliceSize(picture), InMemory(picture, writer))
  BY PicturesArePictures, PortionsArePortions
<1>3. Called([name |-> "picture", picture |-> picture, writer |-> writer,
              reader |-> reader],
             WrittenAndRead(picture, writer, reader, portions))
  BY <1>1
<1> HIDE DEF portions
<1> QED
  BY Zenon, <1>2, <1>3 DEF ReadsAnyPicture

-----------------------------------------------------------------------------
(* The headers that are checked are some of them                            *)

(* Where a number should be, there is one, or a word in place of one.       *)
GoodLine(l) == l.key \in NumberKeys => l.value \in Seq(Int)

LEMMA WordLines ==
  ASSUME NEW key, key \notin NumberKeys, NEW v
  PROVE  GoodLine(Line(key, v))
BY BlankIsBlank DEF GoodLine, Line

LEMMA NumberLines ==
  ASSUME NEW key, NEW v \in Seq(Int)
  PROVE  GoodLine(NumbersLine(key, v))
BY DEF GoodLine, NumbersLine

LEMMA InsertionsAreGood == \A l \in Insertions : GoodLine(l)
<1>1. GoodLine(Blank) /\ GoodLine(Malformed)
  BY BlankIsBlank DEF GoodLine
<1>2. \A key \in {"ObjectType", "BinaryData", "BinaryDataByteOrderMSB", "ElementByteOrderMSB",
                  "CompressedData", "ElementType"} : key \notin NumberKeys
  BY DEF NumberKeys
<1>3. \A key \in {"ObjectType", "BinaryData", "BinaryDataByteOrderMSB", "ElementByteOrderMSB",
                  "CompressedData", "ElementType"} : \A v : GoodLine(Line(key, v))
  BY <1>2, WordLines
<1>4. \A key : \A v \in Seq(Int) : GoodLine(NumbersLine(key, v))
  BY NumberLines
<1>5. /\ <<3>> \in Seq(Int) /\ <<-3, 2>> \in Seq(Int) /\ <<1, 2, 3>> \in Seq(Int)
      /\ <<4, 3>> \in Seq(Int) /\ <<NoNumber, 2>> \in Seq(Int) /\ <<NoNumber>> \in Seq(Int)
  BY DEF NoNumber
<1> QED
  BY Zenon, <1>1, <1>3, <1>4, <1>5 DEF Insertions

LEMMA TenLines ==
  ASSUME NEW X, NEW a \in X, NEW b \in X, NEW c \in X, NEW d \in X, NEW e \in X,
         NEW f \in X, NEW g \in X, NEW h \in X, NEW i \in X, NEW j \in X
  PROVE  <<a, b, c, d, e, f, g, h, i, j>> \in Seq(X)
<1>1. <<a, b, c, d, e, f, g, h, i, j>> \in [1 .. 10 -> X]
  OBVIOUS
<1> QED
  BY <1>1, SeqDef

SoundLines == {SoundHeader[i] : i \in DOMAIN SoundHeader}

LEMMA SoundHeaderIsGood ==
  SoundHeader \in Seq(SoundLines) /\ \A l \in SoundLines : GoodLine(l)
<1> DEFINE image == [dims |-> <<2, 3>>, spacing |-> <<1, 2>>, origin |-> <<-7, 5>>,
                     type |-> "MET_SHORT"]
           real(t) == [i \in DOMAIN t |-> Printed(ReverseTuple(t)[i])]
           o == real(image.origin)
           s == real(image.spacing)
           d == ReverseTuple(image.dims)
           a1 == Line("ObjectType", <<"Image">>)
           a2 == NumbersLine("NDims", <<Len(image.dims)>>)
           a3 == Line("BinaryData", <<"True">>)
           a4 == Line("BinaryDataByteOrderMSB", <<IF "big" = "big" THEN "True" ELSE "False">>)
           a5 == Line("CompressedData", <<"False">>)
           a6 == NumbersLine("Offset", o)
           a7 == NumbersLine("ElementSpacing", s)
           a8 == NumbersLine("DimSize", d)
           a9 == Line("ElementType", <<image.type>>)
           a10 == Line("ElementDataFile", <<"a.raw">>)
           X == {a1, a2, a3, a4, a5, a6, a7, a8, a9, a10}
<1>1. SoundHeader = <<a1, a2, a3, a4, a5, a6, a7, a8, a9, a10>>
  BY DEF SoundHeader, FormatMetaInfo
<1>2. /\ "ObjectType" \notin NumberKeys /\ "BinaryData" \notin NumberKeys
      /\ "BinaryDataByteOrderMSB" \notin NumberKeys /\ "CompressedData" \notin NumberKeys
      /\ "ElementType" \notin NumberKeys /\ "ElementDataFile" \notin NumberKeys
  BY DEF NumberKeys
<1>3. IsImage(image) /\ Len(image.dims) \in Int
  <2>1. /\ <<2, 3>> \in Seq(Nat) /\ <<1, 2>> \in Seq(Int) /\ <<-7, 5>> \in Seq(Int)
        /\ Len(<<2, 3>>) = 2
    OBVIOUS
  <2>2. Places(<<1, 2>>) /\ Places(<<-7, 5>>)
    BY DEF Places, Printed
  <2>3. "MET_SHORT" \in Types
    BY DEF Types
  <2> QED
    BY <2>1, <2>2, <2>3 DEF IsImage
<1> HIDE DEF image
<1>4. o \in Seq(Int) /\ s \in Seq(Int) /\ d \in Seq(Int)
  <2> DEFINE Y == Int
             Z == Nat
  <2>1. image.origin \in Seq(Y) /\ image.spacing \in Seq(Y) /\ image.dims \in Seq(Z)
    BY <1>3 DEF IsImage
  <2>2. o = ReverseTuple(image.origin) /\ s = ReverseTuple(image.spacing)
    BY <1>3, PrintedIs DEF IsImage
  <2> HIDE DEF Y, Z, o, s
  <2>3. ReverseTuple(image.origin) \in Seq(Y) /\ ReverseTuple(image.spacing) \in Seq(Y) /\ d \in Seq(Z)
    BY <2>1, ReverseIs
  <2>4. d \in Seq(Int)
    <3> HIDE DEF d
    <3> QED
      BY <2>3 DEF Z
  <2> QED
    BY <2>2, <2>3, <2>4 DEF Y
<1>5. GoodLine(a1) /\ GoodLine(a3) /\ GoodLine(a4) /\ GoodLine(a5) /\ GoodLine(a9) /\ GoodLine(a10)
  BY <1>2, WordLines
<1>6. GoodLine(a2) /\ GoodLine(a6) /\ GoodLine(a7) /\ GoodLine(a8)
  <2>1. <<Len(image.dims)>> \in Seq(Int)
    BY <1>3
  <2> HIDE DEF o, s, d
  <2> QED
    BY <1>4, <2>1, NumberLines
<1> HIDE DEF a1, a2, a3, a4, a5, a6, a7, a8, a9, a10
<1>7. \A l \in X : GoodLine(l)
  BY <1>5, <1>6
<1>8. a1 \in X /\ a2 \in X /\ a3 \in X /\ a4 \in X /\ a5 \in X /\ a6 \in X /\ a7 \in X
      /\ a8 \in X /\ a9 \in X /\ a10 \in X
  OBVIOUS
<1> HIDE DEF X
<1>9. SoundHeader \in Seq(X)
  BY <1>1, <1>8, TenLines
<1>10. IsList(SoundHeader) /\ \A i \in DOMAIN SoundHeader : SoundHeader[i] \in X
  BY <1>9, ListOf, ElementOfSeq
<1> QED
  BY <1>7, <1>10 DEF SoundLines, IsList

(* Changes make lines of lines.                                             *)
LEMMA ChangesStay ==
  ASSUME NEW X, Insertions \subseteq X, NEW lines \in Seq(X), NEW changed \in Changes(lines)
  PROVE  changed \in Seq(X)
<1> DEFINE n == Len(lines)
<1>1. n \in Nat /\ DOMAIN lines = 1 .. n
  BY LenProperties
<1>2. ASSUME NEW a \in 1 .. n + 1, NEW b \in Nat, b >= a - 1, b <= n
      PROVE  SubSeq(lines, a, b) \in Seq(X)
  <2>1. b \in a - 1 .. n
    BY <1>1, <1>2
  <2> QED
    BY <1>1, <2>1, SubSeqProperties
<1>3. ASSUME NEW i \in 1 .. n PROVE RemoveAt(lines, i) \in Seq(X)
  <2>1. SubSeq(lines, 1, i - 1) \in Seq(X) /\ SubSeq(lines, i + 1, n) \in Seq(X)
    BY <1>1, <1>2
  <2>2. RemoveAt(lines, i) = SubSeq(lines, 1, i - 1) \o SubSeq(lines, i + 1, n)
    BY DEF RemoveAt
  <2> QED
    BY <2>1, <2>2, ConcatProperties
<1>4. ASSUME NEW i \in 1 .. n + 1, NEW new \in Insertions PROVE InsertAt(lines, i, new) \in Seq(X)
  <2>1. SubSeq(lines, 1, i - 1) \in Seq(X) /\ SubSeq(lines, i, n) \in Seq(X)
    BY <1>1, <1>2
  <2>2. <<new>> \in Seq(X)
    <3>1. new \in X
      OBVIOUS
    <3> QED
      BY <3>1, ListOfOne
  <2>3. InsertAt(lines, i, new) = SubSeq(lines, 1, i - 1) \o <<new>> \o SubSeq(lines, i, n)
    BY DEF InsertAt
  <2>4. SubSeq(lines, 1, i - 1) \o <<new>> \in Seq(X)
    BY <2>1, <2>2, ConcatProperties
  <2> QED
    BY <2>1, <2>3, <2>4, ConcatProperties
<1> HIDE DEF n
<1>5. changed \in {lines} \cup {RemoveAt(lines, i) : i \in 1 .. n}
        \cup {InsertAt(lines, i, new) : i \in 1 .. n + 1, new \in Insertions}
  BY <1>1 DEF Changes, n
<1> QED
  BY <1>3, <1>4, <1>5

LEMMA HeadersAreAny == ReadsHeader => ReadsAnyHeader
<1> SUFFICES ASSUME ReadsHeader PROVE ReadsAnyHeader
  OBVIOUS
<1>1. PICK once \in Changes(SoundHeader) : \E lines \in Changes(once), ended \in BOOLEAN :
        Called([name |-> "header", header |-> [lines |-> lines, ended |-> ended]],
               GetInformation([lines |-> lines, ended |-> ended]))
  BY Zenon DEF ReadsHeader
<1>2. PICK lines \in Changes(once), ended \in BOOLEAN :
        Called([name |-> "header", header |-> [lines |-> lines, ended |-> ended]],
               GetInformation([lines |-> lines, ended |-> ended]))
  BY Zenon, <1>1
<1> DEFINE X == SoundLines \cup Insertions
           header == [lines |-> lines, ended |-> ended]
<1>3. \A l \in X : GoodLine(l)
  BY SoundHeaderIsGood, InsertionsAreGood
<1>4. SoundHeader \in Seq(X)
  <2>1. SoundHeader \in Seq(SoundLines) /\ SoundLines \subseteq X
    BY SoundHeaderIsGood
  <2> QED
    BY <2>1
<1>5. Insertions \subseteq X
  OBVIOUS
<1> HIDE DEF X
<1>6. once \in Seq(X)
  BY <1>4, <1>5, ChangesStay
<1>7. lines \in Seq(X)
  BY <1>5, <1>6, ChangesStay
<1>8. IsList(lines) /\ \A i \in DOMAIN lines : GoodLine(lines[i])
  BY <1>3, <1>7, ListOf, ElementOfSeq
<1>9. header.lines = lines /\ header.ended = ended
  OBVIOUS
<1>10. Called([name |-> "header", header |-> header], GetInformation(header))
  BY <1>2
<1> HIDE DEF header
<1>11. IsHeader(header)
  BY <1>8, <1>9 DEF IsHeader, GoodLine
<1> QED
  BY Zenon, <1>10, <1>11 DEF ReadsAnyHeader

-----------------------------------------------------------------------------
(* A key that no line gives is in no section                                *)

Spares(t, k) == \A i \in DOMAIN t : k \notin Keys(t[i].children)

LEMMA SparesMore ==
  ASSUME NEW E, NEW e \in Seq(E), NEW x \in E, NEW k,
         Spares(e, k), k \notin Keys(x.children)
  PROVE  Spares(Append(e, x), k)
<1> DEFINE u == Append(e, x)
           n == Len(e)
<1>1. /\ u \in Seq(E) /\ Len(u) = n + 1
      /\ \A i \in 1 .. n : u[i] = e[i]
      /\ u[n + 1] = x
  BY AppendProperties
<1>2. n \in Nat /\ DOMAIN e = 1 .. n /\ DOMAIN u = 1 .. Len(u)
  BY <1>1, LenProperties
<1> HIDE DEF u, n
<1>3. \A i \in DOMAIN u : i \in 1 .. n \/ i = n + 1
  BY <1>1, <1>2
<1>4. Spares(u, k)
  BY <1>1, <1>2, <1>3 DEF Spares
<1> QED
  BY <1>4 DEF u

(* All but the last, and the last.                                          *)
LEMMA SparesParts ==
  ASSUME NEW E, NEW e \in Seq(E), e # <<>>, NEW k, Spares(e, k)
  PROVE  Spares(Front(e), k) /\ k \notin Keys(Last(e).children)
<1> DEFINE f == Front(e)
           y == Last(e)
<1>1. f \in Seq(E) /\ y \in E /\ e = Append(f, y)
  BY FrontAndLast
<1> HIDE DEF f, y
<1>2. /\ e \in Seq(E) /\ Len(e) = Len(f) + 1
      /\ \A i \in 1 .. Len(f) : e[i] = f[i]
      /\ e[Len(f) + 1] = y
  BY <1>1, AppendProperties
<1>3. Len(f) \in Nat /\ DOMAIN f = 1 .. Len(f) /\ DOMAIN e = 1 .. Len(e)
  BY <1>1, LenProperties
<1>4. \A i \in 1 .. Len(f) : i \in 1 .. Len(e)
  BY <1>2, <1>3
<1>5. Len(f) + 1 \in 1 .. Len(e)
  BY <1>2, <1>3
<1> QED
  BY <1>2, <1>3, <1>4, <1>5 DEF Spares, f, y

LEMMA ReadLineSpares ==
  ASSUME NEW K, NEW V, NEW s \in PartsRead(K, V), NEW line,
         line.kind \in LineKinds, line.key \in K, line.value \in V,
         NEW k, line.kind = "key" => line.key # k,
         s.outcome = "ok", Fits(s, line), Spares(s.tree, k)
  PROVE  Spares(ReadLine(s, line).tree, k)
<1> DEFINE E == BranchesOf(K, V)
           L == LeavesOf(K, V)
           r == ReadLine(s, line)
<1>1. s.tree \in Seq(E) /\ (s.open => s.tree # <<>>) /\ Closed(s) \in Seq(E)
  BY ClosedIs DEF PartsRead, TreesOf
<1>2. /\ Entry(line) \in E /\ Leaf(line) \in L
      /\ Entry(line).children = <<>> /\ Leaf(line).key = line.key
  BY EntryIs DEF Entry, Leaf
<1>3. k \notin Keys(Entry(line).children)
  BY <1>2, EmptyList
<1>4. CASE line.kind = "nothing"
  <2>1. r = s
    BY <1>4, ReadsAll
  <2> QED
    BY <2>1
<1>5. CASE line.kind = "section"
  <2> DEFINE c == Closed(s)
             x == Entry(line)
             u == Append(c, x)
  <2>1. r = [outcome |-> "ok", open |-> TRUE, tree |-> u]
    BY <1>5, ReadsSection
  <2>2. c = s.tree \/ (c = Front(s.tree) /\ s.open)
    BY DEF Closed
  <2> HIDE DEF r, c, x, E
  <2>3. Spares(c, k)
    BY <1>1, <2>2, SparesParts
  <2>4. c \in Seq(E) /\ x \in E /\ k \notin Keys(x.children)
    BY <1>1, <1>2, <1>3 DEF c, x
  <2>5. Spares(u, k)
    BY <2>3, <2>4, SparesMore
  <2> HIDE DEF u
  <2>6. r.tree = u
    BY <2>1
  <2> QED
    BY <2>5, <2>6 DEF r
<1>6. CASE line.kind = "key" /\ ~s.open
  <2> DEFINE x == Entry(line)
             u == Append(s.tree, x)
  <2>1. r = [outcome |-> "ok", open |-> FALSE, tree |-> u]
    BY <1>6, ReadsAll
  <2> HIDE DEF r, x, E
  <2>2. x \in E /\ k \notin Keys(x.children)
    BY <1>2, <1>3 DEF x
  <2>3. Spares(u, k)
    BY <1>1, <2>2, SparesMore
  <2> HIDE DEF u
  <2>4. r.tree = u
    BY <2>1
  <2> QED
    BY <2>3, <2>4 DEF r
<1>7. CASE line.kind = "key" /\ s.open
  <2> DEFINE f == Front(s.tree)
             y == Last(s.tree)
             ch == Append(y.children, Leaf(line))
             x == [y EXCEPT !.children = ch]
             u == Append(f, x)
  <2>1. r = [outcome |-> "ok", open |-> TRUE, tree |-> u]
    BY <1>7, ReadsInside DEF WithLeaf
  <2>2. f \in Seq(E) /\ y \in E
    <3> HIDE DEF E
    <3> QED
      BY <1>1, <1>7, FrontAndLast
  <2>3. Spares(f, k) /\ k \notin Keys(y.children)
    <3> HIDE DEF E
    <3> QED
      BY <1>1, <1>7, SparesParts
  <2>4. y.children \in Seq(L)
    BY <2>2 DEF BranchesOf
  <2> HIDE DEF r, f, y, L
  <2>5. ch \in Seq(L) /\ Keys(ch) = Keys(y.children) \cup {line.key}
    BY <1>2, <2>4, AppendedIs
  <2> HIDE DEF ch
  <2>6. x \in E /\ x.children = ch
    BY <2>2, <2>5 DEF BranchesOf, L
  <2>7. k \notin Keys(x.children)
    BY <1>7, <2>3, <2>5, <2>6
  <2> HIDE DEF x, E
  <2>8. Spares(u, k)
    BY <2>2, <2>3, <2>6, <2>7, SparesMore
  <2> HIDE DEF u
  <2>9. r.tree = u
    BY <2>1
  <2> QED
    BY <2>8, <2>9 DEF r
<1> QED
  BY <1>4, <1>5, <1>6, <1>7 DEF LineKinds, Fits

(* Key lines with another key than k.                                       *)
NeverGiven(lines, k) == \A i \in DOMAIN lines : lines[i].kind = "key" => lines[i].key # k

LEMMA HasNotWhatSpares ==
  ASSUME NEW t, NEW k, Spares(t, k), NEW s
  PROVE  ~Has(t, <<s, k>>)
<1>1. CASE s \in Keys(t)
  <2>1. IndexOf(t, s) \in DOMAIN t
    BY <1>1, IndexIs
  <2> QED
    BY <1>1, <2>1 DEF Has, Children, Spares
<1>2. CASE s \notin Keys(t)
  BY <1>2, EmptyList DEF Has, Children
<1> QED
  BY <1>1, <1>2

LEMMA ClosedSpares ==
  ASSUME NEW K, NEW V, NEW s \in PartsRead(K, V), NEW k, Spares(s.tree, k)
  PROVE  Spares(Closed(s), k)
<1> DEFINE E == BranchesOf(K, V)
<1>1. s.tree \in Seq(E) /\ (s.open => s.tree # <<>>)
  BY DEF PartsRead, TreesOf
<1> HIDE DEF E
<1>2. CASE Closed(s) = s.tree
  BY <1>2
<1>3. CASE Closed(s) # s.tree
  <2>1. s.open /\ Closed(s) = Front(s.tree)
    BY <1>3 DEF Closed
  <2> QED
    BY <1>1, <2>1, SparesParts
<1> QED
  BY <1>2, <1>3

(* The settings of a file are those of its lines.                           *)
LEMMA ConfHasNot ==
  ASSUME NEW lines, AreLines(lines), NEW k, NeverGiven(lines, k),
         ReadConf(lines).outcome = "ok", NEW s
  PROVE  ~Has(ReadConf(lines).tree, <<s, k>>)
<1> DEFINE n == Len(lines)
           K == KeysIn(lines)
           V == ValuesIn(lines)
           X == PartsRead(K, V)
<1>1. n \in Nat /\ DOMAIN lines = 1 .. n
  BY ListIs DEF AreLines
<1>2. \A i \in 1 .. n : /\ lines[i].kind \in LineKinds /\ lines[i].key \in K
                        /\ lines[i].value \in V
                        /\ lines[i].kind = "key" => lines[i].key # k
  BY <1>1 DEF AreLines, KeysIn, ValuesIn, NeverGiven
<1>3. PICK h : Reads(h, lines)
  BY ReadsIs
<1>4. ReadConf(lines) = [outcome |-> h[n].outcome, tree |-> Closed(h[n])]
  BY <1>3, ReadsIs
<1> HIDE DEF K, V
<1> DEFINE good(i) == h[i].outcome = "ok" => h[i] \in X /\ Spares(h[i].tree, k)
           C == {i \in 0 .. n : good(i)}
<1>5. good(0)
  <2>1. Start \in X
    <3>1. <<>> \in Seq(BranchesOf(K, V))
      BY EmptySeq
    <3> QED
      BY <3>1 DEF Start, PartsRead, TreesOf
  <2>2. Spares(Start.tree, k)
    BY EmptySeq DEF Start, Spares
  <2>3. h[0] = Start
    BY <1>3 DEF Reads
  <2> QED
    BY <2>1, <2>2, <2>3
<1>6. ASSUME NEW i \in 1 .. n, good(i - 1) PROVE good(i)
  <2> DEFINE s0 == h[i - 1]
             line == lines[i]
  <2>1. h[i] = ReadLine(s0, line)
    BY <1>3 DEF Reads
  <2>2. CASE s0.outcome # "ok"
    <3>1. ReadLine(s0, line) = s0
      BY <2>2, ThrownStays
    <3> QED
      BY <2>1, <2>2, <3>1
  <2>3. CASE s0.outcome = "ok"
    <3>1. s0 \in X /\ Spares(s0.tree, k)
      BY <1>6, <2>3
    <3>2. /\ line.kind \in LineKinds /\ line.key \in K /\ line.value \in V
          /\ line.kind = "key" => line.key # k
      BY <1>2
    <3> HIDE DEF s0, line
    <3>3. h[i].outcome = "ok" <=> Fits(s0, line)
      BY <2>1, <2>3, <3>1, <3>2, FitsOrThrows
    <3>4. h[i] \in X
      BY <2>1, <3>1, <3>2, ReadLineIs
    <3>5. Fits(s0, line) => Spares(h[i].tree, k)
      BY <2>1, <2>3, <3>1, <3>2, ReadLineSpares
    <3> QED
      BY <3>3, <3>4, <3>5
  <2> QED
    BY <2>2, <2>3
<1>7. C = 0 .. n
  <2>1. 0 \in C
    <3> HIDE DEF good
    <3> QED
      BY <1>1, <1>5
  <2>2. ASSUME NEW i \in 0 .. n, i # 0, i - 1 \in C PROVE i \in C
    <3> HIDE DEF good
    <3>1. i \in 1 .. n /\ good(i - 1)
      BY <1>1, <2>2
    <3> QED
      BY <1>6, <3>1
  <2>3. C \in SUBSET (0 .. n)
    OBVIOUS
  <2> HIDE DEF C
  <2> QED
    BY <1>1, <2>1, <2>2, <2>3, UpTo
<1>8. n \in 0 .. n
  BY <1>1
<1>9. good(n)
  <2> HIDE DEF good
  <2> QED
    BY <1>7, <1>8
<1>10. h[n].outcome = "ok"
  BY <1>4
<1>11. Spares(Closed(h[n]), k)
  BY <1>9, <1>10, ClosedSpares
<1>12. Spares(ReadConf(lines).tree, k)
  BY <1>4, <1>11
<1> QED
  BY <1>12, HasNotWhatSpares

-----------------------------------------------------------------------------
(* What is merged                                                          *)

LEMMA MergingExists ==
  ASSUME NEW K, NEW V, Word("") \in V, NEW tree \in TreesOf(K, V),
         NEW section, section.key \in K, section.children \in Seq(LeavesOf(K, V))
  PROVE  \E f : MergesBy(f, tree, section)
<1> DEFINE es == section.children
           n == Len(es)
           X == TreesOf(K, V)
           step(t, i) == MergeEntry(t, section.key, es[i])
           g == [p \in X \X (1 .. n) |-> step(p[1], p[2])]
<1>1. n \in Nat /\ DOMAIN es = 1 .. n
  BY ListOf
<1>2. \A i \in 1 .. n : es[i] \in LeavesOf(K, V)
  BY ElementOfSeq
<1>3. \A i \in 1 .. n : es[i].key \in K /\ es[i].value \in V
  BY <1>2 DEF LeavesOf
<1> HIDE DEF n, es
<1>4. \A x \in X, i \in 1 .. n : step(x, i) \in X
  BY <1>3, PutStays DEF MergeEntry
<1> HIDE DEF X, step
<1>5. g \in [X \X (1 .. n) -> X] /\ \A x \in X, i \in 1 .. n : g[<<x, i>>] = step(x, i)
  BY <1>4
<1>6. tree \in X
  BY DEF X
<1> HIDE DEF g
<1>7. PICK f : FoldsBy(f, g, tree, 1 .. n)
  BY <1>1, FoldExists
<1>8. \A s \in SUBSET (1 .. n) : f[s] \in X
  BY <1>1, <1>5, <1>6, <1>7, FoldInSet
<1> DEFINE h == [s \in SUBSET (1 .. n) |->
                   IF s = {} THEN tree ELSE step(f[s \ {Max(s)}], Max(s))]
<1>9. ASSUME NEW s \in SUBSET (1 .. n) PROVE f[s] = h[s]
  <2>1. CASE s = {}
    BY <1>7, <2>1 DEF FoldsBy
  <2>2. CASE s # {}
    <3>1. Max(s) \in 1 .. n /\ f[s \ {Max(s)}] \in X
      BY <1>1, <1>8, <2>2, MaxIsIn
    <3>2. f[s] = g[<<f[s \ {Max(s)}], Max(s)>>]
      BY <1>7, <2>2 DEF FoldsBy
    <3>3. f[s] = step(f[s \ {Max(s)}], Max(s))
      BY <1>5, <3>1, <3>2
    <3> QED
      BY <2>2, <3>3
  <2> QED
    BY <2>1, <2>2
<1>10. f = [s \in SUBSET (1 .. n) |-> f[s]] /\ h = [s \in SUBSET (1 .. n) |-> h[s]]
  BY <1>7 DEF FoldsBy
<1>11. f = h
  <2> HIDE DEF h
  <2> QED
    BY <1>9, <1>10
<1>12. f = [s \in SUBSET (1 .. n) |->
              IF s = {} THEN tree ELSE step(f[s \ {Max(s)}], Max(s))]
  BY <1>11
<1> QED
  BY <1>1, <1>12 DEF MergesBy, step, es

(* u is t with the first i of the entries in es merged into its section.    *)
MergedTo(t, u, s, es, i) ==
  /\ IsTree(u)
  /\ \A r : r # s => Children(u, r) = Children(t, r)
  /\ \A k : Has(t, <<s, k>>) => Has(u, <<s, k>>) /\ Get(u, <<s, k>>) = Get(t, <<s, k>>)
  /\ \A k : Has(u, <<s, k>>) => Has(t, <<s, k>>) \/ \E j \in 1 .. i : es[j].key = k
  /\ \A j \in 1 .. i : Has(u, <<s, es[j].key>>)
  /\ \A j \in 1 .. i : ~Has(t, <<s, es[j].key>>) => Get(u, <<s, es[j].key>>) = es[j].value
  /\ (\A j \in 1 .. i : Has(t, <<s, es[j].key>>)) => u = t

LEMMA MergedNext ==
  ASSUME NEW t, NEW u, NEW s, NEW es, NEW n \in Nat, NEW i \in 1 .. n,
         \A j, l \in 1 .. n : es[j].key = es[l].key => j = l,
         MergedTo(t, u, s, es, i - 1)
  PROVE  MergedTo(t, MergeEntry(u, s, es[i]), s, es, i)
<1> DEFINE key == es[i].key
           v == MergeEntry(u, s, es[i])
<1>0. i \in Nat /\ \A j \in 1 .. i : (j \in 1 .. i - 1 \/ j = i) /\ j \in 1 .. n
  OBVIOUS
<1>1. \A j \in 1 .. i - 1 : es[j].key # key /\ j \in 1 .. i
  BY <1>0
<1>2. /\ IsTree(u)
      /\ \A r : r # s => Children(u, r) = Children(t, r)
      /\ \A k : Has(t, <<s, k>>) => Has(u, <<s, k>>) /\ Get(u, <<s, k>>) = Get(t, <<s, k>>)
      /\ \A k : Has(u, <<s, k>>) => Has(t, <<s, k>>) \/ \E j \in 1 .. i - 1 : es[j].key = k
      /\ \A j \in 1 .. i - 1 : Has(u, <<s, es[j].key>>)
      /\ \A j \in 1 .. i - 1 :
           ~Has(t, <<s, es[j].key>>) => Get(u, <<s, es[j].key>>) = es[j].value
      /\ (\A j \in 1 .. i - 1 : Has(t, <<s, es[j].key>>)) => u = t
  BY DEF MergedTo
<1>3. CASE Has(u, <<s, key>>)
  <2>1. v = u
    BY <1>3 DEF MergeEntry
  <2>2. Has(t, <<s, key>>)
    BY <1>1, <1>2, <1>3
  <2> HIDE DEF v
  <2>3. MergedTo(t, u, s, es, i)
    BY <1>0, <1>1, <1>2, <2>2, <1>3 DEF MergedTo
  <2> QED
    BY <2>1, <2>3 DEF v
<1>4. CASE ~Has(u, <<s, key>>)
  <2> DEFINE value == es[i].value
  <2>1. v = Put(u, <<s, key>>, value)
    BY <1>4 DEF MergeEntry
  <2> HIDE DEF v, value, key
  <2>2. WithPut(u, s, key, value, v)
    BY <1>2, <2>1, PutIs
  <2>3. /\ IsTree(v)
        /\ \A r : r # s => Children(v, r) = Children(u, r)
        /\ Has(v, <<s, key>>) /\ Get(v, <<s, key>>) = value
        /\ \A l : l # key => Has(v, <<s, l>>) = Has(u, <<s, l>>)
        /\ \A l : l # key /\ Has(u, <<s, l>>) => Get(v, <<s, l>>) = Get(u, <<s, l>>)
    BY <2>2 DEF WithPut
  <2>4. ~Has(t, <<s, key>>)
    BY <1>2, <1>4
  <2>5. es[i].key = key /\ es[i].value = value /\ i \in 1 .. i
    BY <1>0 DEF key, value
  <2>6. \A r : r # s => Children(v, r) = Children(t, r)
    BY <1>2, <2>3
  <2>7. \A k : Has(t, <<s, k>>) => Has(v, <<s, k>>) /\ Get(v, <<s, k>>) = Get(t, <<s, k>>)
    BY <1>2, <2>3, <2>4
  <2>8. \A k : Has(v, <<s, k>>) => Has(t, <<s, k>>) \/ \E j \in 1 .. i : es[j].key = k
    BY <1>1, <1>2, <2>3, <2>5
  <2>9. \A j \in 1 .. i : Has(v, <<s, es[j].key>>)
    BY <1>0, <1>1, <1>2, <2>3, <2>5 DEF key
  <2>10. ASSUME NEW j \in 1 .. i, ~Has(t, <<s, es[j].key>>)
         PROVE  Get(v, <<s, es[j].key>>) = es[j].value
    <3>1. CASE j = i
      BY <3>1, <2>3, <2>5
    <3>2. CASE j \in 1 .. i - 1
      <4>1. Has(u, <<s, es[j].key>>) /\ Get(u, <<s, es[j].key>>) = es[j].value
        BY <1>2, <2>10, <3>2
      <4>2. es[j].key # key
        BY <1>1, <3>2 DEF key
      <4> QED
        BY <2>3, <4>1, <4>2
    <3> QED
      BY <1>0, <3>1, <3>2
  <2>11. ~(\A j \in 1 .. i : Has(t, <<s, es[j].key>>))
    BY <2>4, <2>5
  <2>12. MergedTo(t, v, s, es, i)
    BY <2>3, <2>6, <2>7, <2>8, <2>9, <2>10, <2>11 DEF MergedTo
  <2> QED
    BY <2>12 DEF v
<1> QED
  BY <1>3, <1>4

LEMMA MergingAdds ==
  ASSUME NEW tree, IsTree(tree), NEW section, IsList(section.children),
         Distinct(section.children), NEW r, MergesBy(r, tree, section)
  PROVE  MergedTo(tree, r[DOMAIN section.children], section.key, section.children,
                  Len(section.children))
<1> DEFINE es == section.children
           n == Len(es)
           s == section.key
<1>1. n \in Nat /\ DOMAIN es = 1 .. n
  BY ListIs
<1>2. MergesBy(r, tree, section)
  OBVIOUS
<1>4. \A j, l \in 1 .. n : es[j].key = es[l].key => j = l
  BY <1>1 DEF Distinct
<1>5. IsTree(tree)
  OBVIOUS
<1> HIDE DEF n, es, s
<1>6. r[1 .. 0] = tree
  <2>1. 1 .. 0 = {} /\ {} \in SUBSET (1 .. n)
    OBVIOUS
  <2> QED
    BY <1>1, <1>2, <2>1 DEF MergesBy, es
<1>7. ASSUME NEW i \in 1 .. n
      PROVE  r[1 .. i] = MergeEntry(r[1 .. (i - 1)], s, es[i])
  <2>1. i \in Nat /\ i # 0 /\ 1 .. i \in SUBSET (1 .. n) /\ 1 .. i # {}
    <3>1. i \in Nat /\ 1 <= i /\ i <= n
      BY <1>1
    <3>2. \A m \in 1 .. i : m \in 1 .. n
      BY <1>1, <3>1
    <3>3. 1 \in 1 .. i
      BY <3>1
    <3> QED
      BY <3>1, <3>2, <3>3
  <2>2. Max(1 .. i) = i /\ (1 .. i) \ {Max(1 .. i)} = 1 .. (i - 1)
    BY <2>1, LastOfSome
  <2>3. r[1 .. i] = MergeEntry(r[(1 .. i) \ {Max(1 .. i)}], s, es[Max(1 .. i)])
    BY <1>1, <1>2, <2>1 DEF MergesBy, es, s
  <2> QED
    BY <2>2, <2>3
<1> DEFINE good(i) == MergedTo(tree, r[1 .. i], s, es, i)
           C == {i \in 0 .. n : good(i)}
<1>8. good(0)
  <2>1. MergedTo(tree, tree, s, es, 0)
    BY <1>5 DEF MergedTo
  <2> QED
    BY <1>6, <2>1
<1>9. ASSUME NEW i \in 1 .. n, good(i - 1) PROVE good(i)
  <2> DEFINE u == r[1 .. (i - 1)]
  <2>1. MergedTo(tree, u, s, es, i - 1) /\ r[1 .. i] = MergeEntry(u, s, es[i])
    BY <1>7, <1>9
  <2> HIDE DEF u
  <2>2. MergedTo(tree, MergeEntry(u, s, es[i]), s, es, i)
    <3> HIDE DEF good
    <3> QED
      BY <1>1, <1>4, <2>1, MergedNext
  <2> QED
    BY <2>1, <2>2
<1> HIDE DEF good
<1>10. C = 0 .. n
  <2>1. 0 \in C
    BY <1>1, <1>8
  <2>2. ASSUME NEW i \in 0 .. n, i # 0, i - 1 \in C PROVE i \in C
    <3>1. i \in 1 .. n /\ good(i - 1)
      BY <1>1, <2>2
    <3> QED
      BY <1>9, <3>1
  <2>3. C \in SUBSET (0 .. n)
    OBVIOUS
  <2> HIDE DEF C
  <2> QED
    BY <1>1, <2>1, <2>2, <2>3, UpTo
<1>11. n \in 0 .. n
  BY <1>1
<1>12. good(n)
  BY <1>10, <1>11
<1> QED
  BY <1>1, <1>12 DEF good, es, n, s

(* merge, of one section: what the tree has of it stays, the rest is put.   *)
LEMMA MergeSectionAdds ==
  ASSUME NEW K, NEW V, Word("") \in V, NEW tree \in TreesOf(K, V),
         NEW section, section.key \in K, section.children \in Seq(LeavesOf(K, V)),
         Distinct(section.children)
  PROVE  MergedTo(tree, MergeSection(tree, section), section.key, section.children,
                  Len(section.children))
<1> DEFINE r == CHOOSE f : MergesBy(f, tree, section)
<1>1. MergesBy(r, tree, section)
  BY Zenon, MergingExists
<1>2. MergeSection(tree, section) = r[DOMAIN section.children]
  BY Zenon, MergeSectionIs
<1> HIDE DEF r
<1>3. IsTree(tree) /\ IsList(section.children)
  BY Zenon, TreeOf, ListOf
<1>4. MergedTo(tree, r[DOMAIN section.children], section.key, section.children,
               Len(section.children))
  BY Zenon, <1>1, <1>3, MergingAdds
<1> QED
  BY Zenon, <1>2, <1>4

LEMMA MergeOne ==
  ASSUME NEW a, NEW section
  PROVE  Merge(a, <<section>>) = MergeSection(a, section)
<1> DEFINE b == <<section>>
           m == MergeSection(a, section)
           f == [s \in SUBSET {1} |-> IF s = {} THEN a ELSE m]
           r == CHOOSE h : SectionsBy(h, a, b)
<1>1. DOMAIN b = {1} /\ b[1] = section
  OBVIOUS
<1>2. Max({1}) = 1
  BY DEF Max
<1>3. \A s \in SUBSET {1} : s = {} \/ s = {1}
  OBVIOUS
<1>4. {1} \ {Max({1})} = {} /\ {} \in SUBSET {1} /\ {1} \in SUBSET {1} /\ {1} # {}
  BY <1>2
<1> HIDE DEF b, m
<1>5. Merge(a, b) = r[{1}]
  BY <1>1, MergeIs
<1>6. SectionsBy(f, a, b)
  <2>1. f[{}] = a /\ f[{1}] = m
    BY <1>4
  <2> DEFINE h == [s \in SUBSET {1} |->
                     IF s = {} THEN a ELSE MergeSection(f[s \ {Max(s)}], b[Max(s)])]
  <2>2. \A s \in SUBSET {1} : f[s] = h[s]
    <3>1. f[{}] = h[{}]
      BY <1>4, <2>1
    <3>2. f[{1}] = h[{1}]
      BY <1>1, <1>2, <1>4, <2>1 DEF m
    <3> QED
      BY <1>3, <3>1, <3>2
  <2>3. f = [s \in SUBSET {1} |-> f[s]] /\ h = [s \in SUBSET {1} |-> h[s]]
    OBVIOUS
  <2> HIDE DEF h, f
  <2>4. f = h
    BY <2>2, <2>3
  <2> QED
    BY <1>1, <2>4 DEF SectionsBy, h
<1> HIDE DEF f
<1>7. SectionsBy(r, a, b)
  BY <1>6
<1> HIDE DEF r
<1>8. r[{}] = a /\ r[{1}] = MergeSection(r[{1} \ {Max({1})}], b[Max({1})])
  BY <1>1, <1>4, <1>7 DEF SectionsBy
<1>9. r[{1}] = MergeSection(a, section)
  BY <1>1, <1>2, <1>4, <1>8
<1> QED
  BY <1>5, <1>9 DEF b

(* What the header says, as the entries of a section.                       *)
AlwaysSaid(tree, header) ==
  <<<<"DataType", Word(header.type)>>,
    <<"Dimensions", Numbers(<<header.dims[3], header.dims[2]>>)>>,
    <<"NumberOfProjections", Numbers(<<header.dims[1]>>)>>,
    <<"PixelSize", Numbers(PixelSize(tree, header))>>>>

CentreOf(tree, header) ==
  Numbers(<<-((2 * header.origin[3]) \div PixelSize(tree, header)[1])>>)

OffsetOf(header) == Numbers(<<header.origin[2]>>)

Said(tree, header) ==
  AlwaysSaid(tree, header)
    \o (IF header.origin = Absent THEN <<>>
        ELSE <<<<"CenterPixelU", CentreOf(tree, header)>>,
               <<"OffsetV", OffsetOf(header)>>>>)

SaidEntries(tree, header) ==
  LET found == Said(tree, header)
  IN  [i \in DOMAIN found |-> [key |-> found[i][1], value |-> found[i][2]]]

SaidSection(tree, header) ==
  [key |-> "Projections", value |-> Word(""), children |-> SaidEntries(tree, header)]

AlwaysKeys == {"DataType", "Dimensions", "NumberOfProjections", "PixelSize"}
PlaceKeys == {"CenterPixelU", "OffsetV"}

LEMMA SaidPairs ==
  ASSUME NEW tree, NEW header
  PROVE  LET found == Said(tree, header)
             n == IF header.origin = Absent THEN 4 ELSE 6
         IN  /\ DOMAIN found = 1 .. n /\ Len(found) = n
             /\ found[1][1] = "DataType" /\ found[2][1] = "Dimensions"
             /\ found[3][1] = "NumberOfProjections" /\ found[4][1] = "PixelSize"
             /\ found[4][2] = Numbers(PixelSize(tree, header))
             /\ header.origin # Absent =>
                  /\ found[5][1] = "CenterPixelU" /\ found[5][2] = CentreOf(tree, header)
                  /\ found[6][1] = "OffsetV" /\ found[6][2] = OffsetOf(header)
<1> DEFINE a == AlwaysSaid(tree, header)
           b == <<<<"CenterPixelU", CentreOf(tree, header)>>,
                  <<"OffsetV", OffsetOf(header)>>>>
           size == Numbers(PixelSize(tree, header))
           found == Said(tree, header)
<1>1. /\ a[1][1] = "DataType" /\ a[2][1] = "Dimensions"
      /\ a[3][1] = "NumberOfProjections" /\ a[4][1] = "PixelSize"
      /\ a[4][2] = size
  BY DEF AlwaysSaid
<1>2. /\ b[1][1] = "CenterPixelU" /\ b[1][2] = CentreOf(tree, header)
      /\ b[2][1] = "OffsetV" /\ b[2][2] = OffsetOf(header)
  OBVIOUS
<1>3. Len(a) = 4 /\ Len(b) = 2
  BY DEF AlwaysSaid
<1> DEFINE S == {a[i] : i \in 1 .. 4} \cup {b[i] : i \in 1 .. 2}
<1>4. a \in Seq(S) /\ b \in Seq(S)
  <2>1. a = <<a[1], a[2], a[3], a[4]>> /\ b = <<b[1], b[2]>>
    BY DEF AlwaysSaid
  <2>2. a[1] \in S /\ a[2] \in S /\ a[3] \in S /\ a[4] \in S /\ b[1] \in S /\ b[2] \in S
    OBVIOUS
  <2> HIDE DEF a, b, S
  <2>3. <<a[1], a[2], a[3], a[4]>> \in Seq(S)
    BY <2>2, ListOfFour
  <2>4. <<b[1], b[2]>> \in Seq(S)
    BY <2>2
  <2> QED
    BY <2>1, <2>3, <2>4
<1>5. found = IF header.origin = Absent THEN a \o <<>> ELSE a \o b
  BY Zenon DEF Said
<1> HIDE DEF a, b, S, found, size
<1>6. CASE header.origin = Absent
  <2>1. found = a
    BY <1>4, <1>5, <1>6, ConcatEmptySeq
  <2>2. DOMAIN a = 1 .. 4
    BY <1>3, <1>4, LenProperties
  <2> QED
    BY <1>1, <1>3, <1>6, <2>1, <2>2 DEF found, size
<1>7. CASE header.origin # Absent
  <2>1. found = a \o b
    BY <1>5, <1>7
  <2>2. /\ found \in Seq(S) /\ Len(found) = 6
        /\ \A i \in 1 .. 6 : found[i] = IF i <= 4 THEN a[i] ELSE b[i - 4]
    <3> DEFINE c == a \o b
    <3>1. /\ c \in Seq(S) /\ Len(c) = Len(a) + Len(b)
          /\ \A i \in 1 .. Len(a) + Len(b) : c[i] = IF i <= Len(a) THEN a[i] ELSE b[i - Len(a)]
      BY <1>4, ConcatProperties
    <3>2. Len(a) + Len(b) = 6 /\ Len(a) = 4
      BY <1>3
    <3> HIDE DEF c
    <3> QED
      BY <2>1, <3>1, <3>2 DEF c
  <2>3. DOMAIN found = 1 .. 6
    BY <2>2, LenProperties
  <2>4. /\ found[1] = a[1] /\ found[2] = a[2] /\ found[3] = a[3] /\ found[4] = a[4]
        /\ found[5] = b[1] /\ found[6] = b[2]
    BY <2>2
  <2> QED
    BY <1>1, <1>2, <1>7, <2>2, <2>3, <2>4 DEF found, size
<1> QED
  BY <1>6, <1>7

(* es are n entries of a header.                                            *)
AreSaid(tree, header, es, n) ==
  /\ IsList(es) /\ Len(es) = n /\ Distinct(es)
  /\ n = IF header.origin = Absent THEN 4 ELSE 6
  /\ {es[i].key : i \in 1 .. n}
       = AlwaysKeys \cup (IF header.origin = Absent THEN {} ELSE PlaceKeys)
  /\ es[4].key = "PixelSize" /\ es[4].value = Numbers(PixelSize(tree, header))
  /\ header.origin # Absent =>
       /\ es[5].key = "CenterPixelU" /\ es[5].value = CentreOf(tree, header)
       /\ es[6].key = "OffsetV" /\ es[6].value = OffsetOf(header)

LEMMA SaidEntriesAre ==
  ASSUME NEW tree, NEW header
  PROVE  AreSaid(tree, header, SaidEntries(tree, header), Len(SaidEntries(tree, header)))
<1> DEFINE found == Said(tree, header)
           es == SaidEntries(tree, header)
           n == IF header.origin = Absent THEN 4 ELSE 6
           size == Numbers(PixelSize(tree, header))
           centre == CentreOf(tree, header)
           offset == OffsetOf(header)
           here == header.origin # Absent
<1>1. /\ DOMAIN found = 1 .. n
      /\ found[1][1] = "DataType" /\ found[2][1] = "Dimensions"
      /\ found[3][1] = "NumberOfProjections" /\ found[4][1] = "PixelSize"
      /\ found[4][2] = size
      /\ here => /\ found[5][1] = "CenterPixelU" /\ found[5][2] = centre
                 /\ found[6][1] = "OffsetV" /\ found[6][2] = offset
  BY Zenon, SaidPairs
<1>2. es = [i \in DOMAIN found |-> [key |-> found[i][1], value |-> found[i][2]]]
  BY Zenon DEF SaidEntries
<1>3. n = IF here THEN 6 ELSE 4
  OBVIOUS
<1>4. DOMAIN es = 1 .. n /\ \A i \in 1 .. n : es[i].key = found[i][1] /\ es[i].value = found[i][2]
  BY <1>1, <1>2
<1> DEFINE S == {es[i] : i \in 1 .. n}
<1>5. es \in [1 .. n -> S]
  <2> HIDE DEF n, found
  <2>1. es = [i \in 1 .. n |-> es[i]]
    BY <1>1, <1>2
  <2> QED
    BY <2>1
<1> HIDE DEF es, found, n, size, centre, offset, here
<1>6. n \in Nat
  BY <1>3
<1>7. es \in Seq(S)
  BY <1>5, <1>6, SeqDef
<1>8. IsList(es) /\ Len(es) = n
  <2>1. IsList(es) /\ DOMAIN es = 1 .. Len(es) /\ Len(es) \in Nat
    BY <1>7, ListOf, LenProperties
  <2> QED
    BY <1>4, <1>6, <2>1
<1>9. /\ es[1].key = "DataType" /\ es[2].key = "Dimensions"
      /\ es[3].key = "NumberOfProjections" /\ es[4].key = "PixelSize"
      /\ es[4].value = size
      /\ here => /\ es[5].key = "CenterPixelU" /\ es[5].value = centre
                 /\ es[6].key = "OffsetV" /\ es[6].value = offset
  BY <1>1, <1>3, <1>4
<1>12. n = (IF header.origin = Absent THEN 4 ELSE 6) /\ here = (header.origin # Absent)
  BY DEF n, here
<1>10. CASE here
  <2>1. n = 6 /\ DOMAIN es = 1 .. 6
    BY <1>3, <1>4, <1>10
  <2>2. \A i \in 1 .. 6 : i = 1 \/ i = 2 \/ i = 3 \/ i = 4 \/ i = 5 \/ i = 6
    OBVIOUS
  <2>3. Distinct(es)
    BY <1>9, <1>10, <2>1, <2>2 DEF Distinct
  <2>4. {es[i].key : i \in 1 .. n} = AlwaysKeys \cup PlaceKeys
    BY <1>9, <1>10, <2>1, <2>2 DEF AlwaysKeys, PlaceKeys
  <2> QED
    <3>1. AreSaid(tree, header, es, n)
      BY <1>8, <1>9, <1>10, <1>12, <2>3, <2>4 DEF AreSaid, size, centre, offset
    <3> QED
      BY <1>8, <3>1 DEF es
<1>11. CASE ~here
  <2>1. n = 4 /\ DOMAIN es = 1 .. 4
    BY <1>3, <1>4, <1>11
  <2>2. \A i \in 1 .. 4 : i = 1 \/ i = 2 \/ i = 3 \/ i = 4
    OBVIOUS
  <2>3. Distinct(es)
    BY <1>9, <2>1, <2>2 DEF Distinct
  <2>4. {es[i].key : i \in 1 .. n} = AlwaysKeys
    BY <1>9, <2>1, <2>2 DEF AlwaysKeys
  <2> QED
    <3>1. AreSaid(tree, header, es, n)
      BY <1>8, <1>9, <1>11, <1>12, <2>3, <2>4 DEF AreSaid, size, centre, offset
    <3> QED
      BY <1>8, <3>1 DEF es
<1> QED
  BY <1>10, <1>11

(* From t to u the header has added what was not in the file.               *)
Added(t, u, header) ==
  LET P(k) == <<"Projections", k>>
      said == AlwaysKeys \cup (IF header.origin = Absent THEN {} ELSE PlaceKeys)
  IN  /\ IsTree(u)
      /\ \A r : r # "Projections" => Children(u, r) = Children(t, r)
      /\ \A k : Has(t, P(k)) => Has(u, P(k)) /\ Get(u, P(k)) = Get(t, P(k))
      /\ \A k \in said : Has(u, P(k))
      /\ (\A k \in said : Has(t, P(k))) => u = t
      /\ ~Has(t, P("PixelSize")) => Get(u, P("PixelSize")) = Numbers(PixelSize(t, header))
      /\ header.origin # Absent =>
           /\ ~Has(t, P("CenterPixelU")) => Get(u, P("CenterPixelU")) = CentreOf(t, header)
           /\ ~Has(t, P("OffsetV")) => Get(u, P("OffsetV")) = OffsetOf(header)

LEMMA MergedIsAdded ==
  ASSUME NEW t, NEW u, NEW header,
         MergedTo(t, u, "Projections", SaidEntries(t, header), Len(SaidEntries(t, header)))
  PROVE  Added(t, u, header)
<1> DEFINE es == SaidEntries(t, header)
           n == Len(es)
           said == AlwaysKeys \cup (IF header.origin = Absent THEN {} ELSE PlaceKeys)
           size == Numbers(PixelSize(t, header))
           centre == CentreOf(t, header)
           offset == OffsetOf(header)
           here == header.origin # Absent
<1>1. /\ n = IF here THEN 6 ELSE 4
      /\ {es[i].key : i \in 1 .. n} = said
      /\ es[4].key = "PixelSize" /\ es[4].value = size
      /\ here => /\ es[5].key = "CenterPixelU" /\ es[5].value = centre
                 /\ es[6].key = "OffsetV" /\ es[6].value = offset
  <2>1. AreSaid(t, header, es, n)
    BY SaidEntriesAre
  <2> HIDE DEF es, n
  <2> QED
    BY <2>1 DEF AreSaid
<1>2. n = IF here THEN 6 ELSE 4
  BY <1>1
<1>3. MergedTo(t, u, "Projections", es, n)
  OBVIOUS
<1> HIDE DEF es, n, said, size, centre, offset
<1>4. /\ IsTree(u)
      /\ \A r : r # "Projections" => Children(u, r) = Children(t, r)
      /\ \A k : Has(t, <<"Projections", k>>) =>
           Has(u, <<"Projections", k>>) /\ Get(u, <<"Projections", k>>) = Get(t, <<"Projections", k>>)
      /\ \A j \in 1 .. n : Has(u, <<"Projections", es[j].key>>)
      /\ \A j \in 1 .. n : ~Has(t, <<"Projections", es[j].key>>) =>
           Get(u, <<"Projections", es[j].key>>) = es[j].value
      /\ (\A j \in 1 .. n : Has(t, <<"Projections", es[j].key>>)) => u = t
  BY <1>3 DEF MergedTo
<1>5. \A k \in said : Has(u, <<"Projections", k>>)
  BY <1>1, <1>4
<1>6. (\A k \in said : Has(t, <<"Projections", k>>)) => u = t
  BY <1>1, <1>4
<1>7. 4 \in 1 .. n /\ (here => 5 \in 1 .. n /\ 6 \in 1 .. n)
  BY <1>2
<1>8. ~Has(t, <<"Projections", "PixelSize">>) => Get(u, <<"Projections", "PixelSize">>) = size
  BY <1>1, <1>4, <1>7
<1>9. here => /\ ~Has(t, <<"Projections", "CenterPixelU">>) =>
                   Get(u, <<"Projections", "CenterPixelU">>) = centre
              /\ ~Has(t, <<"Projections", "OffsetV">>) =>
                   Get(u, <<"Projections", "OffsetV">>) = offset
  BY <1>1, <1>4, <1>7
<1> QED
  BY Zenon, <1>4, <1>5, <1>6, <1>8, <1>9 DEF Added, said, size, centre, offset, here

LEMMA HeaderIsAdded ==
  ASSUME NEW c, c = [outcome |-> c.outcome, tree |-> c.tree], NEW header,
         NEW K, NEW V, c.tree \in TreesOf(K, V),
         ReadProjectionsInfo(c, header).outcome = "ok"
  PROVE  /\ c.outcome = "ok" /\ header.outcome = "ok" /\ Cardinality(Given(c.tree)) = 1
         /\ ReadProjectionsInfo(c, header)
              = [outcome |-> "ok", tree |-> ReadProjectionsInfo(c, header).tree]
         /\ Added(c.tree, ReadProjectionsInfo(c, header).tree, header)
<1> DEFINE t == c.tree
           section == SaidSection(t, header)
           es == SaidEntries(t, header)
           d == ReadProjectionsInfo(c, header)
           w == Word("")
           u == MergeSection(t, section)
           KK == K \cup {"Projections"} \cup {es[i].key : i \in DOMAIN es}
           VV == V \cup {w} \cup {es[i].value : i \in DOMAIN es}
<1>1. d = IF Cardinality(Given(t)) # 1 THEN Dies(c)
          ELSE IF header.outcome # "ok" THEN [c EXCEPT !.outcome = header.outcome]
          ELSE [c EXCEPT !.tree = Merge(t, <<section>>)]
  BY Zenon DEF ReadProjectionsInfo, SaidSection, SaidEntries, Said, AlwaysSaid, CentreOf, OffsetOf
<1>2. Merge(t, <<section>>) = u
  BY Zenon, MergeOne
<1>3. section = [key |-> "Projections", value |-> w, children |-> es]
  BY Zenon DEF SaidSection
<1>4. IsList(es) /\ Distinct(es)
  BY SaidEntriesAre DEF AreSaid
<1>5. \A i \in DOMAIN es : es[i] \in LeavesOf(KK, VV)
  <2>1. ASSUME NEW i \in DOMAIN es PROVE es[i] = [key |-> es[i].key, value |-> es[i].value]
    <3> DEFINE found == Said(t, header)
    <3>1. es = [j \in DOMAIN found |-> [key |-> found[j][1], value |-> found[j][2]]]
      BY Zenon DEF SaidEntries
    <3> HIDE DEF es, found
    <3>2. es[i] = [key |-> found[i][1], value |-> found[i][2]]
      BY <2>1, <3>1
    <3> QED
      BY <3>2
  <2>2. \A i \in DOMAIN es : es[i].key \in KK /\ es[i].value \in VV
    OBVIOUS
  <2> HIDE DEF es, KK, VV
  <2> QED
    BY <2>1, <2>2 DEF LeavesOf
<1>6. K \subseteq KK /\ V \subseteq VV /\ "Projections" \in KK /\ w \in VV
  OBVIOUS
<1> HIDE DEF section, es, d, u, KK, VV, t
<1>7. es \in Seq(LeavesOf(KK, VV))
  BY <1>4, <1>5, ListIs
<1>8. t \in TreesOf(KK, VV)
  BY <1>6, TreesOfMore DEF t
<1>9. section.key = "Projections" /\ section.children = es
  <2> HIDE DEF w
  <2> QED
    BY <1>3
<1>10. MergedTo(t, u, section.key, section.children, Len(section.children))
  <2>1. w \in VV /\ w = Word("")
    BY Zenon, <1>6
  <2>2. section.key \in KK /\ section.children \in Seq(LeavesOf(KK, VV)) /\ Distinct(section.children)
    BY Zenon, <1>4, <1>6, <1>7, <1>9
  <2> QED
    BY Zenon, <1>8, <2>1, <2>2, MergeSectionAdds DEF u
<1> HIDE DEF w
<1>11. Added(t, u, header)
  BY Zenon, <1>9, <1>10, MergedIsAdded DEF es
<1>12. /\ d.outcome = "ok" /\ c = [outcome |-> c.outcome, tree |-> t]
  BY DEF d, t
<1>13. Cardinality(Given(t)) = 1
  <2>1. Dies(c) = [outcome |-> "dies", tree |-> t]
    BY <1>12 DEF Dies
  <2> QED
    BY <1>1, <1>12, <2>1
<1>14. header.outcome = "ok"
  <2>1. [c EXCEPT !.outcome = header.outcome] = [outcome |-> header.outcome, tree |-> t]
    BY <1>12
  <2> QED
    BY <1>1, <1>12, <1>13, <2>1
<1>15. d = [outcome |-> c.outcome, tree |-> u]
  <2>1. d = [c EXCEPT !.tree = u]
    BY <1>1, <1>2, <1>13, <1>14
  <2> QED
    BY <1>12, <2>1
<1>16. c.outcome = "ok" /\ d.tree = u
  BY <1>12, <1>15
<1> QED
  BY <1>11, <1>13, <1>14, <1>15, <1>16 DEF d, t

-----------------------------------------------------------------------------
(* The verification keeps what is said of the projections                  *)

(* What was there is still there.                                           *)
Kept(t, u, s) ==
  \A k : Has(t, <<s, k>>) => Has(u, <<s, k>>) /\ Get(u, <<s, k>>) = Get(t, <<s, k>>)

LEMMA KeptThen ==
  ASSUME NEW c, NEW d, NEW s, NEW but, Did(c, d, s, but), d.outcome = "ok",
         NEW r, r # s \/ but = {}
  PROVE  c.outcome = "ok" /\ Kept(c.tree, d.tree, r)
<1>1. c.outcome = "ok" /\ Grows(c.tree, d.tree, s, but)
  BY DEF Did
<1>2. CASE r = s
  BY <1>1, <1>2 DEF Grows, Kept
<1>3. CASE r # s
  BY <1>1, <1>3, ElsewhereIs DEF Kept
<1> QED
  BY <1>1, <1>2, <1>3

LEMMA KeptOn ==
  ASSUME NEW t, NEW u, NEW v, NEW s, Kept(t, u, s), Kept(u, v, s)
  PROVE  Kept(t, v, s)
BY DEF Kept

LEMMA VerificationKeeps ==
  ASSUME NEW c, IsConf(c), NEW libraries,
         VerifyConfiguration(c, libraries).outcome = "ok"
  PROVE  /\ c.outcome = "ok"
         /\ Kept(c.tree, VerifyConfiguration(c, libraries).tree, "Projections")
<1> DEFINE inputs == Cardinality(Given(c.tree)) # 1
           c1 == Refuse(c, inputs)
           c2 == VerifyInput(c)
           clash == LET in(k)  == <<"Input", k \o "ProjectionsFile">>
                        out(k) == <<"Output", k \o "ProjectionsFile">>
                    IN  \/ HasBoth(c2, in("Attenuation"), out("Attenuation"))
                        \/ HasBoth(c2, in("Filtered"), out("Filtered"))
                        \/ HasBoth(c2, in("Filtered"), out("Attenuation"))
           c3 == Refuse(c2, clash)
           c4 == VerifyOutput(c2)
           c5 == VerifyProjections(c4)
           c6 == VerifyVolume(c5)
           c7 == VerifyReconstruction(c6)
           c8 == VerifySoftware(c7, libraries)
           strange == ~(Keys(c8.tree) \subseteq DOMAIN ValidKeys)
           d  == Refuse(c8, strange)
<1>1. VerifyConfiguration(c, libraries) = d
  BY Zenon DEF VerifyConfiguration, KnownSections
<1>2. c2 = KnownKeys(c1, "Input") /\ c4 = KnownKeys(c3, "Output")
  BY Zenon DEF VerifyInput, VerifyOutput
<1>3. inputs \in BOOLEAN /\ clash \in BOOLEAN
  BY Zenon
<1>4. strange \in BOOLEAN
  BY Zenon
<1> HIDE DEF inputs, clash, strange
<1>5. Did(c, c1, "Input", {})
  BY <1>3, RefuseIs
<1> HIDE DEF c1
<1>6. Did(c1, c2, "Input", {})
  BY <1>2, <1>5, KnownKeysIs DEF Did
<1> HIDE DEF c2
<1>7. Did(c2, c3, "Output", {})
  BY <1>3, <1>6, RefuseIs DEF Did
<1> HIDE DEF c3
<1>8. Did(c3, c4, "Output", {})
  BY <1>2, <1>7, KnownKeysIs DEF Did
<1> HIDE DEF c4
<1>9. Did(c4, c5, "Projections", {})
  BY <1>8, VerifyProjectionsIs DEF Did
<1> HIDE DEF c5
<1>10. Did(c5, c6, "Volume", {}) /\ (c6.outcome = "ok" => VolumeFound(c6.tree))
  BY <1>9, VerifyVolumeIs DEF Did
<1> HIDE DEF c6
<1>11. /\ Did(c6, c7, "Reconstruction", {"BeamPowerCorrection"})
       /\ c7.outcome = "ok" => ReconstructionFound(c7.tree)
  BY <1>10, VerifyReconstructionIs DEF Did
<1> HIDE DEF c7
<1>12. Did(c7, c8, "Software", {}) /\ (c8.outcome = "ok" => SoftwareFound(c8.tree, libraries))
  BY <1>11, VerifySoftwareIs DEF Did
<1> HIDE DEF c8
<1>13. Did(c8, d, "Software", {}) /\ Refused(c8, d, strange)
  BY <1>4, <1>12, RefuseIs DEF Did
<1> HIDE DEF d
<1>14. d.outcome = "ok"
  BY <1>1
<1> DEFINE P == "Projections"
<1>15. /\ c8.outcome = "ok" /\ c7.outcome = "ok" /\ c6.outcome = "ok"
       /\ c5.outcome = "ok" /\ c4.outcome = "ok" /\ c3.outcome = "ok"
       /\ c2.outcome = "ok" /\ c1.outcome = "ok" /\ c.outcome = "ok"
  BY <1>5, <1>6, <1>7, <1>8, <1>9, <1>10, <1>11, <1>12, <1>13, <1>14 DEF Did
<1>16. Kept(c.tree, c1.tree, P) /\ Kept(c1.tree, c2.tree, P) /\ Kept(c2.tree, c3.tree, P)
  BY <1>5, <1>6, <1>7, <1>15, KeptThen
<1>17. Kept(c3.tree, c4.tree, P) /\ Kept(c4.tree, c5.tree, P) /\ Kept(c5.tree, c6.tree, P)
  BY <1>8, <1>9, <1>10, <1>15, KeptThen
<1>18. Kept(c6.tree, c7.tree, P) /\ Kept(c7.tree, c8.tree, P) /\ Kept(c8.tree, d.tree, P)
  BY <1>11, <1>12, <1>13, <1>14, <1>15, KeptThen
<1>19. Kept(c.tree, c3.tree, P) /\ Kept(c3.tree, c6.tree, P) /\ Kept(c6.tree, d.tree, P)
  BY <1>16, <1>17, <1>18, KeptOn
<1>20. Kept(c.tree, d.tree, P)
  BY <1>19, KeptOn
<1> QED
  BY <1>1, <1>15, <1>20

-----------------------------------------------------------------------------
(* The geometry                                                            *)

(* The settings name every key of the file.                                 *)
Names(settings, lines) ==
  \A i \in DOMAIN lines : lines[i].kind = "key" => \E s \in settings : s.line = lines[i]

(* A header whose projections are as wide as whole pixels, and begin at a   *)
(* half or whole pixel from the axis: the numbers of this model. (The code's*)
(* are real, and it rounds them.)                                           *)
Placed(tree, header) ==
  header.outcome = "ok" /\ header.origin # Absent =>
    LET size == PixelSize(tree, header)[1]
    IN  /\ size \in Nat \ {0} /\ header.origin[3] \in Int
        /\ (2 * header.origin[3]) % size = 0

LEMMA ThereAndBack ==
  ASSUME NEW size \in Nat \ {0}, NEW o \in Int, (2 * o) % size = 0
  PROVE  -((size * (-((2 * o) \div size))) \div 2) = o
<1> DEFINE q == (2 * o) \div size
<1>1. 2 * o \in Int /\ size \in Nat /\ size > 0
  OBVIOUS
<1>2. 2 * o = size * q + ((2 * o) % size) /\ q \in Int
  BY <1>1
<1> HIDE DEF q
<1>3. size * q = 2 * o
  BY <1>2
<1>4. size * (-q) = -(size * q)
  BY <1>2
<1>5. size * (-q) = -(2 * o)
  BY <1>3, <1>4
<1>6. (-(2 * o)) \div 2 = -o
  OBVIOUS
<1> QED
  BY <1>5, <1>6 DEF q

LEMMA OneNumberIs ==
  ASSUME NEW x
  PROVE  Numbers(<<x>>).numbers[1] = x
BY DEF Numbers

LEMMA NumbersAre ==
  ASSUME NEW t
  PROVE  Numbers(t).numbers = t
BY DEF Numbers

LEMMA GeometryIs ==
  ASSUME NEW lines, AreLines(lines), NEW header, NEW libraries,
         Configure(lines, header, libraries).outcome = "ok",
         Placed(ReadConf(lines).tree, header), header.origin # Absent,
         NeverGiven(lines, "CenterPixelU"), NeverGiven(lines, "OffsetV")
  PROVE  ProjectionOrigin(Configure(lines, header, libraries).tree)
           = <<header.origin[2], header.origin[3]>>
<1> DEFINE read == ReadConf(lines)
           c == ReadProjectionsInfo(read, header)
           d == VerifyConfiguration(c, libraries)
           throws == [outcome |-> "throws", tree |-> <<>>]
           pixel == <<"Projections", "PixelSize">>
           centre == <<"Projections", "CenterPixelU">>
           offset == <<"Projections", "OffsetV">>
           size == PixelSize(read.tree, header)
           o == header.origin
           q == -((2 * o[3]) \div size[1])
<1>1. Configure(lines, header, libraries)
        = IF read.outcome # "ok" THEN throws ELSE d
  BY Zenon DEF Configure
<1>2. throws.outcome # "ok"
  OBVIOUS
<1>3. read = [outcome |-> read.outcome, tree |-> read.tree]
      /\ read.tree \in TreesOf(KeysIn(lines), ValuesIn(lines))
  BY ReadConfIsTree
<1>4. read.outcome = "ok" /\ d.outcome = "ok" /\ Configure(lines, header, libraries) = d
  <2> HIDE DEF read, d, throws
  <2> QED
    BY <1>1, <1>2
<1>5. ~Has(read.tree, centre) /\ ~Has(read.tree, offset)
  <2>1. \A s : ~Has(read.tree, <<s, "CenterPixelU">>)
    BY <1>4, ConfHasNot
  <2>2. \A s : ~Has(read.tree, <<s, "OffsetV">>)
    BY <1>4, ConfHasNot
  <2> QED
    BY <2>1, <2>2
<1>6. AllFound(d.tree, libraries)
  BY <1>4, ConfigureIs
<1> HIDE DEF read
<1>7. IsConf(c)
  BY <1>3, ReadProjectionsInfoIs
<1> HIDE DEF c
<1>8. c.outcome = "ok" /\ Kept(c.tree, d.tree, "Projections")
  BY <1>4, <1>7, VerificationKeeps
<1>9. Added(read.tree, c.tree, header) /\ header.outcome = "ok"
  BY <1>3, <1>8, HeaderIsAdded DEF c
<1>10. /\ size[1] \in Nat \ {0} /\ o[3] \in Int /\ (2 * o[3]) % size[1] = 0
       /\ header.origin # Absent
  <2>1. header.outcome = "ok"
    BY <1>9
  <2> USE DEF read
  <2>2. Placed(read.tree, header)
    OBVIOUS
  <2> HIDE DEF read
  <2> QED
    BY Zenon, <2>1, <2>2 DEF Placed
<1> HIDE DEF d, throws
<1>11. /\ Has(c.tree, pixel) /\ Has(c.tree, centre) /\ Has(c.tree, offset)
       /\ Get(c.tree, centre) = CentreOf(read.tree, header)
       /\ Get(c.tree, offset) = OffsetOf(header)
  <2>1. {"PixelSize", "CenterPixelU", "OffsetV"} \subseteq AlwaysKeys \cup PlaceKeys
    BY DEF AlwaysKeys, PlaceKeys
  <2> QED
    BY <1>5, <1>10, <1>9, <2>1 DEF Added
<1>12. /\ Get(d.tree, centre) = CentreOf(read.tree, header)
       /\ Get(d.tree, offset) = OffsetOf(header)
       /\ Has(d.tree, pixel) /\ Get(d.tree, pixel) = Get(c.tree, pixel)
  BY <1>8, <1>11 DEF Kept
<1>13. Get(d.tree, pixel).numbers = size
  <2>1. CASE Has(read.tree, pixel)
    <3>1. Get(d.tree, pixel) = Get(read.tree, pixel)
      BY <1>9, <1>12, <2>1 DEF Added
    <3>2. ReadsAs(Get(d.tree, pixel), 2)
      BY <1>6 DEF AllFound, ProjectionsFound, Found
    <3>3. size = Get(read.tree, pixel).numbers
      BY <2>1, <3>1, <3>2 DEF PixelSize
    <3> QED
      BY <3>1, <3>3
  <2>2. CASE ~Has(read.tree, pixel)
    <3>1. Get(c.tree, pixel) = Numbers(size)
      BY <1>9, <2>2 DEF Added
    <3> QED
      BY <1>12, <3>1, NumbersAre
  <2> QED
    BY <2>1, <2>2
<1>14. Get(d.tree, centre).numbers[1] = q
  BY <1>12, OneNumberIs DEF CentreOf
<1>15. Get(d.tree, offset).numbers[1] = o[2]
  BY <1>12, OneNumberIs DEF OffsetOf
<1>16. -((size[1] * q) \div 2) = o[3]
  <2> HIDE DEF size, o
  <2> QED
    BY <1>10, ThereAndBack
<1>17. ProjectionOrigin(d.tree)
         = <<Get(d.tree, offset).numbers[1],
             -((Get(d.tree, pixel).numbers[1] * Get(d.tree, centre).numbers[1]) \div 2)>>
  BY Zenon DEF ProjectionOrigin
<1> HIDE DEF q, size, o, pixel, centre, offset
<1>18. ProjectionOrigin(d.tree) = <<o[2], o[3]>>
  BY <1>13, <1>14, <1>15, <1>16, <1>17
<1> QED
  BY <1>4, <1>18 DEF o

(* The program with any configuration file, whose keys the settings name,   *)
(* any libraries, and any header whose place can be told in pixels.         *)
PlacesAny ==
  \E options, settings, lines, header, libraries :
    /\ AreLines(lines) /\ libraries \in SUBSET {"vDSP", "FFTW"}
    /\ Names(settings, lines) /\ Placed(ReadConf(lines).tree, header)
    /\ \E verified \in {Configure(lines, header, libraries)} :
         Called([name |-> "program", options |-> options, settings |-> settings,
                 header |-> header, verified |-> verified],
                RunProgram(options, verified))

GeometriesSpec == CallsInit /\ [][PlacesAny]_<<call, result>>

(* ReadProjectionsInfo and VerifyConfiguration: whatever else the file says,*)
(* with whichever pixels, the projections are where the header says, unless *)
(* the file says where.                                                     *)
THEOREM AnyGeometryFollowsHeader == GeometriesSpec => []GeometryFollowsHeader
<1>1. CallsInit => GeometryFollowsHeader
  BY DEF CallsInit, NoCall, GeometryFollowsHeader
<1>2. ASSUME GeometryFollowsHeader, UNCHANGED <<call, result>>
      PROVE  GeometryFollowsHeader'
  BY <1>2 DEF GeometryFollowsHeader, Tree
<1>3. ASSUME PlacesAny
      PROVE  GeometryFollowsHeader'
  <2>1. PICK options, settings, lines, header, libraries :
          /\ AreLines(lines) /\ libraries \in SUBSET {"vDSP", "FFTW"}
          /\ Names(settings, lines) /\ Placed(ReadConf(lines).tree, header)
          /\ call' = [name |-> "program", options |-> options, settings |-> settings,
                      header |-> header,
                      verified |-> Configure(lines, header, libraries)]
    BY Zenon, <1>3 DEF PlacesAny, Called
  <2> DEFINE verified == Configure(lines, header, libraries)
  <2>2. call'.verified = verified /\ call'.header = header /\ call'.settings = settings
    <3> HIDE DEF verified
    <3>1. call' = [name |-> "program", options |-> options, settings |-> settings,
                      header |-> header, verified |-> verified]
      BY <2>1 DEF verified
    <3> QED
      BY <3>1
  <2>3. ASSUME verified.outcome = "ok", header.origin # Absent,
               \A s \in settings : s.line.key \notin {"CenterPixelU", "OffsetV"}
        PROVE  ProjectionOrigin(verified.tree) = <<header.origin[2], header.origin[3]>>
    <3>1. NeverGiven(lines, "CenterPixelU") /\ NeverGiven(lines, "OffsetV")
      BY <2>1, <2>3 DEF Names, NeverGiven
    <3> QED
      BY <2>1, <2>3, <3>1, GeometryIs
  <2> HIDE DEF verified
  <2>4. Tree' = verified.tree
    BY <2>2 DEF Tree
  <2> QED
    BY Zenon, <2>2, <2>3, <2>4 DEF GeometryFollowsHeader
<1> QED
  BY <1>1, <1>2, <1>3, PTL DEF GeometriesSpec

(* Every key of a file that is checked is of one of the settings.           *)
LEMMA LinesOfAreNamed ==
  ASSUME NEW settings, IsFiniteSet(settings)
  PROVE  Names(settings, LinesOf(settings))
<1> DEFINE of(section) == {t \in settings : t.section = section}
           set(section) == {s.line : s \in of(section)}
           lines(section) == SetToSeq(set(section))
           part(section)  == IF lines(section) = <<>> THEN <<>>
                             ELSE <<SectionLine(section)>> \o lines(section)
           names == {"Input", "Output", "Volume", "Projections", "Reconstruction",
                     "Software", "Magic"}
           X == {s.line : s \in settings} \cup {SectionLine(k) : k \in names}
           all == lines("") \o part("Input") \o part("Output") \o part("Volume")
                    \o part("Projections") \o part("Reconstruction") \o part("Software")
                    \o part("Magic")
<1>1. LinesOf(settings) = all
  BY Zenon DEF LinesOf
<1>2. ASSUME NEW k PROVE lines(k) \in Seq(X)
  <2> DEFINE line == [s \in of(k) |-> s.line]
  <2>1. IsFiniteSet(of(k))
    BY FS_Subset
  <2>2. line \in Surjection(of(k), set(k))
    BY DEF Surjection
  <2> HIDE DEF line
  <2>3. IsFiniteSet(set(k))
    BY <2>1, <2>2, FS_Surjection
  <2>4. set(k) \subseteq X
    OBVIOUS
  <2> HIDE DEF set, X
  <2>5. lines(k) \in Seq(set(k))
    BY <2>3, SetInOrder
  <2> QED
    BY <2>4, <2>5, SeqOfMore
<1>3. \A x \in X : x.kind = "key" => \E s \in settings : s.line = x
  <2>1. \A k : SectionLine(k).kind # "key"
    BY DEF SectionLine
  <2> QED
    BY <2>1
<1>4. \A k \in names : SectionLine(k) \in X
  OBVIOUS
<1> HIDE DEF X, lines
<1>5. ASSUME NEW k \in names PROVE part(k) \in Seq(X)
  <2>1. <<SectionLine(k)>> \in Seq(X)
    BY <1>4, ListOfOne
  <2>2. <<SectionLine(k)>> \o lines(k) \in Seq(X)
    BY <1>2, <2>1, ListsOn
  <2> QED
    BY <2>2, EmptySeq
<1> DEFINE l == lines("")
<1>6. /\ l \in Seq(X) /\ part("Input") \in Seq(X) /\ part("Output") \in Seq(X)
      /\ part("Volume") \in Seq(X) /\ part("Projections") \in Seq(X)
      /\ part("Reconstruction") \in Seq(X) /\ part("Software") \in Seq(X)
      /\ part("Magic") \in Seq(X)
  BY <1>2, <1>5
<1> HIDE DEF part, l
<1>7. all \in Seq(X)
  <2>1. l \o part("Input") \o part("Output") \o part("Volume") \in Seq(X)
    BY <1>6, ListsOn
  <2>2. l \o part("Input") \o part("Output") \o part("Volume")
          \o part("Projections") \o part("Reconstruction") \in Seq(X)
    BY <1>6, <2>1, ListsOn
  <2> QED
    BY <1>6, <2>2, ListsOn DEF l
<1> HIDE DEF all
<1>8. IsList(all) /\ \A i \in DOMAIN all : all[i] \in X
  <2>1. IsList(all) /\ DOMAIN all = 1 .. Len(all)
    BY <1>7, ListOf
  <2> QED
    BY <1>7, <2>1, ElementOfSeq
<1> QED
  BY <1>1, <1>3, <1>8 DEF Names


(* The runs that are checked are among them, where the place can be told in *)
(* pixels.                                                                  *)
LEMMA RunsArePlaced ==
  ASSUME NEW options, NEW settings, NEW header, IsFiniteSet(settings),
         \A s \in settings : s.line.kind \in LineKinds,
         Placed(ReadConf(LinesOf(settings)).tree, header),
         Runs(options, settings, header)
  PROVE  PlacesAny
<1> DEFINE lines == LinesOf(settings)
<1>1. AreLines(lines) /\ Names(settings, lines)
  BY LinesOfAreLines, LinesOfAreNamed
<1>2. Libraries \in SUBSET {"vDSP", "FFTW"}
  BY DEF Libraries
<1>3. \E verified \in {Configure(lines, header, Libraries)} :
         Called([name |-> "program", options |-> options, settings |-> settings,
                 header |-> header, verified |-> verified],
                RunProgram(options, verified))
  BY Zenon DEF Runs
<1>4. Placed(ReadConf(lines).tree, header)
  OBVIOUS
<1> HIDE DEF lines
<1> QED
  BY Zenon, <1>1, <1>2, <1>3, <1>4 DEF PlacesAny

-----------------------------------------------------------------------------
(* Tuples as text                                                          *)

(* Some steps, each from what the one before has led to.                    *)
Iterates(h, n, X, a, g) ==
  /\ h \in [0 .. n -> X] /\ h[0] = a
  /\ \A i \in 1 .. n : h[i] = g[<<h[i - 1], i>>]

LEMMA StepsExist ==
  ASSUME NEW n \in Nat, NEW X, NEW a \in X, NEW g \in [X \X (1 .. n) -> X]
  PROVE  \E h : Iterates(h, n, X, a, g)
<1>1. PICK f : FoldsBy(f, g, a, 1 .. n)
  BY FoldExists
<1>2. \A s \in SUBSET (1 .. n) : f[s] \in X
  BY <1>1, FoldInSet
<1> DEFINE h == [i \in 0 .. n |-> f[1 .. i]]
<1>3. \A i \in 0 .. n : 1 .. i \in SUBSET (1 .. n)
  <2>1. ASSUME NEW i \in 0 .. n PROVE \A j \in 1 .. i : j \in 1 .. n
    OBVIOUS
  <2> QED
    BY <2>1
<1>4. h \in [0 .. n -> X]
  BY <1>2, <1>3
<1>5. h[0] = a
  <2>1. 1 .. 0 = {} /\ {} \in SUBSET (1 .. n) /\ 0 \in 0 .. n
    OBVIOUS
  <2> QED
    BY <1>1, <2>1 DEF FoldsBy
<1>6. ASSUME NEW i \in 1 .. n PROVE h[i] = g[<<h[i - 1], i>>]
  <2>1. i \in 0 .. n /\ i - 1 \in 0 .. n /\ i \in Nat /\ i # 0 /\ i \in 1 .. i
    OBVIOUS
  <2>2. 1 .. i \in SUBSET (1 .. n) /\ 1 .. i # {}
    BY <1>3, <2>1
  <2>3. Max(1 .. i) = i /\ (1 .. i) \ {Max(1 .. i)} = 1 .. (i - 1)
    BY <2>1, LastOfSome
  <2>4. f[1 .. i] = g[<<f[(1 .. i) \ {Max(1 .. i)}], Max(1 .. i)>>]
    BY <1>1, <2>2 DEF FoldsBy
  <2>5. f[1 .. i] = g[<<f[1 .. (i - 1)], i>>]
    BY <2>3, <2>4
  <2> QED
    BY <2>1, <2>5
<1> HIDE DEF h
<1> QED
  BY <1>4, <1>5, <1>6 DEF Iterates

LEMMA LeastIs ==
  ASSUME NEW s \in SUBSET Nat, NEW x \in s, \A y \in s : x <= y
  PROVE  Min(s) = x
<1> DEFINE m == Min(s)
<1>1. m \in s /\ \A y \in s : m <= y
  BY Zenon DEF Min
<1> HIDE DEF m
<1>2. m \in Nat /\ x \in Nat /\ m <= x /\ x <= m
  BY <1>1
<1> QED
  BY <1>2 DEF m

LEMMA GreatestIs ==
  ASSUME NEW s \in SUBSET Nat, NEW x \in s, \A y \in s : y <= x
  PROVE  Max(s) = x
<1>1. \A y \in s : x >= y
  OBVIOUS
<1> DEFINE m == Max(s)
<1>2. m \in s /\ \A y \in s : m >= y
  BY Zenon, <1>1 DEF Max
<1> HIDE DEF m
<1>3. m \in Nat /\ x \in Nat /\ m <= x /\ x <= m
  BY <1>2
<1> QED
  BY <1>3 DEF m

Space == " "
Comma == ","

LEMMA SymbolsDiffer ==
  /\ Space # Comma /\ Space # "n" /\ Comma # "n"
  /\ \A c \in {"(", ")", "[", "]"} : c # Space /\ c # Comma /\ c # "n"
  /\ Symbols = {"n", Comma, Space, "(", ")", "[", "]"}
<1>1. \A c \in {"(", ")", "[", "]"} : c # Space /\ c # Comma
  BY Zenon DEF Space, Comma
<1>2. \A c \in {"(", ")", "[", "]"} : c # "n"
  OBVIOUS
<1>3. Space # Comma /\ Space # "n" /\ Comma # "n"
  BY Zenon DEF Space, Comma
<1>4. Symbols = {"n", Comma, Space, "(", ")", "[", "]"}
  BY Zenon DEF Symbols, Space, Comma
<1> QED
  BY Zenon, <1>1, <1>2, <1>3, <1>4

(* From i on there are blanks only, up to j.                                *)
Skips(text, i, j) ==
  /\ j \in i .. Len(text) + 1
  /\ \A k \in i .. j - 1 : text[k] = Space
  /\ j # Len(text) + 1 => text[j] # Space

LEMMA SkipIs ==
  ASSUME NEW text \in Seq(Symbols), NEW i \in 1 .. Len(text) + 1
  PROVE  Skips(text, i, SkipBlanks(text, i))
<1> DEFINE n == Len(text)
           s == {k \in i .. n : text[k] # Space} \cup {n + 1}
           j == SkipBlanks(text, i)
<1>1. n \in Nat
  BY LenProperties
<1>2. j = Min(s)
  BY Zenon DEF SkipBlanks, Space
<1>3. s \in SUBSET Nat /\ s # {} /\ \A x \in s : x \in i .. n + 1
  <2> HIDE DEF n, j
  <2>1. n + 1 \in s /\ i \in Nat /\ i <= n + 1
    BY <1>1 DEF n
  <2>2. \A x \in s : x \in i .. n + 1
    BY <1>1, <2>1
  <2> QED
    BY <1>1, <2>1, <2>2
<1> HIDE DEF n, s
<1>4. PICK x \in s : \A y \in s : x <= y
  BY <1>3, LeastNatural
<1>5. j = x
  BY <1>2, <1>3, <1>4, LeastIs
<1>6. ASSUME NEW k \in i .. x - 1 PROVE text[k] = Space
  <2>1. k \in i .. n /\ k < x
    BY <1>1, <1>3, <1>4
  <2> QED
    BY <1>4, <2>1 DEF s
<1>7. x # n + 1 => text[x] # Space
  BY <1>4 DEF s
<1> HIDE DEF j
<1> QED
  BY <1>3, <1>4, <1>5, <1>6, <1>7 DEF Skips, n, j

(* There is one place only to which the blanks go.                          *)
LEMMA SkipsTo ==
  ASSUME NEW text \in Seq(Symbols), NEW i \in 1 .. Len(text) + 1,
         NEW j, Skips(text, i, j)
  PROVE  SkipBlanks(text, i) = j
<1> DEFINE n == Len(text)
           x == SkipBlanks(text, i)
<1>1. n \in Nat
  BY LenProperties
<1>2. Skips(text, i, x)
  BY SkipIs
<1> HIDE DEF n, x
<1>3. j \in i .. n + 1 /\ x \in i .. n + 1
  BY <1>2 DEF Skips, n
<1>4. ~(j < x)
  <2>1. SUFFICES ASSUME j < x PROVE FALSE
    OBVIOUS
  <2>2. j \in i .. x - 1 /\ j # n + 1
    BY <1>1, <1>3, <2>1
  <2> QED
    BY <1>2, <2>2 DEF Skips, n
<1>5. ~(x < j)
  <2>1. SUFFICES ASSUME x < j PROVE FALSE
    OBVIOUS
  <2>2. x \in i .. j - 1 /\ x # n + 1
    BY <1>1, <1>3, <2>1
  <2> QED
    BY <1>2, <2>2 DEF Skips, n
<1> QED
  BY <1>1, <1>3, <1>4, <1>5 DEF x

(* operator>>, piece by piece: where the first thing is, if it is a bracket,*)
(* where the elements begin, and where the k-th ends if it begins at `at`.  *)
FirstMark(text) == SkipBlanks(text, 1)

Bracketed(text) ==
  FirstMark(text) < Len(text) + 1 /\ text[FirstMark(text)] \in {"(", "["}

ElementsBegin(text) ==
  IF Bracketed(text) THEN SkipBlanks(text, FirstMark(text) + 1) ELSE FirstMark(text)

Follows(text, size, k, at) ==
  IF at = 0 \/ ~(at < Len(text) + 1 /\ text[at] = "n") THEN 0
  ELSE IF at + 1 = Len(text) + 1
    THEN IF Bracketed(text) \/ k # size THEN 0 ELSE Len(text) + 1
  ELSE LET after == IF k < size THEN SkipComma(text, at + 1)
                    ELSE SkipBlanks(text, at + 1)
       IN  IF after = Len(text) + 1 THEN 0 ELSE after

FollowsBy(f, text, size) ==
  f = [k \in 0..size |-> IF k = 0 THEN ElementsBegin(text)
                         ELSE Follows(text, size, k, f[k-1])]

LastPlace(text, size) == (CHOOSE f : FollowsBy(f, text, size))[size]

LEMMA ReadTupleIs ==
  ASSUME NEW text, NEW size
  PROVE  ReadTuple(text, size) =
           LET last == LastPlace(text, size)
           IN  IF last = 0 THEN [state |-> "fail", at |-> Len(text) + 1]
               ELSE IF last = Len(text) + 1 THEN [state |-> "good", at |-> Len(text) + 1]
               ELSE IF ~Bracketed(text) THEN [state |-> "throws", at |-> last]
               ELSE IF text[last] = Closing(text[FirstMark(text)])
                 THEN [state |-> "good", at |-> last + 1]
               ELSE [state |-> "fail", at |-> Len(text) + 1]
BY Zenon DEF ReadTuple, LastPlace, FollowsBy, Follows, ElementsBegin, Bracketed, FirstMark

(* What is accepted, by the place where the last element ends.              *)
Taken(text, last) ==
  \/ last = Len(text) + 1
  \/ /\ last # 0 /\ Bracketed(text)
     /\ text[last] = Closing(text[FirstMark(text)])
     /\ SkipBlanks(text, last + 1) = Len(text) + 1

LEMMA AcceptsIs ==
  ASSUME NEW text \in Seq(Symbols), NEW size, NEW last, last = LastPlace(text, size),
         last \in 0 .. Len(text) + 1
  PROVE  Accepts(text, size) <=> Taken(text, last)
<1> DEFINE end == Len(text) + 1
           r == ReadTuple(text, size)
           fail == [state |-> "fail", at |-> end]
           good(i) == [state |-> "good", at |-> i]
           throws == [state |-> "throws", at |-> last]
<1>1. Len(text) \in Nat
  BY LenProperties
<1>2. SkipBlanks(text, end) = end
  <2>1. Skips(text, end, end)
    BY <1>1 DEF Skips
  <2> QED
    BY <1>1, <2>1, SkipsTo
<1>3. r = IF last = 0 THEN fail
          ELSE IF last = end THEN good(end)
          ELSE IF ~Bracketed(text) THEN throws
          ELSE IF text[last] = Closing(text[FirstMark(text)]) THEN good(last + 1)
          ELSE fail
  BY Zenon, ReadTupleIs
<1>4. Accepts(text, size) <=> r.state = "good" /\ SkipBlanks(text, r.at) = end
  BY Zenon DEF Accepts
<1>5. /\ fail.state # "good" /\ throws.state # "good"
      /\ \A i : good(i).state = "good" /\ good(i).at = i
  OBVIOUS
<1>6. Taken(text, last) <=>
        \/ last = end
        \/ /\ last # 0 /\ Bracketed(text)
           /\ text[last] = Closing(text[FirstMark(text)])
           /\ SkipBlanks(text, last + 1) = end
  BY Zenon DEF Taken
<1>7. end # 0
  BY <1>1
<1> HIDE DEF end, r, fail, good, throws
<1>8. CASE last = 0
  BY <1>3, <1>4, <1>5, <1>6, <1>7, <1>8
<1>9. CASE last = end
  BY <1>2, <1>3, <1>4, <1>5, <1>6, <1>7, <1>9
<1>10. CASE last # 0 /\ last # end
  BY <1>3, <1>4, <1>5, <1>6, <1>10
<1> QED
  BY <1>8, <1>9, <1>10

(* A number at a place, and where it has ended, the blanks and the comma    *)
(* after it too.                                                            *)
NumberAt(text, at, next) ==
  /\ at \in 1 .. Len(text) /\ text[at] = "n" /\ next \in at + 1 .. Len(text) + 1
  /\ \A i \in at + 1 .. next - 1 : text[i] \in {Space, Comma}
  /\ \A i, j \in at + 1 .. next - 1 : text[i] = Comma /\ text[j] = Comma => i = j
  /\ next # Len(text) + 1 => text[next] # Space

LEMMA SkipCommaIs ==
  ASSUME NEW text \in Seq(Symbols), NEW at \in 1 .. Len(text), text[at] = "n"
  PROVE  NumberAt(text, at, SkipComma(text, at + 1))
<1> DEFINE n == Len(text)
           j == SkipBlanks(text, at + 1)
           k == SkipBlanks(text, j + 1)
<1>1. n \in Nat /\ at + 1 \in 1 .. n + 1
  BY LenProperties
<1>2. SkipComma(text, at + 1) = IF j <= n /\ text[j] = Comma THEN k ELSE j
  BY Zenon DEF SkipComma, Comma
<1>3. Skips(text, at + 1, j)
  BY <1>1, SkipIs
<1> HIDE DEF j
<1>4. j \in at + 1 .. n + 1 /\ \A i \in at + 1 .. j - 1 : text[i] = Space
  BY <1>3 DEF Skips
<1>5. CASE j <= n /\ text[j] = Comma
  <2>1. j + 1 \in 1 .. n + 1
    BY <1>1, <1>4, <1>5
  <2>2. Skips(text, j + 1, k)
    BY <2>1, SkipIs
  <2> HIDE DEF k
  <2>3. k \in j + 1 .. n + 1 /\ \A i \in j + 1 .. k - 1 : text[i] = Space
    BY <2>2 DEF Skips
  <2>4. k \in at + 1 .. n + 1
    BY <1>1, <1>4, <2>3
  <2>5. ASSUME NEW i \in at + 1 .. k - 1 PROVE text[i] = Space \/ (i = j /\ text[i] = Comma)
    <3>1. i \in at + 1 .. j - 1 \/ i = j \/ i \in j + 1 .. k - 1
      BY <1>1, <1>4, <2>3
    <3> QED
      BY <1>4, <1>5, <2>3, <3>1
  <2>6. k # n + 1 => text[k] # Space
    BY <2>2 DEF Skips
  <2> HIDE DEF n
  <2> QED
    BY <1>2, <1>5, <2>4, <2>5, <2>6, SymbolsDiffer DEF NumberAt, n
<1>6. CASE ~(j <= n /\ text[j] = Comma)
  <2>1. j # n + 1 => text[j] # Space
    BY <1>3 DEF Skips
  <2> HIDE DEF n
  <2> QED
    BY <1>2, <1>4, <1>6, <2>1, SymbolsDiffer DEF NumberAt, n
<1> QED
  BY <1>5, <1>6

LEMMA FollowIs ==
  ASSUME NEW text \in Seq(Symbols), NEW size \in Nat, NEW k \in 1 .. size,
         NEW at \in 0 .. Len(text) + 1, Follows(text, size, k, at) # 0
  PROVE  LET next == Follows(text, size, k, at)
         IN  /\ NumberAt(text, at, next)
             /\ k = size => \A i \in at + 1 .. next - 1 : text[i] = Space
             /\ next = Len(text) + 1 => k = size /\ ~Bracketed(text) /\ at = Len(text)
<1> DEFINE n == Len(text)
           next == Follows(text, size, k, at)
           after == IF k < size THEN SkipComma(text, at + 1) ELSE SkipBlanks(text, at + 1)
<1>1. n \in Nat
  BY LenProperties
<1>2. next = IF at = 0 \/ ~(at < n + 1 /\ text[at] = "n") THEN 0
             ELSE IF at + 1 = n + 1 THEN IF Bracketed(text) \/ k # size THEN 0 ELSE n + 1
             ELSE IF after = n + 1 THEN 0 ELSE after
  BY Zenon DEF Follows
<1> HIDE DEF next, after
<1>3. next # 0
  BY DEF next
<1>4. at # 0 /\ at < n + 1 /\ text[at] = "n"
  BY <1>2, <1>3
<1>5. at \in 1 .. n
  BY <1>1, <1>4
<1>6. CASE at + 1 = n + 1
  <2>1. next = n + 1 /\ ~Bracketed(text) /\ k = size /\ at = n
    BY <1>1, <1>2, <1>3, <1>4, <1>6
  <2>2. NumberAt(text, at, next) /\ at + 1 .. next - 1 = {}
    BY <1>1, <1>4, <1>5, <2>1 DEF NumberAt
  <2> QED
    BY <2>1, <2>2 DEF next
<1>7. CASE at + 1 # n + 1
  <2>1. next = after /\ after # n + 1
    BY <1>2, <1>3, <1>4, <1>7
  <2>2. CASE k < size
    <3>1. NumberAt(text, at, after)
      BY <1>4, <1>5, <2>2, SkipCommaIs DEF after
    <3> QED
      BY <2>1, <2>2, <3>1 DEF next
  <2>3. CASE ~(k < size)
    <3>1. k = size /\ at + 1 \in 1 .. n + 1
      BY <1>1, <1>5, <2>3
    <3>2. Skips(text, at + 1, after)
      BY <2>3, <3>1, SkipIs DEF after
    <3>3. NumberAt(text, at, after) /\ \A i \in at + 1 .. after - 1 : text[i] = Space
      BY <1>1, <1>4, <1>5, <3>2, SymbolsDiffer DEF NumberAt, Skips
    <3> QED
      BY <2>1, <3>1, <3>3 DEF next
  <2> QED
    BY <2>2, <2>3
<1> QED
  BY <1>6, <1>7

(* The places where the elements end.                                       *)
ElementsEnd(h, text, size) ==
  /\ h \in [0 .. size -> 0 .. Len(text) + 1]
  /\ h[0] = ElementsBegin(text)
  /\ \A k \in 1 .. size : h[k] = Follows(text, size, k, h[k - 1])

LEMMA BeginIs ==
  ASSUME NEW text \in Seq(Symbols)
  PROVE  /\ Skips(text, 1, FirstMark(text))
         /\ Bracketed(text) => Skips(text, FirstMark(text) + 1, ElementsBegin(text))
         /\ ~Bracketed(text) => ElementsBegin(text) = FirstMark(text)
         /\ ElementsBegin(text) \in 1 .. Len(text) + 1
<1> DEFINE n == Len(text)
           f == FirstMark(text)
           b == ElementsBegin(text)
<1>1. n \in Nat /\ 1 \in 1 .. n + 1
  BY LenProperties
<1>2. Skips(text, 1, f)
  BY <1>1, SkipIs DEF FirstMark
<1>3. f \in 1 .. n + 1
  BY <1>2 DEF Skips
<1>4. Bracketed(text) => f < n + 1
  BY Zenon DEF Bracketed
<1>5. b = IF Bracketed(text) THEN SkipBlanks(text, f + 1) ELSE f
  BY Zenon DEF ElementsBegin
<1> HIDE DEF f, b
<1>6. CASE Bracketed(text)
  <2>1. f + 1 \in 1 .. n + 1
    BY <1>1, <1>3, <1>4, <1>6
  <2>2. Skips(text, f + 1, b)
    BY <1>5, <1>6, <2>1, SkipIs
  <2>3. b \in 1 .. n + 1
    BY <1>1, <2>1, <2>2 DEF Skips
  <2> QED
    BY <1>2, <1>6, <2>2, <2>3 DEF f, b
<1>7. CASE ~Bracketed(text)
  BY <1>2, <1>3, <1>5, <1>7 DEF f, b
<1> QED
  BY <1>6, <1>7

LEMMA PlacesExist ==
  ASSUME NEW text \in Seq(Symbols), NEW size \in Nat
  PROVE  \E h : ElementsEnd(h, text, size) /\ h[size] = LastPlace(text, size)
<1> DEFINE n == Len(text)
           X == 0 .. n + 1
           g == [p \in X \X (1 .. size) |-> Follows(text, size, p[2], p[1])]
           r == CHOOSE f : FollowsBy(f, text, size)
<1>1. n \in Nat
  BY LenProperties
<1>2. ElementsBegin(text) \in X
  BY <1>1, BeginIs
<1>3. ASSUME NEW at \in X, NEW k \in 1 .. size PROVE Follows(text, size, k, at) \in X
  <2> DEFINE next == Follows(text, size, k, at)
  <2>1. CASE next = 0
    BY <1>1, <2>1
  <2>2. CASE next # 0
    <3>1. NumberAt(text, at, next)
      BY <2>2, FollowIs
    <3> HIDE DEF next
    <3>2. next \in at + 1 .. n + 1 /\ at \in 1 .. n
      BY <3>1 DEF NumberAt
    <3>3. next \in X
      BY <1>1, <3>2
    <3> QED
      BY <3>3 DEF next
  <2> QED
    BY <2>1, <2>2
<1> HIDE DEF X
<1>4. g \in [X \X (1 .. size) -> X]
      /\ \A x \in X, k \in 1 .. size : g[<<x, k>>] = Follows(text, size, k, x)
  BY <1>3
<1> HIDE DEF g
<1>5. PICK h \in [0 .. size -> X] :
        h[0] = ElementsBegin(text) /\ \A k \in 1 .. size : h[k] = g[<<h[k - 1], k>>]
  <2> DEFINE a == ElementsBegin(text)
  <2> HIDE DEF r, a
  <2>1. a \in X /\ g \in [X \X (1 .. size) -> X]
    BY <1>2, <1>4 DEF a
  <2>2. \E h : Iterates(h, size, X, a, g)
    BY <2>1, StepsExist
  <2> QED
    BY <2>2 DEF Iterates, a
<1>6. ASSUME NEW k \in 1 .. size PROVE h[k] = Follows(text, size, k, h[k - 1])
  <2>1. k - 1 \in 0 .. size
    OBVIOUS
  <2> QED
    BY <1>4, <1>5, <2>1
<1>7. FollowsBy(h, text, size)
  <2> DEFINE v == [k \in 0..size |-> IF k = 0 THEN ElementsBegin(text)
                                     ELSE Follows(text, size, k, h[k-1])]
  <2>1. ASSUME NEW k \in 0 .. size PROVE h[k] = v[k]
    <3>1. k # 0 => k \in 1 .. size
      OBVIOUS
    <3> QED
      BY <1>5, <1>6, <3>1
  <2>2. h = [k \in 0 .. size |-> h[k]] /\ v = [k \in 0 .. size |-> v[k]]
    BY <1>5
  <2>3. h = v
    <3> HIDE DEF v
    <3> QED
      BY <2>1, <2>2
  <2> QED
    BY <2>3 DEF FollowsBy
<1>8. FollowsBy(r, text, size)
  BY <1>7
<1>9. r = h
  <2> HIDE DEF r
  <2> DEFINE C == {k \in 0 .. size : r[k] = h[k]}
  <2>1. r[0] = ElementsBegin(text)
        /\ \A k \in 1 .. size : r[k] = Follows(text, size, k, r[k - 1])
    <3>1. 0 \in 0 .. size /\ \A k \in 1 .. size : k \in 0 .. size /\ k # 0
      OBVIOUS
    <3> QED
      BY <1>8, <3>1 DEF FollowsBy
  <2>2. 0 \in C
    BY <1>5, <2>1
  <2>3. ASSUME NEW k \in 0 .. size, k # 0, k - 1 \in C PROVE k \in C
    <3>1. k \in 1 .. size /\ r[k - 1] = h[k - 1]
      BY <2>3
    <3> QED
      BY <1>6, <2>1, <3>1
  <2>4. C = 0 .. size
    <3>1. C \in SUBSET (0 .. size)
      OBVIOUS
    <3> HIDE DEF C
    <3> QED
      BY <2>2, <2>3, <3>1, UpTo
  <2>5. \A k \in 0 .. size : r[k] = h[k]
    BY <2>4
  <2>6. r = [k \in 0 .. size |-> r[k]] /\ h = [k \in 0 .. size |-> h[k]]
    BY <1>5, <1>8 DEF FollowsBy
  <2> QED
    BY <2>5, <2>6
<1> HIDE DEF r
<1> QED
  BY <1>5, <1>6, <1>9 DEF ElementsEnd, LastPlace, r, X

NumbersIn(text, b, at) == {i \in b .. at - 1 : text[i] = "n"}

LEMMA NumbersAreFinite ==
  ASSUME NEW text, NEW b \in Int, NEW at \in Int
  PROVE  IsFiniteSet(NumbersIn(text, b, at))
<1>1. NumbersIn(text, b, at) \subseteq b .. at - 1 /\ IsFiniteSet(b .. at - 1)
  BY FS_Interval DEF NumbersIn
<1> QED
  BY <1>1, FS_Subset

(* From b up to `at` there are k numbers, with no two commas in between.    *)
ReadsUpTo(text, b, at, k) ==
  /\ at \in b .. Len(text) + 1
  /\ Cardinality(NumbersIn(text, b, at)) = k
  /\ \A i \in b .. at - 1 : text[i] \in {"n", Comma, Space}
  /\ IF k = 0 THEN b = at ELSE b < at /\ text[b] = "n"
  /\ \A i, j \in b .. at - 1 : i < j /\ text[i] = Comma /\ text[j] = Comma =>
       \E m \in NumbersIn(text, b, at) : i < m /\ m < j

LEMMA ReadNone ==
  ASSUME NEW text \in Seq(Symbols), NEW b \in 1 .. Len(text) + 1
  PROVE  ReadsUpTo(text, b, b, 0)
<1>1. Len(text) \in Nat /\ b .. b - 1 = {}
  BY LenProperties
<1>2. NumbersIn(text, b, b) = {}
  BY <1>1 DEF NumbersIn
<1>3. Cardinality({}) = 0
  BY FS_EmptySet
<1> QED
  BY <1>1, <1>2, <1>3 DEF ReadsUpTo

LEMMA ReadOn ==
  ASSUME NEW text \in Seq(Symbols), NEW b \in 1 .. Len(text) + 1, NEW k \in Nat,
         NEW at, ReadsUpTo(text, b, at, k), NEW next, NumberAt(text, at, next)
  PROVE  ReadsUpTo(text, b, next, k + 1)
<1> DEFINE n == Len(text)
           N == NumbersIn(text, b, at)
           M == NumbersIn(text, b, next)
<1>1. n \in Nat /\ b \in 1 .. n + 1
  BY LenProperties
<1>2. /\ at \in 1 .. n /\ text[at] = "n" /\ next \in at + 1 .. n + 1
      /\ \A i \in at + 1 .. next - 1 : text[i] \in {Space, Comma}
      /\ \A i, j \in at + 1 .. next - 1 : text[i] = Comma /\ text[j] = Comma => i = j
  BY DEF NumberAt
<1>3. /\ at \in b .. n + 1 /\ Cardinality(N) = k
      /\ \A i \in b .. at - 1 : text[i] \in {"n", Comma, Space}
      /\ IF k = 0 THEN b = at ELSE b < at /\ text[b] = "n"
      /\ \A i, j \in b .. at - 1 : i < j /\ text[i] = Comma /\ text[j] = Comma =>
           \E m \in N : i < m /\ m < j
  BY DEF ReadsUpTo
<1>4. \A i \in Int : i \in b .. next - 1 <=> i \in b .. at - 1 \/ i = at \/ i \in at + 1 .. next - 1
  BY <1>1, <1>2, <1>3
<1>5. M = N \cup {at} /\ at \notin N
  <2>1. \A i \in at + 1 .. next - 1 : text[i] # "n"
    BY <1>2, SymbolsDiffer
  <2>2. \A i : i \in M <=> i \in N \/ i = at
    BY <1>1, <1>2, <1>4, <2>1 DEF NumbersIn
  <2>3. at \notin N
    BY <1>1, <1>2 DEF NumbersIn
  <2> QED
    BY <2>2, <2>3
<1>6. Cardinality(M) = k + 1
  <2>1. IsFiniteSet(N)
    BY <1>1, <1>2, NumbersAreFinite
  <2> HIDE DEF N, M
  <2> QED
    BY <1>3, <1>5, <2>1, FS_AddElement
<1>7. \A i \in b .. next - 1 : text[i] \in {"n", Comma, Space}
  BY <1>1, <1>2, <1>3, <1>4
<1>8. b < next /\ text[b] = "n"
  BY <1>1, <1>2, <1>3
<1>9. ASSUME NEW i \in b .. next - 1, NEW j \in b .. next - 1,
             i < j, text[i] = Comma, text[j] = Comma
      PROVE  \E m \in M : i < m /\ m < j
  <2>1. i # at /\ j # at
    BY <1>2, <1>9, SymbolsDiffer
  <2>2. i \in Int /\ j \in Int
    OBVIOUS
  <2>3. CASE i \in b .. at - 1 /\ j \in b .. at - 1
    BY <1>3, <1>5, <1>9, <2>3
  <2>4. CASE i \in at + 1 .. next - 1 /\ j \in at + 1 .. next - 1
    BY <1>2, <1>9, <2>4
  <2>5. CASE i \in b .. at - 1 /\ j \in at + 1 .. next - 1
    BY <1>1, <1>2, <1>5, <2>5
  <2>6. CASE i \in at + 1 .. next - 1 /\ j \in b .. at - 1
    BY <1>1, <1>2, <1>9, <2>6
  <2> QED
    BY <1>4, <1>9, <2>1, <2>2, <2>3, <2>4, <2>5, <2>6
<1>10. next \in b .. n + 1 /\ k + 1 # 0
  BY <1>1, <1>2, <1>3
<1> HIDE DEF M, N, n
<1>11. /\ next \in b .. Len(text) + 1 /\ Cardinality(NumbersIn(text, b, next)) = k + 1
       /\ \A i, j \in b .. next - 1 : i < j /\ text[i] = Comma /\ text[j] = Comma =>
            \E m \in NumbersIn(text, b, next) : i < m /\ m < j
  BY <1>6, <1>9, <1>10 DEF M, n
<1> QED
  BY <1>7, <1>8, <1>10, <1>11 DEF ReadsUpTo

(* Whatever has ended well has read that many numbers.                      *)
LEMMA ReadAllOf ==
  ASSUME NEW text \in Seq(Symbols), NEW size \in Nat, NEW h, ElementsEnd(h, text, size),
         NEW k \in 0 .. size, h[k] # 0
  PROVE  ReadsUpTo(text, ElementsBegin(text), h[k], k)
<1> DEFINE b == ElementsBegin(text)
           C == {i \in 0 .. size : h[i] # 0 => ReadsUpTo(text, b, h[i], i)}
<1>1. b \in 1 .. Len(text) + 1
  BY BeginIs
<1>2. h[0] = b /\ \A i \in 1 .. size : h[i] = Follows(text, size, i, h[i - 1])
  BY DEF ElementsEnd
<1>3. \A i \in 0 .. size : h[i] \in 0 .. Len(text) + 1
  BY DEF ElementsEnd
<1> HIDE DEF b
<1>4. 0 \in C
  BY <1>1, <1>2, ReadNone
<1>5. ASSUME NEW i \in 0 .. size, i # 0, i - 1 \in C PROVE i \in C
  <2>1. SUFFICES ASSUME h[i] # 0 PROVE ReadsUpTo(text, b, h[i], i)
    BY <1>5
  <2>2. i \in 1 .. size /\ i - 1 \in 0 .. size /\ i - 1 \in Nat /\ (i - 1) + 1 = i
    BY <1>5
  <2> DEFINE at == h[i - 1]
             next == Follows(text, size, i, at)
  <2>3. at \in 0 .. Len(text) + 1 /\ next = h[i] /\ next # 0
    BY <1>2, <1>3, <2>1, <2>2
  <2>4. NumberAt(text, at, next)
    BY <2>2, <2>3, FollowIs
  <2> HIDE DEF next, at
  <2>5. at # 0
    BY <2>4 DEF NumberAt
  <2>6. ReadsUpTo(text, b, at, i - 1)
    BY <1>5, <2>5 DEF at
  <2>7. ReadsUpTo(text, b, next, (i - 1) + 1)
    BY <1>1, <2>2, <2>4, <2>6, ReadOn
  <2> QED
    BY <2>2, <2>3, <2>7
<1>6. C = 0 .. size
  <2>1. C \in SUBSET (0 .. size)
    OBVIOUS
  <2> HIDE DEF C
  <2> QED
    BY <1>4, <1>5, <2>1, UpTo
<1>7. k \in C
  BY <1>6
<1> QED
  BY <1>7 DEF b

(* A row of numbers, by the places of what it consists of.                  *)
LEMMA BareIs ==
  ASSUME NEW text, NEW marks, NEW size
  PROVE  Bare(text, marks, size) <=>
           LET N == {i \in marks : text[i] = "n"}
               K == {i \in marks : text[i] = Comma}
           IN  /\ marks # {} /\ {Min(marks), Max(marks)} \subseteq N
               /\ marks = N \cup K
               /\ \A i, j \in K : i < j => \E k \in N : i < k /\ k < j
               /\ Cardinality(N) = size
BY Zenon DEF Bare, Comma

MarksIn(text, b, at) == {i \in b .. at - 1 : text[i] # Space}

(* What has been read is a row of numbers, if the last thing is one.        *)
LEMMA ReadIsBare ==
  ASSUME NEW text \in Seq(Symbols), NEW b \in 1 .. Len(text) + 1,
         NEW size \in Nat \ {0}, NEW last, ReadsUpTo(text, b, last, size),
         NEW at \in b .. last - 1, text[at] = "n",
         \A i \in at + 1 .. last - 1 : text[i] = Space
  PROVE  Bare(text, MarksIn(text, b, last), size)
<1> DEFINE n == Len(text)
           S == MarksIn(text, b, last)
           N == {i \in S : text[i] = "n"}
           K == {i \in S : text[i] = Comma}
<1>1. n \in Nat /\ b \in 1 .. n + 1
  BY LenProperties
<1>2. /\ last \in b .. n + 1 /\ Cardinality(NumbersIn(text, b, last)) = size
      /\ \A i \in b .. last - 1 : text[i] \in {"n", Comma, Space}
      /\ b < last /\ text[b] = "n"
      /\ \A i, j \in b .. last - 1 : i < j /\ text[i] = Comma /\ text[j] = Comma =>
           \E m \in NumbersIn(text, b, last) : i < m /\ m < j
  BY DEF ReadsUpTo
<1>3. \A i : i \in S <=> i \in b .. last - 1 /\ text[i] # Space
  BY DEF MarksIn
<1>4. N = NumbersIn(text, b, last)
  BY <1>3, SymbolsDiffer DEF NumbersIn
<1>5. S \in SUBSET Nat
  BY <1>1, <1>2, <1>3
<1>6. b \in N /\ at \in N
  BY <1>1, <1>2, <1>3, SymbolsDiffer
<1>7. \A y \in S : b <= y /\ y <= at
  <2>1. ASSUME NEW y \in S PROVE b <= y /\ y <= at
    <3>1. y \in b .. last - 1 /\ y \notin at + 1 .. last - 1
      BY <1>3
    <3> QED
      BY <1>1, <1>2, <3>1
  <2> QED
    BY <2>1
<1>8. Min(S) = b /\ Max(S) = at
  <2> HIDE DEF S
  <2>1. b \in S /\ at \in S
    BY <1>6
  <2> QED
    BY <1>5, <1>7, <2>1, LeastIs, GreatestIs
<1>9. S = N \cup K
  BY <1>2, <1>3
<1>10. \A i, j \in K : i < j => \E m \in N : i < m /\ m < j
  BY <1>2, <1>3, <1>4
<1>11. S # {} /\ {Min(S), Max(S)} \subseteq N /\ Cardinality(N) = size
  BY <1>2, <1>4, <1>6, <1>8
<1> QED
  BY Zenon, <1>9, <1>10, <1>11, BareIs

(* What is well formed, by the places that are not blank.                   *)
Marks(text) == {i \in DOMAIN text : text[i] # Space}

LEMMA WellFormedIs ==
  ASSUME NEW text, NEW size
  PROVE  WellFormed(text, size) <=>
           LET marks == Marks(text)
               first == Min(marks)
               last  == Max(marks)
           IN  \/ Bare(text, marks, size) /\ last = Len(text)
               \/ /\ marks # {} /\ text[first] \in {"(", "["}
                  /\ text[last] = Closing(text[first])
                  /\ Bare(text, marks \ {first, last}, size)
BY Zenon DEF WellFormed, Marks, Space

LEMMA ClosingIs ==
  ASSUME NEW c
  PROVE  Closing(c) \in {")", "]"} /\ Closing(c) # Space
<1>1. Closing(c) \in {")", "]"}
  BY DEF Closing
<1> QED
  BY <1>1, SymbolsDiffer

(* What operator>> accepts is well formed.                                  *)
LEMMA TakenIsWellFormed ==
  ASSUME NEW text \in Seq(Symbols), NEW size \in Nat \ {0}, NEW h,
         ElementsEnd(h, text, size), Taken(text, h[size])
  PROVE  WellFormed(text, size)
<1> DEFINE n == Len(text)
           b == ElementsBegin(text)
           f == FirstMark(text)
           at == h[size - 1]
           last == h[size]
           M == Marks(text)
           S == MarksIn(text, b, last)
<1>1. n \in Nat /\ DOMAIN text = 1 .. n
  BY LenProperties
<1>2. /\ size - 1 \in 0 .. size /\ size \in 0 .. size /\ size \in 1 .. size
      /\ size - 1 \in Nat
  OBVIOUS
<1>3. at \in 0 .. n + 1 /\ last \in 0 .. n + 1 /\ last = Follows(text, size, size, at)
  BY <1>2 DEF ElementsEnd
<1>4. /\ last = n + 1 \/ (last # 0 /\ Bracketed(text) /\ text[last] = Closing(text[f])
                          /\ SkipBlanks(text, last + 1) = n + 1)
      /\ last # 0
  BY <1>1 DEF Taken
<1>5. /\ Skips(text, 1, f) /\ b \in 1 .. n + 1
      /\ Bracketed(text) => Skips(text, f + 1, b)
      /\ ~Bracketed(text) => b = f
  BY BeginIs
<1>6. Bracketed(text) => f < n + 1 /\ text[f] \in {"(", "["}
  BY Zenon DEF Bracketed
<1>7. ReadsUpTo(text, b, last, size)
  BY <1>2, <1>4, ReadAllOf
<1>8. at # 0 => ReadsUpTo(text, b, at, size - 1)
  BY <1>2, ReadAllOf
<1> HIDE DEF at, last, b, f
<1>9. /\ NumberAt(text, at, last)
      /\ \A i \in at + 1 .. last - 1 : text[i] = Space
      /\ last = n + 1 => ~Bracketed(text) /\ at = n
  BY <1>2, <1>3, <1>4, FollowIs
<1>10. /\ at \in 1 .. n /\ text[at] = "n" /\ last \in at + 1 .. n + 1
  BY <1>9 DEF NumberAt
<1>11. at \in b .. last - 1
  <2>1. at >= b
    BY <1>1, <1>5, <1>8, <1>10 DEF ReadsUpTo
  <2> QED
    BY <1>1, <1>5, <1>10, <2>1
<1>12. Bare(text, S, size)
  <2> HIDE DEF n
  <2> QED
    BY <1>5, <1>7, <1>9, <1>10, <1>11, ReadIsBare DEF n
<1>13. M \in SUBSET Nat /\ \A i : i \in M <=> i \in 1 .. n /\ text[i] # Space
  BY <1>1 DEF Marks
<1>14. \A i : i \in S <=> i \in b .. last - 1 /\ text[i] # Space
  BY DEF MarksIn
<1>15. f \in 1 .. n + 1 /\ \A i \in 1 .. f - 1 : text[i] = Space
  BY <1>5 DEF Skips
<1> HIDE DEF M, S, n
<1>16. CASE last = n + 1
  <2>1. b = f /\ at = n /\ ~Bracketed(text)
    BY <1>5, <1>9, <1>16
  <2>2. ASSUME NEW i \in 1 .. n, text[i] # Space PROVE i \in b .. last - 1
    <3>1. i \notin 1 .. f - 1
      BY <1>15, <2>2
    <3> QED
      BY <1>1, <1>15, <1>16, <2>1, <3>1
  <2>3. \A i \in b .. last - 1 : i \in 1 .. n
    BY <1>1, <1>5, <1>16
  <2>4. M = S
    BY <1>13, <1>14, <2>2, <2>3
  <2>5. n \in M /\ \A y \in M : y <= n
    BY <1>1, <1>10, <1>13, <2>1, SymbolsDiffer
  <2>6. Max(M) = n
    BY <1>13, <2>5, GreatestIs
  <2> QED
    BY Zenon, <1>12, <2>4, <2>6, WellFormedIs DEF M, n
<1>17. CASE last # n + 1
  <2>1. /\ Bracketed(text) /\ text[last] = Closing(text[f])
        /\ SkipBlanks(text, last + 1) = n + 1 /\ last \in 1 .. n
    BY <1>1, <1>3, <1>4, <1>17
  <2>2. f \in 1 .. n /\ text[f] \in {"(", "["} /\ text[f] # Space
    BY <1>1, <1>6, <1>15, <2>1, SymbolsDiffer
  <2>3. b \in f + 1 .. n + 1 /\ \A i \in f + 1 .. b - 1 : text[i] = Space
    BY <1>5, <2>1 DEF Skips, n
  <2>4. \A i \in last + 1 .. n : text[i] = Space
    <3>1. last + 1 \in 1 .. n + 1
      BY <1>1, <2>1
    <3>2. Skips(text, last + 1, n + 1)
      BY <2>1, <3>1, SkipIs DEF n
    <3>3. \A i \in last + 1 .. (n + 1) - 1 : text[i] = Space
      BY <3>2 DEF Skips
    <3> QED
      BY <1>1, <3>3
  <2>5. text[last] # Space
    BY <2>1, ClosingIs
  <2>6. b < last
    BY <1>1, <1>5, <1>10, <1>11, <2>1
  <2>7. \A i : i \in M <=> i = f \/ i = last \/ i \in S
    <3>1. ASSUME NEW i \in 1 .. n, text[i] # Space PROVE i = f \/ i = last \/ i \in b .. last - 1
      <4>1. i \notin 1 .. f - 1 /\ i \notin f + 1 .. b - 1 /\ i \notin last + 1 .. n
        BY <1>15, <2>3, <2>4, <3>1
      <4> QED
        BY <1>1, <2>1, <2>2, <2>3, <2>6, <4>1
    <3>2. \A i \in b .. last - 1 : i \in 1 .. n
      BY <1>1, <1>5, <2>1
    <3> QED
      BY <1>13, <1>14, <2>1, <2>2, <2>5, <3>1, <3>2
  <2>8. f \notin S /\ last \notin S
    BY <1>1, <1>14, <2>1, <2>2, <2>3
  <2>9. M \ {f, last} = S
    BY <2>7, <2>8
  <2>10. f \in M /\ last \in M /\ \A y \in M : f <= y /\ y <= last
    <3>1. \A y \in S : f <= y /\ y <= last
      BY <1>1, <1>14, <2>1, <2>2, <2>3
    <3>2. f <= last
      BY <1>1, <2>1, <2>2, <2>3, <2>6
    <3> QED
      BY <1>1, <2>1, <2>2, <2>7, <3>1, <3>2
  <2>11. Min(M) = f /\ Max(M) = last
    BY <1>13, <2>10, LeastIs, GreatestIs
  <2>12. M # {}
    BY <2>10
  <2> QED
    BY Zenon, <1>12, <2>1, <2>2, <2>9, <2>11, <2>12, WellFormedIs DEF M, n
<1> QED
  BY <1>16, <1>17

LEMMA EndsAreIn ==
  ASSUME NEW n \in Nat, NEW s \in SUBSET (1 .. n), s # {}
  PROVE  /\ Min(s) \in s /\ Max(s) \in s
         /\ \A y \in s : Min(s) <= y /\ y <= Max(s)
<1> DEFINE T == {n - x : x \in s}
<1>1. s \in SUBSET Nat /\ \A x \in s : x \in 1 .. n
  OBVIOUS
<1>2. PICK x \in s : \A y \in s : x <= y
  BY <1>1, LeastNatural
<1>3. T \in SUBSET Nat /\ T # {}
  <2>1. \A z \in s : n - z \in Nat
    BY <1>1
  <2> QED
    BY <2>1
<1>4. PICK t \in T : \A y \in T : t <= y
  <2> HIDE DEF T
  <2> QED
    BY <1>3, LeastNatural
<1>5. PICK z \in s : t = n - z
  OBVIOUS
<1>6. \A y \in s : y <= z
  <2>1. ASSUME NEW y \in s PROVE y <= z
    <3>1. n - y \in T
      OBVIOUS
    <3>2. n - z <= n - y
      BY <1>4, <1>5, <3>1
    <3> QED
      BY <1>1, <3>2
  <2> QED
    BY <2>1
<1>7. Min(s) = x /\ Max(s) = z
  BY <1>1, <1>2, <1>6, LeastIs, GreatestIs
<1> QED
  BY <1>2, <1>6, <1>7

(* A number is the last of all if it is the last by its count.              *)
LEMMA LastByCount ==
  ASSUME NEW text, NEW b \in Nat, NEW e \in Nat, text[e] = "n", NEW size \in Nat,
         Cardinality(NumbersIn(text, b, e + 1)) = size,
         NEW at \in b .. e, text[at] = "n", NEW k \in Nat,
         Cardinality(NumbersIn(text, b, at)) = k
  PROVE  IF k + 1 < size THEN at < e ELSE at = e
<1> DEFINE N == NumbersIn(text, b, e + 1)
           A == NumbersIn(text, b, at)
           B == A \cup {at}
           D == B \cup {e}
<1>1. IsFiniteSet(N) /\ IsFiniteSet(A)
  BY NumbersAreFinite
<1>2. at \notin A /\ B \subseteq N /\ D \subseteq N
  BY DEF NumbersIn
<1>3. at = e => N = B
  BY DEF NumbersIn
<1>4. at # e => e \notin B
  BY DEF NumbersIn
<1> HIDE DEF N, A
<1>5. Cardinality(N) = size /\ Cardinality(A) = k
  BY DEF N, A
<1>6. Cardinality(B) = k + 1 /\ IsFiniteSet(B)
  BY <1>1, <1>2, <1>5, FS_AddElement
<1>7. at # e => Cardinality(D) = k + 2
  <2> HIDE DEF B
  <2>1. at # e => Cardinality(D) = Cardinality(B) + 1
    BY <1>4, <1>6, FS_AddElement
  <2> QED
    BY <1>6, <2>1
<1>8. Cardinality(D) <= size
  <2> HIDE DEF D
  <2> QED
    BY <1>1, <1>2, <1>5, FS_Subset
<1> HIDE DEF B, D
<1>9. CASE at = e
  BY <1>3, <1>5, <1>6, <1>9
<1>10. CASE at # e
  BY <1>7, <1>8, <1>10
<1> QED
  BY <1>9, <1>10

(* After a number of a row, the next one.                                   *)
LEMMA NextNumber ==
  ASSUME NEW text \in Seq(Symbols), NEW b \in 1 .. Len(text), NEW e \in b .. Len(text),
         text[e] = "n", NEW size \in Nat, Bare(text, MarksIn(text, b, e + 1), size),
         NEW k \in 1 .. size, k < size, NEW at \in b .. e, text[at] = "n", at # e
  PROVE  LET next == Follows(text, size, k, at)
         IN  next \in b .. e /\ text[next] = "n"
<1> DEFINE n == Len(text)
           S == MarksIn(text, b, e + 1)
           N == {i \in S : text[i] = "n"}
           K == {i \in S : text[i] = Comma}
           j == SkipBlanks(text, at + 1)
           m == SkipBlanks(text, j + 1)
           after == SkipComma(text, at + 1)
           next == Follows(text, size, k, at)
<1>1. n \in Nat /\ b \in 1 .. n /\ e \in b .. n /\ at \in b .. n /\ at < e /\ at \in 1 .. n
  BY LenProperties
<1>2. S = N \cup K /\ \A i, y \in K : i < y => \E x \in N : i < x /\ x < y
  BY Zenon, BareIs
<1>3. \A i : i \in S <=> i \in b .. e /\ text[i] # Space
  BY <1>1 DEF MarksIn
<1>4. after = IF j <= n /\ text[j] = Comma THEN m ELSE j
  BY Zenon DEF SkipComma, Comma
<1>5. Skips(text, at + 1, j)
  BY <1>1, SkipIs
<1>6. next = IF at = 0 \/ ~(at < n + 1 /\ text[at] = "n") THEN 0
             ELSE IF at + 1 = n + 1 THEN IF Bracketed(text) \/ k # size THEN 0 ELSE n + 1
             ELSE IF after = n + 1 THEN 0 ELSE after
  BY Zenon DEF Follows
<1> HIDE DEF S, j, after, next
<1>7. j \in at + 1 .. n + 1 /\ (\A i \in at + 1 .. j - 1 : text[i] = Space)
      /\ (j # n + 1 => text[j] # Space)
  BY <1>5 DEF Skips
<1>8. j \in at + 1 .. e
  <2>1. e \notin at + 1 .. j - 1
    BY <1>7, SymbolsDiffer
  <2> QED
    BY <1>1, <1>7, <2>1
<1>9. text[j] # Space /\ j \in S
  <2>1. j # n + 1 /\ j \in b .. e
    BY <1>1, <1>8
  <2>2. text[j] # Space
    BY <1>7, <2>1
  <2>3. j \in S
    BY <1>3, <2>1, <2>2
  <2> QED
    BY <2>2, <2>3
<1>10. after \in at + 1 .. e /\ text[after] = "n"
  <2>1. CASE text[j] # Comma
    <3>1. text[j] = "n" /\ after = j
      BY <1>2, <1>4, <1>9, <2>1
    <3> QED
      BY <1>8, <3>1
  <2>2. CASE text[j] = Comma
    <3>1. after = m /\ j # e /\ j + 1 \in 1 .. n + 1
      BY <1>1, <1>4, <1>8, <2>2, SymbolsDiffer
    <3>2. Skips(text, j + 1, m)
      BY <3>1, SkipIs
    <3> HIDE DEF m
    <3>3. m \in j + 1 .. n + 1 /\ (\A i \in j + 1 .. m - 1 : text[i] = Space)
          /\ (m # n + 1 => text[m] # Space)
      BY <3>2 DEF Skips
    <3>4. m \in j + 1 .. e
      <4>1. e \notin j + 1 .. m - 1
        BY <3>3, SymbolsDiffer
      <4> QED
        BY <1>1, <1>8, <3>1, <3>3, <4>1
    <3>5. m \in S
      BY <1>1, <1>3, <1>8, <3>3, <3>4
    <3>6. ~(text[m] = Comma)
      <4>1. SUFFICES ASSUME text[m] = Comma PROVE FALSE
        OBVIOUS
      <4>2. j \in K /\ m \in K /\ j < m
        BY <1>8, <1>9, <2>2, <3>4, <3>5, <4>1
      <4>3. PICK x \in N : j < x /\ x < m
        BY <1>2, <4>2
      <4>4. text[x] = "n" /\ x \in b .. e
        BY <1>3, <4>3
      <4>5. x \in j + 1 .. m - 1
        BY <1>1, <1>8, <3>4, <4>3, <4>4
      <4> QED
        BY <3>3, <4>4, <4>5, SymbolsDiffer
    <3>7. text[m] = "n"
      BY <1>2, <3>5, <3>6
    <3> QED
      BY <1>1, <1>8, <3>1, <3>4, <3>7
  <2> QED
    BY <2>1, <2>2
<1>11. next = after
  BY <1>1, <1>6, <1>10
<1> QED
  BY <1>1, <1>10, <1>11 DEF next

(* A row of numbers is read, up to the last one.                            *)
LEMMA RowIsRead ==
  ASSUME NEW text \in Seq(Symbols), NEW size \in Nat \ {0}, NEW h, ElementsEnd(h, text, size),
         NEW b \in 1 .. Len(text), NEW e \in b .. Len(text), b = ElementsBegin(text),
         text[b] = "n", text[e] = "n", Bare(text, MarksIn(text, b, e + 1), size)
  PROVE  h[size - 1] = e
<1> DEFINE S == MarksIn(text, b, e + 1)
           N == {i \in S : text[i] = "n"}
           C == {k \in 0 .. size - 1 : h[k] \in b .. e /\ text[h[k]] = "n"}
<1>1. Len(text) \in Nat
  BY LenProperties
<1>2. h[0] = b /\ \A k \in 1 .. size : h[k] = Follows(text, size, k, h[k - 1])
  BY DEF ElementsEnd
<1>3. Cardinality(NumbersIn(text, b, e + 1)) = size
  <2>1. Cardinality(N) = size
    BY Zenon, BareIs
  <2>2. N = NumbersIn(text, b, e + 1)
    <3>1. \A i : i \in N <=> i \in b .. e /\ text[i] # Space /\ text[i] = "n"
      BY <1>1 DEF MarksIn
    <3>2. \A i : i \in NumbersIn(text, b, e + 1) <=> i \in b .. e /\ text[i] = "n"
      BY <1>1 DEF NumbersIn
    <3> HIDE DEF N
    <3> QED
      BY <3>1, <3>2, SymbolsDiffer
  <2> QED
    BY <2>1, <2>2
<1>4. ASSUME NEW k \in 0 .. size - 1, h[k] \in b .. e, text[h[k]] = "n"
      PROVE  IF k + 1 < size THEN h[k] < e ELSE h[k] = e
  <2>1. k \in 0 .. size /\ k \in Nat /\ h[k] # 0
    BY <1>4
  <2>2. ReadsUpTo(text, b, h[k], k)
    BY <2>1, ReadAllOf
  <2>3. Cardinality(NumbersIn(text, b, h[k])) = k
    BY <2>2 DEF ReadsUpTo
  <2>4. b \in Nat /\ e \in Nat /\ size \in Nat
    OBVIOUS
  <2> DEFINE at == h[k]
  <2>5. at \in b .. e /\ text[at] = "n" /\ Cardinality(NumbersIn(text, b, at)) = k
    BY <1>4, <2>3
  <2> HIDE DEF at
  <2>6. IF k + 1 < size THEN at < e ELSE at = e
    BY <1>3, <2>1, <2>4, <2>5, LastByCount
  <2> QED
    BY <2>6 DEF at
<1>5. 0 \in C
  BY <1>1, <1>2
<1>6. ASSUME NEW k \in 0 .. size - 1, k # 0, k - 1 \in C PROVE k \in C
  <2>1. k \in 1 .. size /\ k < size /\ k - 1 \in 0 .. size - 1 /\ (k - 1) + 1 < size
    BY <1>6
  <2> DEFINE at == h[k - 1]
             next == Follows(text, size, k, at)
  <2>2. at \in b .. e /\ text[at] = "n" /\ at < e
    BY <1>4, <1>6, <2>1
  <2>3. h[k] = next
    BY <1>2, <2>1
  <2> HIDE DEF at
  <2>4. size \in Nat /\ at # e
    BY <1>1, <2>2
  <2>5. next \in b .. e /\ text[next] = "n"
    BY <2>1, <2>2, <2>4, NextNumber
  <2> QED
    BY <2>3, <2>5
<1>7. C = 0 .. size - 1
  <2>1. C \in SUBSET (0 .. size - 1) /\ size - 1 \in Nat
    OBVIOUS
  <2> HIDE DEF C
  <2> QED
    BY <1>5, <1>6, <2>1, UpTo
<1>8. size - 1 \in C
  BY <1>7
<1> QED
  BY <1>4, <1>8

LEMMA WellFormedIsTaken ==
  ASSUME NEW text \in Seq(Symbols), NEW size \in Nat \ {0}, NEW h,
         ElementsEnd(h, text, size), WellFormed(text, size)
  PROVE  Taken(text, h[size])
<1> DEFINE n == Len(text)
           b == ElementsBegin(text)
           f == FirstMark(text)
           last == h[size]
           M == Marks(text)
<1>1. n \in Nat /\ DOMAIN text = 1 .. n
  BY LenProperties
<1>2. size - 1 \in 0 .. size /\ size \in 1 .. size
  OBVIOUS
<1>3. last = Follows(text, size, size, h[size - 1])
  BY <1>2 DEF ElementsEnd
<1>4. /\ Skips(text, 1, f) /\ b \in 1 .. n + 1
      /\ Bracketed(text) => Skips(text, f + 1, b)
      /\ ~Bracketed(text) => b = f
  BY BeginIs
<1>5. M \in SUBSET Nat /\ \A i : i \in M <=> i \in 1 .. n /\ text[i] # Space
  BY <1>1 DEF Marks
<1>6. \/ Bare(text, M, size) /\ Max(M) = n
      \/ /\ M # {} /\ text[Min(M)] \in {"(", "["} /\ text[Max(M)] = Closing(text[Min(M)])
         /\ Bare(text, M \ {Min(M), Max(M)}, size)
  BY Zenon, WellFormedIs
<1>7. \A at : Follows(text, size, size, at)
        = IF at = 0 \/ ~(at < n + 1 /\ text[at] = "n") THEN 0
          ELSE IF at + 1 = n + 1 THEN IF Bracketed(text) \/ size # size THEN 0 ELSE n + 1
          ELSE LET after == IF size < size THEN SkipComma(text, at + 1)
                            ELSE SkipBlanks(text, at + 1)
               IN  IF after = n + 1 THEN 0 ELSE after
  BY Zenon DEF Follows
<1>8. \A at : at \in 1 .. n /\ text[at] = "n" =>
        Follows(text, size, size, at)
          = IF at = n THEN IF Bracketed(text) THEN 0 ELSE n + 1
            ELSE IF SkipBlanks(text, at + 1) = n + 1 THEN 0 ELSE SkipBlanks(text, at + 1)
  <2> HIDE DEF n, f, b, M, last
  <2>1. ASSUME NEW at \in 1 .. n, text[at] = "n" PROVE at # 0 /\ at < n + 1 /\ (at + 1 = n + 1 <=> at = n)
    BY <1>1
  <2>2. ~(size < size) /\ size = size
    OBVIOUS
  <2> QED
    BY <1>7, <2>1, <2>2
<1> HIDE DEF f, b, last, M
<1>9. f \in 1 .. n + 1 /\ (\A i \in 1 .. f - 1 : text[i] = Space)
      /\ (f # n + 1 => text[f] # Space)
  BY <1>4 DEF Skips
<1>10. Bracketed(text) <=> f < n + 1 /\ text[f] \in {"(", "["}
  BY Zenon DEF Bracketed, f, n
<1>11. M \in SUBSET (1 .. n)
  BY <1>5
<1>12. ASSUME M # {}
       PROVE  /\ Min(M) = f /\ f \in M /\ Max(M) \in M
              /\ \A y \in M : f <= y /\ y <= Max(M)
  <2>1. /\ Min(M) \in M /\ Max(M) \in M
        /\ \A y \in M : Min(M) <= y /\ y <= Max(M)
    BY <1>1, <1>11, <1>12, EndsAreIn
  <2>2. Min(M) \in 1 .. n /\ text[Min(M)] # Space
    BY <1>5, <2>1
  <2> DEFINE x == Min(M)
  <2>3. x \in 1 .. n /\ text[x] # Space /\ \A y \in M : x <= y
    BY <2>1, <2>2
  <2> HIDE DEF x
  <2>4. ~(x < f)
    <3>1. x < f => x \in 1 .. f - 1
      BY <1>1, <1>9, <2>3
    <3> QED
      BY <1>9, <2>3, <3>1
  <2>5. f \in M
    BY <1>1, <1>5, <1>9, <2>3, <2>4
  <2>6. x = f
    BY <1>1, <1>9, <2>3, <2>4, <2>5
  <2> QED
    BY <2>1, <2>5, <2>6 DEF x
<1>13. CASE Bare(text, M, size) /\ Max(M) = n
  <2>1. M # {} /\ text[Min(M)] = "n" /\ text[Max(M)] = "n"
    BY Zenon, <1>13, BareIs
  <2>2. f \in 1 .. n /\ text[f] = "n" /\ text[n] = "n" /\ n \in 1 .. n
    BY <1>5, <1>12, <1>13, <2>1
  <2>3. ~Bracketed(text) /\ b = f
    BY <1>4, <1>10, <2>2 DEF b, f
  <2>4. M = MarksIn(text, b, n + 1)
    <3>1. ASSUME NEW i \in 1 .. n, text[i] # Space PROVE i \in b .. (n + 1) - 1
      <4>1. i \in M
        BY <1>5, <3>1
      <4>2. f <= i
        BY <1>12, <2>1, <4>1
      <4> QED
        BY <1>1, <2>2, <2>3, <4>2
    <3>2. \A i \in b .. (n + 1) - 1 : i \in 1 .. n
      BY <1>1, <2>2, <2>3
    <3> QED
      BY <1>5, <3>1, <3>2 DEF MarksIn
  <2>5. h[size - 1] = n
    <3>1. b \in 1 .. Len(text) /\ n \in b .. Len(text) /\ b = ElementsBegin(text)
      BY <1>1, <2>2, <2>3 DEF b
    <3> HIDE DEF n
    <3> QED
      BY <1>13, <2>2, <2>3, <2>4, <3>1, RowIsRead
  <2>6. last = n + 1
    BY <1>3, <1>8, <2>2, <2>3, <2>5
  <2> QED
    BY <2>6 DEF Taken, last
<1>14. CASE /\ M # {} /\ text[Min(M)] \in {"(", "["}
            /\ text[Max(M)] = Closing(text[Min(M)])
            /\ Bare(text, M \ {Min(M), Max(M)}, size)
  <2> DEFINE l == Max(M)
             S == M \ {f, l}
  <2>1. /\ Min(M) = f /\ f \in M /\ l \in M
        /\ \A y \in M : f <= y /\ y <= l
    BY <1>12, <1>14
  <2>2. text[f] \in {"(", "["} /\ text[l] = Closing(text[f]) /\ Bare(text, S, size)
    BY <1>14, <2>1
  <2> HIDE DEF l
  <2>3. S # {} /\ text[Min(S)] = "n" /\ text[Max(S)] = "n"
    BY Zenon, <2>2, BareIs
  <2>4. S \in SUBSET (1 .. n)
    BY <1>11
  <2> DEFINE e == Max(S)
             s == Min(S)
  <2>5. s \in S /\ e \in S /\ \A y \in S : s <= y /\ y <= e
    BY <1>1, <2>3, <2>4, EndsAreIn
  <2>6. s \in M /\ e \in M /\ s # f /\ e # l
    BY <2>5
  <2>7. text[s] = "n" /\ text[e] = "n"
    BY <2>3
  <2>8. \A i : i \in S <=> i \in M /\ i # f /\ i # l
    OBVIOUS
  <2> HIDE DEF s, e, S
  <2>9. /\ f \in 1 .. n /\ l \in 1 .. n /\ s \in 1 .. n /\ e \in 1 .. n
        /\ f < s /\ s <= e /\ e < l
    <3>1. f \in 1 .. n /\ l \in 1 .. n /\ s \in 1 .. n /\ e \in 1 .. n
      BY <1>11, <2>1, <2>6
    <3>2. f <= s /\ e <= l /\ s <= e
      BY <2>1, <2>5, <2>6
    <3> QED
      BY <1>1, <2>6, <3>1, <3>2
  <2>10. Bracketed(text)
    BY <1>1, <1>10, <2>2, <2>9
  <2>11. b = s
    <3>1. b \in f + 1 .. n + 1 /\ (\A i \in f + 1 .. b - 1 : text[i] = Space)
          /\ (b # n + 1 => text[b] # Space)
      BY <1>4, <2>10 DEF Skips, b, f
    <3>2. s \notin f + 1 .. b - 1
      BY <2>7, <3>1, SymbolsDiffer
    <3>3. b <= s /\ b \in 1 .. n
      BY <1>1, <2>9, <3>1, <3>2
    <3>4. b \in S
      BY <1>1, <1>5, <2>8, <2>9, <3>1, <3>3
    <3> QED
      BY <1>1, <2>5, <2>9, <3>3, <3>4
  <2>12. S = MarksIn(text, b, e + 1)
    <3>1. ASSUME NEW i \in S PROVE i \in b .. (e + 1) - 1 /\ text[i] # Space
      <4>1. i \in 1 .. n /\ text[i] # Space /\ s <= i /\ i <= e
        BY <1>5, <2>5, <2>8, <3>1
      <4> QED
        BY <1>1, <2>9, <2>11, <4>1
    <3>2. ASSUME NEW i \in b .. (e + 1) - 1, text[i] # Space PROVE i \in S
      <4>1. i \in 1 .. n /\ i # f /\ i # l
        BY <1>1, <2>9, <2>11
      <4> QED
        BY <1>5, <2>8, <3>2, <4>1
    <3> QED
      BY <3>1, <3>2 DEF MarksIn
  <2>13. h[size - 1] = e
    <3>1. b \in 1 .. Len(text) /\ e \in b .. Len(text) /\ b = ElementsBegin(text)
      BY <1>1, <2>9, <2>11 DEF b
    <3>2. Bare(text, MarksIn(text, b, e + 1), size)
      BY <2>2, <2>12 DEF S
    <3> HIDE DEF n
    <3> QED
      BY <2>7, <2>11, <3>1, <3>2, RowIsRead
  <2>14. SkipBlanks(text, e + 1) = l
    <3>1. ASSUME NEW i \in e + 1 .. l - 1 PROVE text[i] = Space
      <4>1. SUFFICES ASSUME text[i] # Space PROVE FALSE
        OBVIOUS
      <4>2. i \in 1 .. n /\ i # f /\ i # l /\ ~(i <= e)
        BY <1>1, <2>9
      <4> QED
        BY <1>5, <2>5, <2>8, <4>1, <4>2
    <3>2. Skips(text, e + 1, l) /\ e + 1 \in 1 .. n + 1
      BY <1>1, <1>5, <2>1, <2>9, <3>1 DEF Skips
    <3> QED
      BY <3>2, SkipsTo
  <2>15. SkipBlanks(text, l + 1) = n + 1
    <3>1. ASSUME NEW i \in l + 1 .. (n + 1) - 1 PROVE text[i] = Space
      <4>1. i \in 1 .. n /\ ~(i <= l)
        BY <1>1, <2>9
      <4> QED
        BY <1>5, <2>1, <4>1
    <3>2. Skips(text, l + 1, n + 1) /\ l + 1 \in 1 .. n + 1
      BY <1>1, <2>9, <3>1 DEF Skips
    <3> QED
      BY <3>2, SkipsTo
  <2>16. last = l
    BY <1>1, <1>3, <1>8, <2>7, <2>9, <2>13, <2>14
  <2>17. last # 0
    BY <1>1, <2>9, <2>16
  <2> QED
    BY <2>2, <2>10, <2>15, <2>16, <2>17 DEF Taken, last, f
<1> QED
  BY <1>6, <1>13, <1>14

(* operator>> accepts what is well formed, and nothing else.                *)
LEMMA AcceptsWellFormed ==
  ASSUME NEW text \in Seq(Symbols), NEW size \in Nat \ {0}
  PROVE  Accepts(text, size) <=> WellFormed(text, size)
<1>1. PICK h : ElementsEnd(h, text, size) /\ h[size] = LastPlace(text, size)
  BY PlacesExist
<1>2. h[size] \in 0 .. Len(text) + 1
  BY <1>1 DEF ElementsEnd
<1>3. Accepts(text, size) <=> Taken(text, h[size])
  BY <1>1, <1>2, AcceptsIs
<1> QED
  BY <1>1, <1>3, TakenIsWellFormed, WellFormedIsTaken

Joins(E, u, s, t) ==
  /\ u \in Seq(E) /\ Len(u) = Len(s) + Len(t)
  /\ \A i \in 1 .. Len(s) + Len(t) : u[i] = IF i <= Len(s) THEN s[i] ELSE t[i - Len(s)]

LEMMA JoinIs ==
  ASSUME NEW E, NEW s \in Seq(E), NEW t \in Seq(E), NEW u, u = s \o t
  PROVE  Joins(E, u, s, t)
BY ConcatProperties DEF Joins

(* What operator<< writes: a bracket, numbers with commas in between, and a *)
(* bracket.                                                                 *)
MoreNumbers(i) == <<Comma, "n">>

LEMMA WriteTupleIs ==
  ASSUME NEW size \in Nat \ {0}
  PROVE  WriteTuple([i \in 1 .. size |-> "n"])
           = <<"(", "n">> \o FlattenSeq([i \in 1 .. size - 1 |-> MoreNumbers(i)]) \o <<")">>
<1> DEFINE t == [i \in 1 .. size |-> "n"]
<1>1. size \in Nat /\ 1 \in 1 .. size /\ \A i \in 1 .. size - 1 : i + 1 \in 1 .. size
  OBVIOUS
<1>2. Len(t) = size /\ t[1] = "n" /\ \A i \in 1 .. size - 1 : t[i + 1] = "n"
  BY <1>1
<1>3. WriteTuple(t)
        = <<"(", t[1]>> \o FlattenSeq([i \in 1 .. Len(t) - 1 |-> <<Comma, t[i + 1]>>]) \o <<")">>
  BY Zenon DEF WriteTuple, Comma
<1> HIDE DEF t
<1>4. [i \in 1 .. size - 1 |-> <<Comma, t[i + 1]>>] = [i \in 1 .. size - 1 |-> MoreNumbers(i)]
  BY <1>2 DEF MoreNumbers
<1> QED
  BY <1>2, <1>3, <1>4 DEF t

(* The i numbers after the first.                                           *)
AreMore(s, i) ==
  /\ s \in Seq(Symbols) /\ Len(s) = 2 * i
  /\ \A j \in 1 .. i : s[2 * j - 1] = Comma /\ s[2 * j] = "n"

LEMMA MoreIs ==
  ASSUME NEW m \in Nat
  PROVE  AreMore(FlattenSeq([i \in 1 .. m |-> MoreNumbers(i)]), m)
<1> DEFINE seqs == [i \in 1 .. m |-> MoreNumbers(i)]
           E == Symbols
           p == <<Comma, "n">>
<1>1. p \in Seq(E) /\ Len(p) = 2 /\ p[1] = Comma /\ p[2] = "n"
  BY SymbolsDiffer
<1>2. seqs \in Seq(Seq(E)) /\ Len(seqs) = m /\ \A i \in 1 .. m : seqs[i] = p
  BY <1>1, SeqDef DEF MoreNumbers
<1> HIDE DEF seqs, p
<1>3. PICK f : /\ Flattens(f, seqs)
               /\ \A i \in 0 .. m : f[i] \in Seq(E)
               /\ FlattenSeq(seqs) = f[m]
  BY <1>2, FlattenIs
<1> HIDE DEF E
<1>4. f[0] = <<>> /\ \A i \in 1 .. m : f[i] = f[i - 1] \o p
  BY <1>2, <1>3 DEF Flattens
<1> DEFINE C == {i \in 0 .. m : AreMore(f[i], i)}
<1>5. 0 \in C
  <2>1. <<>> \in Seq(E) /\ Len(<<>>) = 0 /\ 1 .. 0 = {} /\ 2 * 0 = 0
    BY EmptySeq
  <2>2. AreMore(<<>>, 0)
    BY <2>1 DEF AreMore, E
  <2>3. 0 \in 0 .. m /\ f[0] = <<>>
    BY <1>4
  <2> QED
    BY <2>2, <2>3
<1>6. ASSUME NEW i \in 0 .. m, i # 0, i - 1 \in C PROVE i \in C
  <2> DEFINE r == f[i - 1]
             s == f[i]
  <2>1. i \in 1 .. m /\ i - 1 \in 0 .. m
    BY <1>6
  <2>2. s = r \o p /\ AreMore(r, i - 1)
    BY <1>4, <1>6, <2>1
  <2> HIDE DEF r, s
  <2>3. r \in Seq(E) /\ Len(r) = 2 * (i - 1)
        /\ \A j \in 1 .. i - 1 : r[2 * j - 1] = Comma /\ r[2 * j] = "n"
    BY <2>2 DEF AreMore, E
  <2>4. /\ s \in Seq(E) /\ Len(s) = Len(r) + 2
        /\ \A k \in 1 .. Len(r) + 2 : s[k] = IF k <= Len(r) THEN r[k] ELSE p[k - Len(r)]
    <3>1. Joins(E, s, r, p)
      BY <1>1, <2>2, <2>3, JoinIs
    <3> QED
      BY <1>1, <3>1 DEF Joins
  <2>5. ASSUME NEW j \in 1 .. i PROVE s[2 * j - 1] = Comma /\ s[2 * j] = "n"
    <3>1. CASE j = i
      <4>1. 2 * j - 1 = Len(r) + 1 /\ 2 * j = Len(r) + 2 /\ Len(r) \in Nat
        BY <2>1, <2>3, <3>1
      <4>2. s[Len(r) + 1] = p[1] /\ s[Len(r) + 2] = p[2]
        BY <2>4, <4>1
      <4> QED
        BY <1>1, <4>1, <4>2
    <3>2. CASE j # i
      <4>1. j \in 1 .. i - 1 /\ 2 * j \in 1 .. Len(r) /\ 2 * j - 1 \in 1 .. Len(r)
        BY <2>1, <2>3, <3>2
      <4>2. s[2 * j] = r[2 * j] /\ s[2 * j - 1] = r[2 * j - 1]
        BY <2>3, <2>4, <4>1
      <4> QED
        BY <2>3, <4>1, <4>2
    <3> QED
      BY <3>1, <3>2
  <2>6. Len(s) = 2 * i
    BY <2>1, <2>3, <2>4
  <2>7. AreMore(s, i)
    BY <2>4, <2>5, <2>6 DEF AreMore, E
  <2> QED
    BY <2>7 DEF s
<1>7. C = 0 .. m
  <2>1. C \in SUBSET (0 .. m)
    OBVIOUS
  <2> HIDE DEF C
  <2> QED
    BY <1>5, <1>6, <2>1, UpTo
<1>8. m \in C
  BY <1>7
<1> QED
  BY <1>3, <1>8 DEF seqs

LEMMA EvenPlaces ==
  ASSUME NEW size \in Nat, NEW N, N = {2 * i : i \in 1 .. size}
  PROVE  Cardinality(N) = size
<1> DEFINE g == [i \in 1 .. size |-> 2 * i]
<1>1. g \in Bijection(1 .. size, N)
  <2>1. g \in [1 .. size -> N] /\ \A y \in N : \E i \in 1 .. size : g[i] = y
    OBVIOUS
  <2>2. \A i, j \in 1 .. size : g[i] = g[j] => i = j
    OBVIOUS
  <2> HIDE DEF g
  <2> QED
    BY <2>1, <2>2 DEF Bijection, Injection, Surjection, IsInjective
<1>2. ExistsBijection(1 .. size, N)
  BY <1>1 DEF ExistsBijection
<1> QED
  BY <1>2, FS_CountingElements

(* What operator<< writes is well formed.                                   *)
LEMMA WrittenIsWellFormed ==
  ASSUME NEW size \in Nat \ {0}
  PROVE  LET text == WriteTuple([i \in 1 .. size |-> "n"])
         IN  text \in Seq(Symbols) /\ WellFormed(text, size)
<1> DEFINE text == WriteTuple([i \in 1 .. size |-> "n"])
           m == size - 1
           body == FlattenSeq([i \in 1 .. m |-> MoreNumbers(i)])
           head == <<"(", "n">>
           tail == <<")">>
           n == 2 * size + 1
           M == Marks(text)
           S == M \ {1, n}
           N == {i \in S : text[i] = "n"}
           K == {i \in S : text[i] = Comma}
<1>1. m \in Nat /\ size \in Nat /\ size > 0
  OBVIOUS
<1>2. text = (head \o body) \o tail
  BY WriteTupleIs
<1>3. AreMore(body, m)
  BY <1>1, MoreIs
<1>4. /\ head \in Seq(Symbols) /\ Len(head) = 2 /\ head[1] = "(" /\ head[2] = "n"
      /\ tail \in Seq(Symbols) /\ Len(tail) = 1 /\ tail[1] = ")"
  BY SymbolsDiffer
<1> HIDE DEF text, body, head, tail
<1>5. /\ body \in Seq(Symbols) /\ Len(body) = 2 * m
      /\ \A j \in 1 .. m : body[2 * j - 1] = Comma /\ body[2 * j] = "n"
  BY <1>3 DEF AreMore
<1> HIDE DEF m
<1> DEFINE front == head \o body
<1>6. /\ front \in Seq(Symbols) /\ Len(front) = 2 + 2 * m
      /\ \A i \in 1 .. 2 + 2 * m : front[i] = IF i <= 2 THEN head[i] ELSE body[i - 2]
  <2>1. Joins(Symbols, front, head, body)
    BY <1>4, <1>5, JoinIs
  <2> QED
    BY <1>4, <1>5, <2>1 DEF Joins
<1>6a. text = front \o tail
  BY <1>2
<1> HIDE DEF front
<1>7. /\ text \in Seq(Symbols) /\ Len(text) = n
      /\ \A i \in 1 .. n : text[i] = IF i <= n - 1 THEN front[i] ELSE tail[i - (n - 1)]
  <2>1. 2 + 2 * m = n - 1 /\ n = (2 + 2 * m) + 1
    BY <1>1 DEF m
  <2> HIDE DEF n
  <2>2. /\ text \in Seq(Symbols) /\ Len(text) = (2 + 2 * m) + 1
        /\ \A i \in 1 .. (2 + 2 * m) + 1 : text[i] =
             IF i <= 2 + 2 * m THEN front[i] ELSE tail[i - (2 + 2 * m)]
    <3>1. Joins(Symbols, text, front, tail)
      BY <1>4, <1>6, <1>6a, JoinIs
    <3> QED
      BY <1>4, <1>6, <3>1 DEF Joins
  <2> QED
    BY <2>1, <2>2
<1>8. text[1] = "(" /\ text[n] = ")"
  <2>1. 1 \in 1 .. n /\ n \in 1 .. n /\ 1 <= n - 1 /\ ~(n <= n - 1) /\ n - (n - 1) = 1
        /\ 1 \in 1 .. 2 + 2 * m
    BY <1>1 DEF m
  <2> HIDE DEF n
  <2>2. text[1] = front[1] /\ text[n] = tail[n - (n - 1)]
    BY <1>7, <2>1
  <2>3. front[1] = head[1]
    BY <1>6, <2>1
  <2> QED
    BY <1>4, <2>1, <2>2, <2>3
<1>9. ASSUME NEW j \in 1 .. size
      PROVE  text[2 * j] = "n" /\ (j # size => text[2 * j + 1] = Comma)
  <2>1. 2 * j \in 1 .. n /\ 2 * j <= n - 1 /\ 2 * j \in 1 .. 2 + 2 * m
    BY <1>1 DEF m
  <2>2. text[2 * j] = front[2 * j]
    <3> HIDE DEF n
    <3> QED
      BY <1>7, <2>1
  <2>6. text[2 * j] = "n"
    <3>1. CASE j = 1
      <4>1. 2 * j = 2 /\ front[2] = head[2]
        BY <1>6, <2>1, <3>1
      <4> QED
        BY <1>4, <2>2, <4>1
    <3>2. CASE j # 1
      <4>1. j - 1 \in 1 .. m /\ 2 * (j - 1) = 2 * j - 2 /\ ~(2 * j <= 2)
        BY <1>1, <3>2 DEF m
      <4>2. front[2 * j] = body[2 * j - 2]
        BY <1>6, <2>1, <4>1
      <4>3. body[2 * (j - 1)] = "n"
        BY <1>5, <4>1
      <4> QED
        BY <2>2, <4>1, <4>2, <4>3
    <3> QED
      BY <3>1, <3>2
  <2>5. ASSUME j # size PROVE text[2 * j + 1] = Comma
    <3>1. 2 * j + 1 \in 1 .. n /\ 2 * j + 1 <= n - 1 /\ 2 * j + 1 \in 1 .. 2 + 2 * m
          /\ ~(2 * j + 1 <= 2) /\ j \in 1 .. m /\ (2 * j + 1) - 2 = 2 * j - 1
      BY <1>1, <2>5 DEF m
    <3>2. text[2 * j + 1] = front[2 * j + 1]
      <4> HIDE DEF n
      <4> QED
        BY <1>7, <3>1
    <3> QED
      BY <1>5, <1>6, <3>1, <3>2
  <2> QED
    BY <2>5, <2>6
<1>10. \A i \in 1 .. n : i = 1 \/ i = n \/ (\E j \in 1 .. size : i = 2 * j)
         \/ (\E j \in 1 .. size : j # size /\ i = 2 * j + 1)
  <2>1. ASSUME NEW i \in 1 .. n, i # 1, i # n
        PROVE  \E j \in 1 .. size : i = 2 * j \/ (j # size /\ i = 2 * j + 1)
    <3>1. i \div 2 \in 1 .. size /\ (i = 2 * (i \div 2) \/ i = 2 * (i \div 2) + 1)
      BY <1>1, <2>1
    <3>2. i = 2 * (i \div 2) + 1 => i \div 2 # size
      BY <1>1, <2>1, <3>1
    <3> QED
      BY <3>1, <3>2
  <2> QED
    BY <2>1
<1>11. M = 1 .. n
  <2>1. DOMAIN text = 1 .. n
    BY <1>7, LenProperties
  <2>2. \A i \in 1 .. n : text[i] # Space
    BY <1>8, <1>9, <1>10, SymbolsDiffer
  <2> QED
    BY <2>1, <2>2 DEF Marks
<1>12. Min(M) = 1 /\ Max(M) = n
  <2>1. M \in SUBSET Nat /\ 1 \in M /\ n \in M /\ \A y \in M : 1 <= y /\ y <= n
    BY <1>1, <1>11
  <2> HIDE DEF M
  <2> QED
    BY <2>1, LeastIs, GreatestIs
<1>13. N = {2 * i : i \in 1 .. size} /\ S = N \cup K
  <2>1. \A i : i \in S <=> i \in 1 .. n /\ i # 1 /\ i # n
    BY <1>11
  <2>2. \A i \in S : (\E j \in 1 .. size : i = 2 * j)
         \/ (\E j \in 1 .. size : j # size /\ i = 2 * j + 1)
    BY <1>10, <2>1
  <2>3. \A j \in 1 .. size : 2 * j \in S
    BY <1>1, <2>1
  <2> HIDE DEF S, n
  <2> QED
    BY <1>9, <2>2, <2>3, SymbolsDiffer
<1>14. Cardinality(N) = size
  BY <1>1, <1>13, EvenPlaces
<1>15. S # {} /\ Min(S) = 2 /\ Max(S) = 2 * size /\ {2, 2 * size} \subseteq N
  <2>1. 2 = 2 * 1 /\ 2 \in N /\ 2 * size \in N
    BY <1>1, <1>13
  <2>2. S \in SUBSET Nat /\ 2 \in S /\ 2 * size \in S /\ \A y \in S : 2 <= y /\ y <= 2 * size
    BY <1>1, <1>11, <2>1
  <2> HIDE DEF S
  <2> QED
    BY <2>1, <2>2, LeastIs, GreatestIs
<1>16. ASSUME NEW i \in K, NEW j \in K, i < j PROVE \E k \in N : i < k /\ k < j
  <2>1. \A y \in K : \E z \in 1 .. size : z # size /\ y = 2 * z + 1
    <3>1. \A y \in K : y \in S /\ text[y] # "n"
      BY SymbolsDiffer
    <3>2. \A y \in S : y \in 1 .. n /\ y # 1 /\ y # n
      BY <1>11
    <3> HIDE DEF S, K
    <3> QED
      BY <1>9, <1>10, <3>1, <3>2
  <2>2. PICK y \in 1 .. size : y # size /\ i = 2 * y + 1
    BY <2>1
  <2>3. PICK z \in 1 .. size : j = 2 * z + 1
    BY <2>1
  <2>4. i < 2 * (y + 1) /\ 2 * (y + 1) < j /\ y + 1 \in 1 .. size
    BY <1>1, <1>16, <2>2, <2>3
  <2>5. 2 * (y + 1) \in N
    BY <1>13, <2>4
  <2> QED
    BY <2>4, <2>5
<1>17. Bare(text, S, size)
  <2> HIDE DEF S
  <2>1. {Min(S), Max(S)} \subseteq N
    BY <1>15
  <2> QED
    BY Zenon, <1>13, <1>14, <1>15, <1>16, <2>1, BareIs
<1>18. text[1] \in {"(", "["} /\ text[n] = Closing(text[1])
  BY <1>8 DEF Closing
<1>19. M # {}
  <2>1. 1 \in 1 .. n
    BY <1>1
  <2> QED
    BY <1>11, <2>1
<1>20. WellFormed(text, size)
  <2> HIDE DEF M, n
  <2> QED
    BY Zenon, <1>12, <1>17, <1>18, <1>19, WellFormedIs DEF M
<1> QED
  BY <1>7, <1>20 DEF text

-----------------------------------------------------------------------------
(* Tuples as indices                                                       *)

FlatBy(f, dims, index) ==
  f = [i \in 1..Len(dims) |->
         IF i = 1 THEN index[1] ELSE f[i-1] * dims[i] + index[i]]

LEMMA FlatIndexIs ==
  ASSUME NEW dims, NEW index
  PROVE  FlatIndex(dims, index) = (CHOOSE f : FlatBy(f, dims, index))[Len(dims)]
BY Zenon DEF FlatIndex, FlatBy

(* The index in the first i dimensions.                                     *)
Flats(h, dims, index) ==
  /\ h \in [0 .. Len(dims) -> Nat] /\ h[0] = 0
  /\ \A i \in 1 .. Len(dims) : h[i] = h[i - 1] * dims[i] + index[i]

Extents == Seq(Nat \ {0}) \ {<<>>}

LEMMA ExtentsAre ==
  ASSUME NEW dims \in Extents
  PROVE  /\ Len(dims) \in Nat \ {0} /\ DOMAIN dims = 1 .. Len(dims)
         /\ \A i \in 1 .. Len(dims) : dims[i] \in Nat \ {0}
         /\ dims \in Seq(Int)
<1>1. dims \in Seq(Nat \ {0}) /\ dims # <<>>
  BY DEF Extents
<1>2. Len(dims) \in Nat \ {0}
  BY <1>1, EmptySeq
<1>3. DOMAIN dims = 1 .. Len(dims) /\ \A i \in 1 .. Len(dims) : dims[i] \in Nat \ {0}
  BY <1>1, LenProperties, ElementOfSeq
<1>4. Nat \ {0} \subseteq Int
  OBVIOUS
<1>5. dims \in Seq(Int)
  BY <1>1, <1>4, SeqOfMore
<1> QED
  BY <1>2, <1>3, <1>5

LEMMA FlatsExist ==
  ASSUME NEW dims \in Extents, NEW index \in [1 .. Len(dims) -> Nat]
  PROVE  \E h : Flats(h, dims, index)
<1> DEFINE d == Len(dims)
           g == [p \in Nat \X (1 .. d) |-> p[1] * dims[p[2]] + index[p[2]]]
<1>1. d \in Nat \ {0} /\ \A i \in 1 .. d : dims[i] \in Nat
  BY ExtentsAre
<1> HIDE DEF d
<1>2. \A i \in 1 .. d : index[i] \in Nat
  BY DEF d
<1>3. \A x \in Nat, i \in 1 .. d : x * dims[i] + index[i] \in Nat
  BY <1>1, <1>2
<1>4. g \in [Nat \X (1 .. d) -> Nat]
      /\ \A x \in Nat, i \in 1 .. d : g[<<x, i>>] = x * dims[i] + index[i]
  BY <1>3
<1> HIDE DEF g
<1>5. d \in Nat /\ 0 \in Nat
  BY <1>1
<1>6. PICK h : Iterates(h, d, Nat, 0, g)
  BY <1>4, <1>5, StepsExist
<1>7. ASSUME NEW i \in 1 .. d PROVE h[i] = h[i - 1] * dims[i] + index[i]
  <2>1. i - 1 \in 0 .. d
    BY <1>5
  <2>2. h[i - 1] \in Nat /\ h[i] = g[<<h[i - 1], i>>]
    BY <1>6, <2>1 DEF Iterates
  <2> QED
    BY <1>4, <2>2
<1> QED
  BY <1>6, <1>7 DEF Iterates, Flats, d

(* flat_index by the dimensions, whatever h it is that says so.             *)
LEMMA FlatIs ==
  ASSUME NEW dims \in Extents, NEW index \in [1 .. Len(dims) -> Nat],
         NEW h, Flats(h, dims, index)
  PROVE  FlatIndex(dims, index) = h[Len(dims)]
<1> DEFINE d == Len(dims)
           r == CHOOSE f : FlatBy(f, dims, index)
           q == [i \in 1 .. d |-> h[i]]
           v == [i \in 1 .. d |-> IF i = 1 THEN index[1] ELSE q[i-1] * dims[i] + index[i]]
           C == {i \in 0 .. d : i # 0 => r[i] = h[i]}
<1>1. d \in Nat \ {0} /\ (\A i \in 1 .. d : dims[i] \in Nat)
      /\ \A i \in 1 .. d : index[i] \in Nat
  BY ExtentsAre
<1>2. /\ \A i \in 0 .. d : h[i] \in Nat
      /\ h[0] = 0 /\ \A i \in 1 .. d : h[i] = h[i - 1] * dims[i] + index[i]
  BY DEF Flats
<1> HIDE DEF d
<1>3. h[1] = index[1]
  <2>1. 1 \in 1 .. d /\ 1 - 1 = 0 /\ h[1] \in Nat /\ dims[1] \in Nat /\ index[1] \in Nat
    BY <1>1, <1>2
  <2>2. h[1] = 0 * dims[1] + index[1]
    BY <1>2, <2>1
  <2>3. 0 * dims[1] = 0
    BY <2>1
  <2> QED
    BY <2>1, <2>2, <2>3
<1>4. FlatBy(q, dims, index)
  <2>1. ASSUME NEW i \in 1 .. d PROVE q[i] = v[i]
    <3>1. i # 1 => i - 1 \in 1 .. d
      BY <1>1
    <3> QED
      BY <1>2, <1>3, <3>1
  <2>2. q = [i \in 1 .. d |-> q[i]] /\ v = [i \in 1 .. d |-> v[i]]
    OBVIOUS
  <2>3. q = v
    <3> HIDE DEF q, v
    <3> QED
      BY <2>1, <2>2
  <2> HIDE DEF q
  <2> QED
    BY <2>3 DEF FlatBy, d
<1>5. FlatBy(r, dims, index)
  BY <1>4
<1> HIDE DEF r
<1>6. \A i \in 1 .. d : r[i] = IF i = 1 THEN index[1] ELSE r[i - 1] * dims[i] + index[i]
  BY <1>5 DEF FlatBy, d
<1>7. ASSUME NEW i \in 0 .. d, i # 0, i - 1 \in C PROVE i \in C
  <2>1. i \in 1 .. d
    BY <1>1, <1>7
  <2>2. CASE i = 1
    BY <1>3, <1>6, <2>1, <2>2
  <2>3. CASE i # 1
    <3>1. r[i - 1] = h[i - 1]
      BY <1>7, <2>1, <2>3
    <3> QED
      BY <1>2, <1>6, <2>1, <2>3, <3>1
  <2> QED
    BY <2>2, <2>3
<1>8. C = 0 .. d
  <2>1. C \in SUBSET (0 .. d) /\ 0 \in C /\ d \in Nat
    BY <1>1
  <2> HIDE DEF C
  <2> QED
    BY <1>7, <2>1, UpTo
<1>9. r[d] = h[d]
  BY <1>1, <1>8
<1> QED
  BY <1>9, FlatIndexIs DEF r, d

(* The indices: below the extent in each dimension.                         *)
LEMMA IndicesAre ==
  ASSUME NEW dims \in Extents
  PROVE  /\ Indices(dims) \subseteq [1 .. Len(dims) -> Nat]
         /\ \A index \in [1 .. Len(dims) -> Nat] :
              index \in Indices(dims) <=> \A i \in 1 .. Len(dims) : index[i] < dims[i]
<1> DEFINE d == Len(dims)
           R == Range(dims)
           C == {i \in 0 .. d : \E b \in Nat : \A j \in 1 .. i : dims[j] <= b}
<1>1. d \in Nat \ {0} /\ DOMAIN dims = 1 .. d /\ \A i \in 1 .. d : dims[i] \in Nat \ {0}
  BY ExtentsAre
<1> HIDE DEF d
<1>2. 0 \in C
  BY <1>1
<1>3. ASSUME NEW i \in 0 .. d, i # 0, i - 1 \in C PROVE i \in C
  <2>1. PICK b \in Nat : \A j \in 1 .. i - 1 : dims[j] <= b
    BY <1>3
  <2>2. i \in 1 .. d /\ dims[i] \in Nat /\ b + dims[i] \in Nat
    BY <1>1, <1>3
  <2>3. ASSUME NEW j \in 1 .. i PROVE dims[j] <= b + dims[i]
    <3>1. j \in 1 .. i - 1 \/ j = i
      BY <2>2
    <3>2. j \in 1 .. d /\ dims[j] \in Nat
      BY <1>1, <2>2
    <3> QED
      BY <2>1, <2>2, <3>1, <3>2
  <2> QED
    BY <2>2, <2>3
<1>4. C = 0 .. d
  <2>1. C \in SUBSET (0 .. d) /\ d \in Nat
    BY <1>1
  <2> HIDE DEF C
  <2> QED
    BY <1>2, <1>3, <2>1, UpTo
<1>5. PICK b \in Nat : \A j \in 1 .. d : dims[j] <= b
  <2>1. d \in 0 .. d
    BY <1>1
  <2>2. d \in C
    <3> HIDE DEF C
    <3> QED
      BY <1>4, <2>1
  <2> QED
    BY <2>2
<1>6. R = {dims[i] : i \in 1 .. d}
  BY <1>1 DEF Range
<1>7. R \in SUBSET (1 .. b) /\ dims[1] \in R
  BY <1>1, <1>5, <1>6
<1> HIDE DEF R
<1>8. Max(R) \in R /\ \A y \in R : y <= Max(R)
  BY <1>7, EndsAreIn
<1>9. Max(R) \in Nat
  <2> DEFINE top == Max(R)
  <2>1. top \in R
    BY <1>8
  <2>2. 1 .. b \subseteq Nat
    OBVIOUS
  <2> HIDE DEF top
  <2>3. top \in Nat
    BY <1>7, <2>1, <2>2
  <2> QED
    BY <2>3 DEF top
<1> DEFINE top == Max(R)
<1>10. top \in Nat /\ \A i \in 1 .. d : dims[i] <= top
  BY <1>6, <1>8, <1>9
<1>11. Indices(dims) = {ix \in [1 .. d -> 0 .. top] : \A i \in 1 .. d : ix[i] < dims[i]}
  BY <1>1 DEF Indices, R, d
<1> HIDE DEF top
<1>12. ASSUME NEW index \in [1 .. d -> Nat], \A i \in 1 .. d : index[i] < dims[i]
       PROVE  index \in [1 .. d -> 0 .. top]
  <2>1. ASSUME NEW i \in 1 .. d PROVE index[i] \in 0 .. top
    <3>1. index[i] \in Nat /\ index[i] < dims[i] /\ dims[i] <= top /\ dims[i] \in Nat
      BY <1>1, <1>10, <1>12
    <3> QED
      BY <1>10, <3>1
  <2> QED
    BY <2>1
<1>13. [1 .. d -> 0 .. top] \subseteq [1 .. d -> Nat]
  BY <1>10
<1>14. Indices(dims) \subseteq [1 .. d -> Nat]
  BY <1>11, <1>13
<1>15. \A index \in [1 .. d -> Nat] :
         index \in Indices(dims) <=> \A i \in 1 .. d : index[i] < dims[i]
  BY <1>11, <1>12
<1> QED
  BY <1>14, <1>15 DEF d

(* The number of the places in the first i dimensions.                      *)
Sizes(p, dims) ==
  /\ p \in [0 .. Len(dims) -> Nat] /\ p[0] = 1
  /\ \A i \in 1 .. Len(dims) : p[i] = p[i - 1] * dims[i]
  /\ LongProduct(dims) = p[Len(dims)]

LEMMA SizesExist ==
  ASSUME NEW dims \in Extents
  PROVE  \E p : Sizes(p, dims)
<1> DEFINE d == Len(dims)
<1>1. d \in Nat \ {0} /\ \A i \in 1 .. d : dims[i] \in Nat
  BY ExtentsAre
<1>2. PICK h : /\ h[0] = 1
               /\ \A i \in 1 .. d : h[i] = h[i - 1] * dims[i]
               /\ LongProduct(dims) = h[d]
  BY ExtentsAre, ProductIs
<1> HIDE DEF d
<1> DEFINE p == [i \in 0 .. d |-> h[i]]
           C == {i \in 0 .. d : h[i] \in Nat}
<1>3. 0 \in C
  BY <1>1, <1>2
<1>4. ASSUME NEW i \in 0 .. d, i # 0, i - 1 \in C PROVE i \in C
  <2>1. i \in 1 .. d /\ h[i - 1] \in Nat /\ dims[i] \in Nat
    BY <1>1, <1>4
  <2> QED
    BY <1>2, <2>1
<1>5. C = 0 .. d
  <2>1. C \in SUBSET (0 .. d) /\ d \in Nat
    BY <1>1
  <2> HIDE DEF C
  <2> QED
    BY <1>3, <1>4, <2>1, UpTo
<1>6. p \in [0 .. d -> Nat]
  BY <1>5
<1>7. p[0] = 1 /\ p[d] = h[d] /\ \A i \in 1 .. d : p[i] = h[i] /\ p[i - 1] = h[i - 1]
  <2>1. 0 \in 0 .. d /\ d \in 0 .. d /\ \A i \in 1 .. d : i \in 0 .. d /\ i - 1 \in 0 .. d
    BY <1>1
  <2> QED
    BY <1>2, <2>1
<1> HIDE DEF p
<1> QED
  BY <1>2, <1>6, <1>7 DEF Sizes, d

(* What is in the last place of a number leaves the rest of it alone.       *)
LEMMA BelowTheNext ==
  ASSUME NEW a \in Nat, NEW b \in Nat, NEW n \in Nat, NEW x \in Nat, a < b, x < n
  PROVE  a * n + x < b * n
<1> DEFINE c == b - a - 1
<1>1. c \in Nat /\ b = a + 1 + c
  OBVIOUS
<1> HIDE DEF c
<1>2. b * n = a * n + n + c * n
  BY <1>1
<1>3. c * n \in Nat /\ a * n \in Nat
  BY <1>1
<1> QED
  BY <1>2, <1>3

LEMMA SamePlaces ==
  ASSUME NEW a \in Nat, NEW b \in Nat, NEW n \in Nat,
         NEW x \in Nat, NEW y \in Nat, x < n, y < n, a * n + x = b * n + y
  PROVE  a = b /\ x = y
<1>1. a * n \in Nat /\ b * n \in Nat
  OBVIOUS
<1>2. ~(a < b)
  <2>1. SUFFICES ASSUME a < b PROVE FALSE
    OBVIOUS
  <2>2. a * n + x < b * n
    BY <2>1, BelowTheNext
  <2> QED
    BY <1>1, <2>2
<1>3. ~(b < a)
  <2>1. SUFFICES ASSUME b < a PROVE FALSE
    OBVIOUS
  <2>2. b * n + y < a * n
    BY <2>1, BelowTheNext
  <2> QED
    BY <1>1, <2>2
<1>4. a = b
  BY <1>2, <1>3
<1> QED
  BY <1>1, <1>4

(* Each index is below the number of the places.                            *)
LEMMA FlatsAreBelow ==
  ASSUME NEW dims \in Extents, NEW index \in Indices(dims),
         NEW h, Flats(h, dims, index), NEW p, Sizes(p, dims)
  PROVE  h[Len(dims)] \in 0 .. p[Len(dims)] - 1
<1> DEFINE d == Len(dims)
           C == {i \in 0 .. d : h[i] < p[i]}
<1>1. d \in Nat \ {0} /\ \A i \in 1 .. d : dims[i] \in Nat
  BY ExtentsAre
<1>2. \A i \in 1 .. d : index[i] \in Nat /\ index[i] < dims[i]
  BY IndicesAre
<1>3. /\ \A i \in 0 .. d : h[i] \in Nat
      /\ h[0] = 0
      /\ \A i \in 1 .. d : h[i] = h[i - 1] * dims[i] + index[i]
  BY DEF Flats
<1>4. /\ \A i \in 0 .. d : p[i] \in Nat
      /\ p[0] = 1
      /\ \A i \in 1 .. d : p[i] = p[i - 1] * dims[i]
  BY DEF Sizes
<1> HIDE DEF d
<1>5. 0 \in C
  BY <1>1, <1>3, <1>4
<1>6. ASSUME NEW i \in 0 .. d, i # 0, i - 1 \in C PROVE i \in C
  <2> DEFINE a == h[i - 1]
             b == p[i - 1]
  <2>1. i \in 1 .. d /\ i - 1 \in 0 .. d
    BY <1>1, <1>6
  <2>2. a \in Nat /\ b \in Nat /\ a < b
    BY <1>3, <1>4, <1>6, <2>1
  <2>3. dims[i] \in Nat /\ index[i] \in Nat /\ index[i] < dims[i]
    BY <1>1, <1>2, <2>1
  <2>4. h[i] = a * dims[i] + index[i] /\ p[i] = b * dims[i]
    BY <1>3, <1>4, <2>1
  <2> HIDE DEF a, b
  <2>5. a * dims[i] + index[i] < b * dims[i]
    BY <2>2, <2>3, BelowTheNext
  <2> QED
    BY <2>4, <2>5
<1>7. C = 0 .. d
  <2>1. C \in SUBSET (0 .. d) /\ 0 \in C /\ d \in Nat
    BY <1>1, <1>5
  <2> HIDE DEF C
  <2> QED
    BY <1>6, <2>1, UpTo
<1>8. d \in 0 .. d
  BY <1>1
<1>9. h[d] < p[d]
  BY <1>7, <1>8
<1>10. h[d] \in Nat /\ p[d] \in Nat
  BY <1>3, <1>4, <1>8
<1>11. h[d] \in 0 .. p[d] - 1
  BY <1>9, <1>10
<1> QED
  BY <1>11 DEF d

(* No two indices have the same place.                                      *)
LEMMA FlatsTell ==
  ASSUME NEW dims \in Extents, NEW x \in Indices(dims), NEW y \in Indices(dims),
         NEW f, Flats(f, dims, x), NEW g, Flats(g, dims, y),
         f[Len(dims)] = g[Len(dims)]
  PROVE  x = y
<1> DEFINE d == Len(dims)
           C == {i \in 0 .. d : f[d - i] = g[d - i]}
<1>1. d \in Nat \ {0} /\ (\A i \in 1 .. d : dims[i] \in Nat) /\ f[d] = g[d]
  BY ExtentsAre
<1>2. /\ x \in [1 .. d -> Nat] /\ y \in [1 .. d -> Nat]
      /\ \A i \in 1 .. d : x[i] \in Nat /\ x[i] < dims[i] /\ y[i] \in Nat /\ y[i] < dims[i]
  BY IndicesAre
<1>3. /\ \A i \in 0 .. d : f[i] \in Nat /\ g[i] \in Nat
      /\ \A i \in 1 .. d : /\ f[i] = f[i - 1] * dims[i] + x[i]
                           /\ g[i] = g[i - 1] * dims[i] + y[i]
  BY DEF Flats
<1> HIDE DEF d
<1>4. ASSUME NEW i \in 1 .. d, f[i] = g[i] PROVE f[i - 1] = g[i - 1] /\ x[i] = y[i]
  <2> DEFINE a == f[i - 1]
             b == g[i - 1]
             n == dims[i]
             r == x[i]
             s == y[i]
  <2>1. i - 1 \in 0 .. d
    BY <1>1
  <2>2. /\ a \in Nat /\ b \in Nat /\ n \in Nat
        /\ r \in Nat /\ r < n /\ s \in Nat /\ s < n
    BY <1>1, <1>2, <1>3, <2>1
  <2>3. a * n + r = b * n + s
    BY <1>3, <1>4
  <2> HIDE DEF a, b, n, r, s
  <2>4. a = b /\ r = s
    BY <2>2, <2>3, SamePlaces
  <2> QED
    BY <2>4 DEF a, b, r, s
<1>5. 0 \in C
  BY <1>1
<1>6. ASSUME NEW i \in 0 .. d, i # 0, i - 1 \in C PROVE i \in C
  <2>1. d - (i - 1) \in 1 .. d /\ d - (i - 1) - 1 = d - i
    BY <1>1, <1>6
  <2>2. f[d - (i - 1)] = g[d - (i - 1)]
    BY <1>6
  <2>3. f[d - (i - 1) - 1] = g[d - (i - 1) - 1]
    BY <1>4, <2>1, <2>2
  <2> QED
    BY <2>1, <2>3
<1>7. C = 0 .. d
  <2>1. C \in SUBSET (0 .. d) /\ d \in Nat
    BY <1>1
  <2> HIDE DEF C
  <2> QED
    BY <1>5, <1>6, <2>1, UpTo
<1>8. ASSUME NEW i \in 1 .. d PROVE x[i] = y[i]
  <2>1. d - i \in 0 .. d /\ d - (d - i) = i
    BY <1>1
  <2>2. f[d - (d - i)] = g[d - (d - i)]
    BY <1>7, <2>1
  <2>3. f[i] = g[i]
    BY <2>1, <2>2
  <2> QED
    BY <1>4, <2>3
<1>9. x = [i \in 1 .. d |-> x[i]] /\ y = [i \in 1 .. d |-> y[i]]
  BY <1>2
<1> QED
  BY <1>8, <1>9

(* Every place has an index.                                                *)
LEMMA FlatsReach ==
  ASSUME NEW dims \in Extents, NEW p, Sizes(p, dims),
         NEW v \in 0 .. p[Len(dims)] - 1
  PROVE  \E index \in Indices(dims) : \E h : Flats(h, dims, index) /\ h[Len(dims)] = v
<1> DEFINE d == Len(dims)
           g == [q \in Nat \X (1 .. d) |-> q[1] \div dims[d + 1 - q[2]]]
<1>1. d \in Nat \ {0} /\ \A i \in 1 .. d : dims[i] \in Nat \ {0}
  BY ExtentsAre
<1>2. /\ \A i \in 0 .. d : p[i] \in Nat
      /\ p[0] = 1
      /\ \A i \in 1 .. d : p[i] = p[i - 1] * dims[i]
      /\ v \in 0 .. p[d] - 1
  BY DEF Sizes
<1> HIDE DEF d
<1>3. v \in Nat /\ v < p[d]
  BY <1>1, <1>2
<1>4. ASSUME NEW a \in Nat, NEW i \in 1 .. d PROVE a \div dims[d + 1 - i] \in Nat
  <2>1. d + 1 - i \in 1 .. d
    BY <1>1
  <2>2. dims[d + 1 - i] \in Nat \ {0}
    BY <1>1, <2>1
  <2> DEFINE n == dims[d + 1 - i]
  <2> HIDE DEF n
  <2>3. n \in Nat \ {0} => a \div n \in Nat
    OBVIOUS
  <2> QED
    BY <2>2, <2>3 DEF n
<1>5. g \in [Nat \X (1 .. d) -> Nat]
      /\ \A a \in Nat, i \in 1 .. d : g[<<a, i>>] = a \div dims[d + 1 - i]
  BY <1>4
<1> HIDE DEF g
<1>6. d \in Nat
  BY <1>1
<1>7. PICK u : Iterates(u, d, Nat, v, g)
  BY <1>3, <1>5, <1>6, StepsExist
<1> DEFINE h == [i \in 0 .. d |-> u[d - i]]
           index == [i \in 1 .. d |-> h[i] % dims[i]]
<1>8. ASSUME NEW i \in 0 .. d PROVE h[i] \in Nat
  <2>1. d - i \in 0 .. d
    BY <1>1
  <2>2. u[d - i] \in Nat
    BY <1>7, <2>1 DEF Iterates
  <2> QED
    BY <2>2
<1>9. h[d] = v
  <2>1. u[0] = v /\ d \in 0 .. d /\ d - d = 0
    BY <1>1, <1>7 DEF Iterates
  <2> QED
    BY <2>1
<1>10. ASSUME NEW i \in 1 .. d PROVE h[i - 1] = h[i] \div dims[i]
  <2> DEFINE k == d + 1 - i
  <2>1. k \in 1 .. d /\ k - 1 \in 0 .. d /\ d - i = k - 1 /\ d - (i - 1) = k
        /\ d + 1 - k = i /\ i - 1 \in 0 .. d /\ i \in 0 .. d
    BY <1>1
  <2>2. h[i - 1] = u[k] /\ h[i] = u[k - 1]
    <3> HIDE DEF k
    <3> QED
      BY <2>1
  <2> HIDE DEF k, h
  <2>3. u[k - 1] \in Nat /\ u[k] = g[<<u[k - 1], k>>]
    BY <1>7, <2>1 DEF Iterates
  <2>4. u[k] = u[k - 1] \div dims[d + 1 - k]
    BY <1>5, <2>1, <2>3
  <2> QED
    BY <2>1, <2>2, <2>4
<1>11. h = [i \in 0 .. d |-> h[i]]
  OBVIOUS
<1> HIDE DEF h
<1>12. ASSUME NEW i \in 1 .. d
       PROVE  /\ index[i] \in Nat /\ index[i] < dims[i]
              /\ h[i] = h[i - 1] * dims[i] + index[i]
  <2> DEFINE a == h[i]
             n == dims[i]
             c == h[i - 1]
             r == index[i]
  <2>1. a \in Nat /\ n \in Nat \ {0} /\ c = a \div n /\ r = a % n /\ c \in Nat
    <3>1. i \in 0 .. d /\ i - 1 \in 0 .. d
      BY <1>1
    <3> QED
      BY <1>1, <1>8, <1>10, <3>1
  <2> HIDE DEF a, n, c, r
  <2>2. a \in Int
    BY <2>1
  <2>3. a % n \in 0 .. n - 1 /\ a = n * (a \div n) + (a % n)
    BY <2>1, <2>2, DivisionFacts
  <2>4. r \in 0 .. n - 1 /\ a = n * c + r
    BY <2>1, <2>3
  <2>5. n * c = c * n
    BY <2>1
  <2>6. r \in Nat /\ r < n /\ a = c * n + r
    BY <2>1, <2>4, <2>5
  <2> QED
    BY <2>6 DEF a, n, c, r
<1>13. index \in [1 .. d -> Nat]
  <2>1. index = [i \in 1 .. d |-> index[i]]
    OBVIOUS
  <2> HIDE DEF index
  <2> QED
    BY <1>12, <2>1
<1> HIDE DEF index
<1> DEFINE C == {i \in 0 .. d : h[d - i] < p[d - i]}
<1>14. 0 \in C
  <2>1. 0 \in 0 .. d /\ d - 0 = d
    BY <1>1
  <2> QED
    BY <1>3, <1>9, <2>1
<1>15. ASSUME NEW i \in 0 .. d, i # 0, i - 1 \in C PROVE i \in C
  <2> DEFINE k == d - (i - 1)
             a == h[k - 1]
             b == p[k - 1]
             n == dims[k]
             r == index[k]
  <2>1. k \in 1 .. d /\ k - 1 = d - i /\ k - 1 \in 0 .. d /\ k \in 0 .. d
    BY <1>1, <1>15
  <2>2. h[k] < p[k]
    BY <1>15
  <2> HIDE DEF k
  <2>3. a \in Nat /\ b \in Nat /\ n \in Nat /\ r \in Nat
    BY <1>1, <1>2, <1>8, <1>12, <2>1
  <2>4. h[k] = a * n + r /\ p[k] = b * n
    BY <1>2, <1>12, <2>1
  <2>5. a * n + r < b * n
    BY <2>2, <2>4
  <2> HIDE DEF a, b, n, r
  <2>6. a < b
    <3>1. SUFFICES ASSUME b <= a PROVE FALSE
      BY <2>3
    <3> DEFINE c == a - b
    <3>2. c \in Nat /\ a = b + c
      BY <2>3, <3>1
    <3> HIDE DEF c
    <3>3. a * n = b * n + c * n
      BY <2>3, <3>2
    <3>4. c * n \in Nat /\ b * n \in Nat
      BY <2>3, <3>2
    <3> QED
      BY <2>3, <2>5, <3>3, <3>4
  <2>7. h[d - i] < p[d - i]
    BY <2>1, <2>6 DEF a, b
  <2> QED
    BY <2>7
<1>16. C = 0 .. d
  <2>1. C \in SUBSET (0 .. d) /\ d \in Nat
    BY <1>1
  <2> HIDE DEF C
  <2> QED
    BY <1>14, <1>15, <2>1, UpTo
<1>17. h[0] = 0
  <2>1. d \in 0 .. d /\ d - d = 0 /\ 0 \in 0 .. d
    BY <1>1
  <2>2. h[d - d] < p[d - d]
    BY <1>16, <2>1
  <2>3. h[0] \in Nat /\ h[0] < 1
    BY <1>2, <1>8, <2>1, <2>2
  <2> QED
    BY <2>3
<1>18. h \in [0 .. d -> Nat]
  BY <1>8, <1>11
<1>19. Flats(h, dims, index)
  BY <1>12, <1>17, <1>18 DEF Flats, d
<1>20. index \in Indices(dims)
  BY <1>12, <1>13, IndicesAre DEF d
<1> QED
  BY <1>9, <1>19, <1>20 DEF d

(* One less in the last dimension is one place before.                      *)
LEMMA FlatsFollow ==
  ASSUME NEW dims \in Extents, NEW index \in Indices(dims), index[Len(dims)] > 0
  PROVE  LET below == [index EXCEPT ![Len(dims)] = @ - 1]
         IN  /\ below \in Indices(dims)
             /\ FlatIndex(dims, index) = FlatIndex(dims, below) + 1
<1> DEFINE d == Len(dims)
           below == [index EXCEPT ![d] = @ - 1]
<1>1. d \in Nat \ {0} /\ \A i \in 1 .. d : dims[i] \in Nat \ {0}
  BY ExtentsAre
<1>2. index \in [1 .. d -> Nat] /\ \A i \in 1 .. d : index[i] < dims[i]
  BY IndicesAre
<1>3. PICK h : Flats(h, dims, index)
  BY <1>2, FlatsExist
<1>4. /\ h \in [0 .. d -> Nat] /\ h[0] = 0
      /\ \A i \in 1 .. d : h[i] = h[i - 1] * dims[i] + index[i]
  BY <1>3 DEF Flats
<1>5. FlatIndex(dims, index) = h[d]
  BY <1>2, <1>3, FlatIs
<1>6. index[d] > 0
  OBVIOUS
<1> HIDE DEF d
<1>7. d \in 1 .. d /\ d \in 0 .. d /\ d - 1 \in 0 .. d
  BY <1>1
<1>8. below[d] = index[d] - 1 /\ \A i \in 1 .. d : i # d => below[i] = index[i]
  BY <1>2, <1>7
<1>9. index[d] \in Nat /\ below[d] \in Nat /\ below[d] < dims[d] /\ dims[d] \in Nat
  BY <1>1, <1>2, <1>6, <1>7, <1>8
<1>10. ASSUME NEW i \in 1 .. d PROVE below[i] \in Nat /\ below[i] < dims[i]
  BY <1>2, <1>8, <1>9
<1>11. below \in [1 .. d -> Nat]
  <2>1. below = [i \in 1 .. d |-> below[i]]
    BY <1>2
  <2> HIDE DEF below
  <2> QED
    BY <1>10, <2>1
<1> HIDE DEF below
<1>12. below \in Indices(dims)
  BY <1>10, <1>11, IndicesAre DEF d
<1> DEFINE g == [h EXCEPT ![d] = @ - 1]
<1>13. g[d] = h[d] - 1 /\ \A i \in 0 .. d : i # d => g[i] = h[i]
  BY <1>4, <1>7
<1>14. h[d] = h[d - 1] * dims[d] + index[d] /\ h[d - 1] * dims[d] \in Nat
  <2>1. h[d - 1] \in Nat
    BY <1>4, <1>7
  <2> DEFINE a == h[d - 1]
             n == dims[d]
  <2>2. a \in Nat /\ n \in Nat
    BY <1>9, <2>1
  <2> HIDE DEF a, n
  <2>3. a * n \in Nat
    BY <2>2
  <2> QED
    BY <1>4, <1>7, <2>3 DEF a, n
<1>15. h[d] \in Nat /\ g[d] \in Nat
  <2> DEFINE c == h[d - 1] * dims[d]
  <2>1. c \in Nat /\ h[d] = c + index[d]
    BY <1>14
  <2> HIDE DEF c
  <2> QED
    BY <1>6, <1>9, <1>13, <2>1
<1>16. g \in [0 .. d -> Nat]
  <2>1. g = [i \in 0 .. d |-> g[i]]
    BY <1>4
  <2>2. \A i \in 0 .. d : g[i] \in Nat
    BY <1>4, <1>13, <1>15
  <2> HIDE DEF g
  <2> QED
    BY <2>1, <2>2
<1> HIDE DEF g
<1>17. g[0] = 0
  <2>1. 0 \in 0 .. d /\ 0 # d
    BY <1>1
  <2> QED
    BY <1>4, <1>13, <2>1
<1>18. ASSUME NEW i \in 1 .. d PROVE g[i] = g[i - 1] * dims[i] + below[i]
  <2>1. i \in 0 .. d /\ i - 1 \in 0 .. d /\ i - 1 # d
    BY <1>1
  <2>2. g[i - 1] = h[i - 1]
    BY <1>13, <2>1
  <2>3. CASE i # d
    <3>1. g[i] = h[i] /\ below[i] = index[i]
      BY <1>8, <1>13, <2>1, <2>3
    <3> QED
      BY <1>4, <2>2, <3>1
  <2>4. CASE i = d
    <3> DEFINE c == h[d - 1] * dims[d]
    <3>1. c \in Nat /\ h[d] = c + index[d]
      BY <1>14
    <3>2. g[d - 1] * dims[d] = c
      BY <2>2, <2>4
    <3> HIDE DEF c
    <3>3. g[d] = c + below[d]
      BY <1>8, <1>9, <1>13, <3>1
    <3> QED
      BY <2>4, <3>2, <3>3
  <2> QED
    BY <2>3, <2>4
<1>19. Flats(g, dims, below)
  BY <1>16, <1>17, <1>18 DEF Flats, d
<1>20. FlatIndex(dims, below) = g[d]
  BY <1>11, <1>19, FlatIs DEF d
<1>21. FlatIndex(dims, index) = FlatIndex(dims, below) + 1
  BY <1>5, <1>13, <1>15, <1>20
<1> QED
  BY <1>12, <1>21 DEF below, d

(* Where each index is: for each place one index, and no other.             *)
Fills(where, dims) ==
  /\ DOMAIN where = Indices(dims)
  /\ Range(where) = 0 .. LongProduct(dims) - 1
  /\ Cardinality(Indices(dims)) = LongProduct(dims)

LEMMA IndicesFill ==
  ASSUME NEW dims \in Extents
  PROVE  Fills([index \in Indices(dims) |-> FlatIndex(dims, index)], dims)
<1> DEFINE I == Indices(dims)
           where == [index \in I |-> FlatIndex(dims, index)]
           n == LongProduct(dims)
           V == 0 .. n - 1
<1>1. PICK p : Sizes(p, dims)
  BY SizesExist
<1>2. n = p[Len(dims)] /\ n \in Nat
  <2>1. Len(dims) \in 0 .. Len(dims)
    BY ExtentsAre
  <2> QED
    BY <1>1, <2>1 DEF Sizes
<1>3. ASSUME NEW x \in I
      PROVE  \E h : Flats(h, dims, x) /\ FlatIndex(dims, x) = h[Len(dims)]
  <2>1. x \in [1 .. Len(dims) -> Nat]
    BY IndicesAre
  <2>2. PICK h : Flats(h, dims, x)
    BY <2>1, FlatsExist
  <2> QED
    BY <2>1, <2>2, FlatIs
<1>4. ASSUME NEW x \in I PROVE where[x] \in V
  <2>1. PICK h : Flats(h, dims, x) /\ FlatIndex(dims, x) = h[Len(dims)]
    BY <1>3
  <2>2. h[Len(dims)] \in 0 .. p[Len(dims)] - 1
    BY <1>1, <2>1, FlatsAreBelow
  <2> QED
    BY <1>2, <2>1, <2>2
<1>5. ASSUME NEW x \in I, NEW y \in I, where[x] = where[y] PROVE x = y
  <2>1. PICK f : Flats(f, dims, x) /\ FlatIndex(dims, x) = f[Len(dims)]
    BY <1>3
  <2>2. PICK g : Flats(g, dims, y) /\ FlatIndex(dims, y) = g[Len(dims)]
    BY <1>3
  <2>3. f[Len(dims)] = g[Len(dims)]
    BY <1>5, <2>1, <2>2
  <2> QED
    BY <2>1, <2>2, <2>3, FlatsTell
<1>6. ASSUME NEW v \in V PROVE \E x \in I : where[x] = v
  <2>1. v \in 0 .. p[Len(dims)] - 1
    BY <1>2
  <2>2. PICK x \in I : \E h : Flats(h, dims, x) /\ h[Len(dims)] = v
    BY <1>1, <2>1, FlatsReach
  <2>3. PICK h : Flats(h, dims, x) /\ h[Len(dims)] = v
    BY <2>2
  <2>4. x \in [1 .. Len(dims) -> Nat]
    BY IndicesAre
  <2>5. FlatIndex(dims, x) = v
    BY <2>3, <2>4, FlatIs
  <2> QED
    BY <2>5
<1>7. DOMAIN where = I
  OBVIOUS
<1> HIDE DEF where, I, n
<1> DEFINE at == [v \in V |-> CHOOSE x \in I : where[x] = v]
<1>8. ASSUME NEW v \in V PROVE at[v] \in I /\ where[at[v]] = v
  BY <1>6
<1>9. at \in [V -> I]
  BY <1>8
<1> HIDE DEF at, V
<1>10. at \in Bijection(V, I)
  <2>1. \A u, v \in V : at[u] = at[v] => u = v
    BY <1>8
  <2>2. \A x \in I : \E v \in V : at[v] = x
    <3>1. ASSUME NEW x \in I PROVE where[x] \in V /\ at[where[x]] = x
      <4>1. where[x] \in V
        BY <1>4
      <4>2. at[where[x]] \in I /\ where[at[where[x]]] = where[x]
        BY <1>8, <4>1
      <4> QED
        BY <1>5, <4>1, <4>2
    <3> QED
      BY <3>1
  <2> QED
    BY <1>9, <2>1, <2>2 DEF Bijection, Injection, Surjection, IsInjective
<1>11. ExistsBijection(V, I)
  BY <1>10 DEF ExistsBijection
<1>12. IsFiniteSet(V) /\ Cardinality(V) = n
  <2>1. 0 \in Int /\ n - 1 \in Int
    BY <1>2
  <2>2. IsFiniteSet(0 .. n - 1)
        /\ Cardinality(0 .. n - 1) = IF 0 > n - 1 THEN 0 ELSE n - 1 - 0 + 1
    BY <2>1, FS_Interval
  <2> QED
    BY <1>2, <2>2 DEF V
<1>13. Cardinality(I) = n
  BY <1>11, <1>12, FS_Bijection
<1>14. Range(where) = V
  BY <1>4, <1>6, <1>7 DEF Range
<1>15. Fills(where, dims)
  BY <1>7, <1>13, <1>14 DEF Fills, I, V, n
<1> QED
  BY <1>15 DEF where, I

-----------------------------------------------------------------------------
(* Any tuple                                                               *)

ReadsAnyTuple ==
  \E text \in Seq(Symbols), size \in Nat \ {0} :
    Called([name |-> "readTuple", text |-> text, size |-> size],
           Accepts(text, size))

WritesAnyTuple ==
  \E size \in Nat \ {0} :
    Called([name |-> "writeTuple", size |-> size],
           WriteTuple([i \in 1 .. size |-> "n"]))

FlattensAnyIndices ==
  \E dims \in Extents :
    Called([name |-> "flatIndex", dims |-> dims],
           [index \in Indices(dims) |-> FlatIndex(dims, index)])

TuplesSpec ==
  CallsInit /\ [][ReadsAnyTuple \/ WritesAnyTuple \/ FlattensAnyIndices]_<<call, result>>

LEMMA ReadIsUnderstood == ReadsAnyTuple => TuplesAreUnderstood'
<1> SUFFICES ASSUME ReadsAnyTuple PROVE TuplesAreUnderstood'
  OBVIOUS
<1>1. PICK text \in Seq(Symbols), size \in Nat \ {0} :
        Called([name |-> "readTuple", text |-> text, size |-> size],
               Accepts(text, size))
  BY Zenon DEF ReadsAnyTuple
<1>2. /\ call' = [name |-> "readTuple", text |-> text, size |-> size]
      /\ result' = Accepts(text, size)
  BY <1>1 DEF Called
<1>3. call'.name = "readTuple" /\ call'.text = text /\ call'.size = size
  BY <1>2
<1>4. result' = WellFormed(text, size)
  <2>1. Accepts(text, size) <=> WellFormed(text, size)
    BY AcceptsWellFormed
  <2>2. Accepts(text, size) \in BOOLEAN
    BY Zenon DEF Accepts
  <2>3. WellFormed(text, size) \in BOOLEAN
    BY Zenon DEF WellFormed
  <2>4. \A a, b \in BOOLEAN : (a <=> b) => a = b
    OBVIOUS
  <2>5. Accepts(text, size) = WellFormed(text, size)
    BY Zenon, <2>1, <2>2, <2>3, <2>4
  <2> QED
    BY <1>2, <2>5
<1> QED
  BY <1>3, <1>4 DEF TuplesAreUnderstood

LEMMA WrittenIsUnderstood == WritesAnyTuple => TuplesAreUnderstood'
<1> SUFFICES ASSUME WritesAnyTuple PROVE TuplesAreUnderstood'
  OBVIOUS
<1>1. PICK size \in Nat \ {0} :
        Called([name |-> "writeTuple", size |-> size],
               WriteTuple([i \in 1 .. size |-> "n"]))
  BY Zenon DEF WritesAnyTuple
<1> DEFINE text == WriteTuple([i \in 1 .. size |-> "n"])
<1>2. text \in Seq(Symbols) /\ WellFormed(text, size)
  BY WrittenIsWellFormed
<1>3. /\ call' = [name |-> "writeTuple", size |-> size]
      /\ result' = text
  BY <1>1 DEF Called
<1> HIDE DEF text
<1>4. call'.name = "writeTuple" /\ call'.size = size
  BY <1>3
<1>5. Accepts(text, size)
  BY <1>2, AcceptsWellFormed
<1> QED
  BY <1>3, <1>4, <1>5 DEF TuplesAreUnderstood

LEMMA IndicesAreUnderstood == FlattensAnyIndices => TuplesAreUnderstood'
<1> SUFFICES ASSUME FlattensAnyIndices PROVE TuplesAreUnderstood'
  OBVIOUS
<1>1. PICK dims \in Extents :
        Called([name |-> "flatIndex", dims |-> dims],
               [index \in Indices(dims) |-> FlatIndex(dims, index)])
  BY Zenon DEF FlattensAnyIndices
<1> DEFINE where == [index \in Indices(dims) |-> FlatIndex(dims, index)]
           last == Len(dims)
<1>2. Fills(where, dims)
  BY IndicesFill
<1>3. ASSUME NEW index \in Indices(dims), index[last] > 0
      PROVE  where[index] = where[[index EXCEPT ![last] = @ - 1]] + 1
  <2> DEFINE below == [index EXCEPT ![last] = @ - 1]
  <2>1. below \in Indices(dims) /\ FlatIndex(dims, index) = FlatIndex(dims, below) + 1
    BY <1>3, FlatsFollow
  <2> HIDE DEF below
  <2>2. where[index] = where[below] + 1
    BY <2>1
  <2> QED
    BY <2>2 DEF below
<1>4. /\ call' = [name |-> "flatIndex", dims |-> dims]
      /\ result' = where
  BY <1>1 DEF Called
<1> HIDE DEF where
<1>5. call'.name = "flatIndex" /\ call'.dims = dims
  BY <1>4
<1>6. /\ Range(result') = 0 .. LongProduct(call'.dims) - 1
      /\ Cardinality(DOMAIN result') = LongProduct(call'.dims)
  BY <1>2, <1>4, <1>5 DEF Fills
<1>7. \A index \in DOMAIN result' :
        index[Len(call'.dims)] > 0 =>
          result'[index] = result'[[index EXCEPT ![Len(call'.dims)] = @ - 1]] + 1
  BY <1>2, <1>3, <1>4, <1>5 DEF Fills
<1>8. call'.name # "readTuple" /\ call'.name # "writeTuple"
  BY <1>5
<1> QED
  BY Zenon, <1>6, <1>7, <1>8 DEF TuplesAreUnderstood

(* TuplesAreUnderstood, for texts, tuples and arrays of any size: the text  *)
(* is read as a tuple if and only if it is well formed, what is written is  *)
(* read, and the indices of an array fill its block (operator>>, operator<< *)
(* and flat_index).                                                         *)
THEOREM AnyTupleIsUnderstood == TuplesSpec => []TuplesAreUnderstood
<1>1. CallsInit => TuplesAreUnderstood
  BY DEF CallsInit, NoCall, TuplesAreUnderstood
<1>2. TuplesAreUnderstood
      /\ [ReadsAnyTuple \/ WritesAnyTuple \/ FlattensAnyIndices]_<<call, result>>
      => TuplesAreUnderstood'
  <2>1. SUFFICES ASSUME TuplesAreUnderstood, UNCHANGED <<call, result>>
                 PROVE  TuplesAreUnderstood'
    BY ReadIsUnderstood, WrittenIsUnderstood, IndicesAreUnderstood
  <2>2. call' = call /\ result' = result
    BY <2>1
  <2> QED
    BY <2>1, <2>2 DEF TuplesAreUnderstood
<1> QED
  BY <1>1, <1>2, PTL DEF TuplesSpec

LEMMA TuplesAreAny ==
  ReadsTuple \/ WritesTuple \/ FlattensIndices
    => ReadsAnyTuple \/ WritesAnyTuple \/ FlattensAnyIndices
<1>1. ReadsTuple => ReadsAnyTuple
  <2>1. ASSUME NEW text \in Texts(5) PROVE text \in Seq(Symbols)
    <3>1. PICK k \in 0 .. 5 : text \in [1 .. k -> Symbols]
      BY Zenon, <2>1 DEF Texts
    <3> QED
      BY <3>1
  <2>2. 1 .. 2 \subseteq Nat \ {0}
    OBVIOUS
  <2> QED
    BY Zenon, <2>1, <2>2 DEF ReadsTuple, ReadsAnyTuple
<1>2. WritesTuple => WritesAnyTuple
  <2>1. 1 .. 3 \subseteq Nat \ {0}
    OBVIOUS
  <2> QED
    BY Zenon, <2>1 DEF WritesTuple, WritesAnyTuple
<1>3. FlattensIndices => FlattensAnyIndices
  <2>1. ASSUME NEW d \in 1 .. 3, NEW dims \in [1 .. d -> 1 .. 4] PROVE dims \in Extents
    <3>1. dims \in Seq(Nat \ {0}) /\ Len(dims) = d
      OBVIOUS
    <3> QED
      BY <3>1 DEF Extents
  <2>2. UNION {[1 .. d -> 1 .. 4] : d \in 1 .. 3} \subseteq Extents
    BY <2>1
  <2> QED
    BY Zenon, <2>2 DEF FlattensIndices, FlattensAnyIndices
<1> QED
  BY <1>1, <1>2, <1>3
=============================================================================
