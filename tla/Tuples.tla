-------------------------------- MODULE Tuples --------------------------------
(* Tuples as text, and as indices (bonelab/Tuple.hpp, and flat_index of     *)
(* bonelab/Array.hpp). A text is a sequence of symbols, of which a number,  *)
(* however long, is one: "n" for any number that the element type can read. *)
EXTENDS Integers, Sequences, FiniteSetsExt, SequencesExt

Symbols == {"n", ",", " ", "(", ")", "[", "]"}

Texts(length) == UNION {[1..k -> Symbols] : k \in 0..length}

Closing(bracket) == IF bracket = "(" THEN ")" ELSE "]"

(* Where the stream is after the blanks from position i on; past the end if *)
(* nothing else follows. All other white space counts as text.              *)
SkipBlanks(text, i) ==
  Min({j \in i..Len(text) : text[j] # " "} \cup {Len(text) + 1})

(* Fault: two commas are taken for one.                                     *)
EatsTwoCommas(text, i) ==
  LET j == SkipBlanks(text, i) IN
  IF j <= Len(text) /\ text[j] = ","
    THEN LET k == SkipBlanks(text, j + 1) IN
         IF k <= Len(text) /\ text[k] = "," THEN SkipBlanks(text, k + 1) ELSE k
    ELSE j

(* One comma between two elements, or none.                                 *)
SkipComma(text, i) ==
  LET j == SkipBlanks(text, i)
  IN  IF j <= Len(text) /\ text[j] = "," THEN SkipBlanks(text, j + 1) ELSE j

(* operator>>. What the stream says when it returns: "good", with the       *)
(* position it has come to, or "fail"; or "throws" if an assertion fails.   *)
ReadTuple(text, size) ==
  LET end == Len(text) + 1
      first == SkipBlanks(text, 1)
      bracketed == first < end /\ text[first] \in {"(", "["}
      start == IF bracketed THEN SkipBlanks(text, first + 1) ELSE first
      fail == [state |-> "fail", at |-> end]
      isNumber(i) == i < end /\ text[i] = "n"
      \* where the k-th element ends and the next thing begins; 0 for failure,
      \* and the end of the text if the number itself is the last there is
      next[k \in 0..size] ==
        IF k = 0 THEN start
        ELSE IF next[k-1] = 0 \/ ~isNumber(next[k-1]) THEN 0
        ELSE IF next[k-1] + 1 = end
          THEN IF bracketed \/ k # size THEN 0 ELSE end
        ELSE LET after == IF k < size THEN SkipComma(text, next[k-1] + 1)
                          ELSE SkipBlanks(text, next[k-1] + 1)
             IN  IF after = end THEN 0 ELSE after
      last == next[size]
  IN  IF last = 0 THEN fail
      ELSE IF last = end THEN [state |-> "good", at |-> end]
      ELSE IF ~bracketed THEN [state |-> "throws", at |-> last]
      ELSE IF text[last] = Closing(text[first])
        THEN [state |-> "good", at |-> last + 1]
      ELSE fail

(* The property tree takes a value only if nothing is left of the text.     *)
Accepts(text, size) ==
  LET r == ReadTuple(text, size)
  IN  r.state = "good" /\ SkipBlanks(text, r.at) = Len(text) + 1

(* operator<<                                                               *)
WriteTuple(t) ==
  <<"(", t[1]>> \o FlattenSeq([i \in 1..Len(t)-1 |-> <<",", t[i+1]>>]) \o <<")">>

(* What is accepted, said in another way: numbers with a comma or nothing   *)
(* between any two, in matching brackets or in none; blanks anywhere, but   *)
(* not at the end if there are no brackets.                                 *)
Bare(text, marks, size) ==
  LET is(c) == {i \in marks : text[i] = c}
  IN  /\ marks # {} /\ {Min(marks), Max(marks)} \subseteq is("n")
      /\ marks = is("n") \cup is(",")
      /\ \A i, j \in is(",") : i < j => \E k \in is("n") : i < k /\ k < j
      /\ Cardinality(is("n")) = size

WellFormed(text, size) ==
  LET marks == {i \in DOMAIN text : text[i] # " "}
      first == Min(marks)
      last  == Max(marks)
  IN  \/ Bare(text, marks, size) /\ last = Len(text)
      \/ /\ marks # {} /\ text[first] \in {"(", "["}
         /\ text[last] = Closing(text[first])
         /\ Bare(text, marks \ {first, last}, size)

-----------------------------------------------------------------------------
(* Indices. Dimensions and indices are sequences, the first of them slowest.*)

(* long_product, whatever the type of the elements is.                      *)
LongProduct(dims) == FoldLeft(LAMBDA p, n : p * n, 1, dims)

FlatIndex(dims, index) ==
  LET flat[i \in 1..Len(dims)] ==
        IF i = 1 THEN index[1] ELSE flat[i-1] * dims[i] + index[i]
  IN  flat[Len(dims)]

(* reverse: files count the fastest-changing dimension first.               *)
ReverseTuple(t) == [i \in DOMAIN t |-> t[Len(t) + 1 - i]]

Indices(dims) == {ix \in [1..Len(dims) -> 0..Max(Range(dims))] :
                    \A i \in DOMAIN dims : ix[i] < dims[i]}
=============================================================================
