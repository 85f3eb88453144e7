-------------------------- MODULE HttpScannerProofs --------------------------
(***************************************************************************)
(* The HTTP scanner, for any requests, any chunks and any limit: its       *)
(* invariants, and that it implements TokenFeed; and what TokenFeed        *)
(* promises to whoever reads the feeds.                                    *)
(*                                                                         *)
(* A buffer is a window of the plaintext of its direction.  The proof      *)
(* follows where the window starts: past the heads that were consumed, and *)
(* past nothing else that a token could be in.                             *)
(***************************************************************************)
EXTENDS HttpScanner, Integers, SequenceTheorems, FiniteSetTheorems,
        WellFoundedInduction, TLAPS

-----------------------------------------------------------------------------
(* Sequences that are put together from pieces.                            *)

\* A set of numbers has a least one.  What holds of sequences of any length is
\* proved with it: were there a counterexample, there would be a least one.
LEMMA LeastNat ==
    ASSUME NEW T, T \subseteq Nat, T # {}
    PROVE  \E x \in T : \A y \in T : x <= y
<1>1. PICK x \in T : \A y \in T : ~ (<<y, x>> \in OpToRel(<, Nat))
  <2> HIDE DEF OpToRel, IsWellFoundedOn
  <2> QED
    BY WFMin, NatLessThanWellFounded, Zenon
<1>2. \A y \in T : ~ (y < x)
  <2>1. SUFFICES ASSUME NEW y \in T, y < x
                 PROVE  FALSE
    OBVIOUS
  <2>2. <<y, x>> \in {ss \in Nat \X Nat : ss[1] < ss[2]}
    BY <2>1
  <2> QED
    BY <1>1, <2>2 DEF OpToRel
<1> QED
  BY <1>2

\* f takes the steps of FlattenSeq over the first n members of seqs.
IsFlat(f, seqs, n) ==
    f = [i \in 1..n |-> IF i = 1 THEN seqs[i] ELSE f[i - 1] \o seqs[i]]

\* One step of such a function.
LEMMA FlatStep ==
    ASSUME NEW n \in Nat, NEW seqs, NEW f, IsFlat(f, seqs, n), NEW i \in 1..n
    PROVE  f[i] = IF i = 1 THEN seqs[i] ELSE f[i - 1] \o seqs[i]
<1> DEFINE e(j) == IF j = 1 THEN seqs[j] ELSE f[j - 1] \o seqs[j]
           R == [j \in 1..n |-> e(j)]
<1>1. f = R
  BY DEF IsFlat
<1>2. R[i] = e(i)
  <2> HIDE DEF e
  <2> QED
    OBVIOUS
<1> QED
  BY <1>1, <1>2, Zenon

\* There is such a function, however many members there are.
LEMMA FlatExists ==
    ASSUME NEW seqs, NEW n \in Nat
    PROVE  \E f : IsFlat(f, seqs, n)
<1> DEFINE Bad == {m \in Nat : ~ \E f : IsFlat(f, seqs, m)}
<1>1. SUFFICES ASSUME Bad # {}
               PROVE  FALSE
  OBVIOUS
<1>2. PICK m \in Bad : \A y \in Bad : m <= y
  <2>1. Bad \subseteq Nat
    OBVIOUS
  <2> HIDE DEF Bad
  <2> QED
    BY <1>1, <2>1, LeastNat
<1>3. m \in Nat /\ m # 0
  <2>1. IsFlat([i \in 1..0 |-> 0], seqs, 0)
    BY DEF IsFlat
  <2> QED
    BY <2>1
<1>4. PICK f : IsFlat(f, seqs, m - 1)
  <2>1. m - 1 \in Nat /\ ~ (m <= m - 1)
    BY <1>3
  <2>2. m - 1 \notin Bad
    BY <1>2, <2>1
  <2> QED
    BY <2>1, <2>2, Zenon
<1> DEFINE last == IF m = 1 THEN seqs[m] ELSE f[m - 1] \o seqs[m]
           g == [i \in 1..m |-> IF i = m THEN last ELSE f[i]]
<1>5. IsFlat(g, seqs, m)
  <2> DEFINE h == [i \in 1..m |-> IF i = 1 THEN seqs[i] ELSE g[i - 1] \o seqs[i]]
  <2>1. ASSUME NEW i \in 1..m
        PROVE  g[i] = h[i]
    <3>1. i \in Nat /\ (i # m => i \in 1..(m - 1)) /\ (i # 1 => i - 1 \in 1..m /\ i - 1 # m)
      BY <1>3
    <3>2. i # 1 => g[i - 1] = f[i - 1]
      <4> HIDE DEF last
      <4> QED
        BY <3>1
    <3>3. g[i] = IF i = m THEN last ELSE f[i]
      <4> HIDE DEF last
      <4> QED
        OBVIOUS
    <3>4. h[i] = IF i = 1 THEN seqs[i] ELSE g[i - 1] \o seqs[i]
      <4> HIDE DEF g
      <4> QED
        OBVIOUS
    <3>5. i # m => f[i] = IF i = 1 THEN seqs[i] ELSE f[i - 1] \o seqs[i]
      BY <1>3, <1>4, <3>1, FlatStep
    <3> HIDE DEF g, h
    <3>6. CASE i = m
      BY <3>2, <3>3, <3>4, <3>6
    <3>7. CASE i # m
      BY <3>2, <3>3, <3>4, <3>5, <3>7
    <3> QED
      BY <3>6, <3>7
  <2>2. /\ g = [i \in 1..m |-> g[i]]
        /\ h = [i \in 1..m |-> h[i]]
    <3> DEFINE eg(i) == IF i = m THEN last ELSE f[i]
               eh(i) == IF i = 1 THEN seqs[i] ELSE g[i - 1] \o seqs[i]
    <3>1. g = [i \in 1..m |-> eg(i)] /\ h = [i \in 1..m |-> eh(i)]
      OBVIOUS
    <3> HIDE DEF g, h, eg, eh
    <3> QED
      BY <3>1
  <2>3. g = h
    <3> HIDE DEF g, h
    <3> QED
      BY <2>1, <2>2
  <2> QED
    BY <2>3, Zenon DEF IsFlat
<1> QED
  BY <1>3, <1>5

\* Two such functions agree on what they both go over.
LEMMA FlatAgrees ==
    ASSUME NEW seqs, NEW part, NEW n \in Nat, NEW m \in 0..n,
           \A i \in 1..m : part[i] = seqs[i],
           NEW f, IsFlat(f, seqs, n), NEW g, IsFlat(g, part, m)
    PROVE  \A i \in 1..m : f[i] = g[i]
<1> DEFINE Bad == {i \in 1..m : f[i] # g[i]}
<1>1. SUFFICES ASSUME Bad # {}
               PROVE  FALSE
  OBVIOUS
<1>2. PICK i \in Bad : \A y \in Bad : i <= y
  <2>1. Bad \subseteq Nat
    OBVIOUS
  <2> HIDE DEF Bad
  <2> QED
    BY <1>1, <2>1, LeastNat
<1>3. m \in Nat /\ i \in 1..m /\ i \in 1..n
  OBVIOUS
<1>4. /\ f[i] = IF i = 1 THEN seqs[i] ELSE f[i - 1] \o seqs[i]
      /\ g[i] = IF i = 1 THEN part[i] ELSE g[i - 1] \o part[i]
  BY <1>3, FlatStep
<1>5. i # 1 => f[i - 1] = g[i - 1]
  BY <1>2, <1>3
<1>6. part[i] = seqs[i] /\ f[i] # g[i]
  BY <1>3
<1> QED
  BY <1>4, <1>5, <1>6, Zenon

\* The function FlattenSeq is defined by, and its value.
LEMMA FlatValue ==
    ASSUME NEW seqs, NEW n \in Nat, Len(seqs) = n, n # 0
    PROVE  \E f : IsFlat(f, seqs, n) /\ FlattenSeq(seqs) = f[n]
<1> DEFINE F == CHOOSE f : IsFlat(f, seqs, n)
<1>1. IsFlat(F, seqs, n)
  BY FlatExists, Zenon
<1>2. FlattenSeq(seqs) = F[n]
  BY Zenon DEF FlattenSeq, IsFlat
<1> QED
  BY <1>1, <1>2, Zenon

\* A sequence of sequences is flattened from its first to its last.
LEMMA FlattenLast ==
    ASSUME NEW m \in Nat, NEW seqs, Len(seqs) = m + 1,
           NEW part, Len(part) = m, \A i \in 1..m : part[i] = seqs[i]
    PROVE  FlattenSeq(seqs) = IF m = 0 THEN seqs[1] ELSE FlattenSeq(part) \o seqs[m + 1]
<1>1. PICK f : IsFlat(f, seqs, m + 1) /\ FlattenSeq(seqs) = f[m + 1]
  BY FlatValue
<1>2. f[m + 1] = IF m + 1 = 1 THEN seqs[m + 1] ELSE f[m + 1 - 1] \o seqs[m + 1]
  BY <1>1, FlatStep
<1>3. m + 1 - 1 = m /\ (m = 0 <=> m + 1 = 1) /\ (m = 0 => m + 1 = 1)
  OBVIOUS
<1>4. CASE m = 0
  BY <1>1, <1>2, <1>3, <1>4
<1>5. CASE m # 0
  <2>1. PICK g : IsFlat(g, part, m) /\ FlattenSeq(part) = g[m]
    BY <1>5, FlatValue
  <2>2. f[m] = g[m]
    <3>1. m \in 0..(m + 1) /\ m \in 1..m
      BY <1>5
    <3> QED
      BY <1>1, <2>1, <3>1, FlatAgrees
  <2> QED
    BY <1>1, <1>2, <1>3, <1>5, <2>1, <2>2, Zenon
<1> QED
  BY <1>4, <1>5

-----------------------------------------------------------------------------
(* What is left of a sequence that is read and drained: its windows.       *)

\* What of w is left after its first o symbols and up to its e-th.
Window(w, o, e) == SubSeq(w, o + 1, e)

\* The members of a window.
LEMMA WindowFacts ==
    ASSUME NEW S, NEW w \in Seq(S), NEW e \in 0..Len(w), NEW o \in 0..e
    PROVE  /\ Window(w, o, e) \in Seq(S)
           /\ Len(Window(w, o, e)) = e - o
           /\ \A i \in 1..(e - o) : Window(w, o, e)[i] = w[o + i]
<1>1. Len(w) \in Nat /\ e \in Int /\ o \in Nat /\ o + 1 \in Int
  OBVIOUS
<1>2. \A i \in (o + 1)..e : w[i] \in S
  <2>1. \A i \in (o + 1)..e : i \in 1..Len(w)
    BY <1>1
  <2> QED
    BY <2>1, ElementOfSeq
<1>3. /\ SubSeq(w, o + 1, e) \in Seq(S)
      /\ Len(SubSeq(w, o + 1, e)) = IF o + 1 <= e THEN e - (o + 1) + 1 ELSE 0
      /\ \A i \in 1..(e - (o + 1) + 1) : SubSeq(w, o + 1, e)[i] = w[o + 1 + i - 1]
  BY <1>1, <1>2, SubSeqProperties
<1>4. ASSUME NEW i \in 1..(e - o)
      PROVE  i \in 1..(e - (o + 1) + 1) /\ o + 1 + i - 1 = o + i
  BY <1>1
<1>5. (IF o + 1 <= e THEN e - (o + 1) + 1 ELSE 0) = e - o
  BY <1>1
<1> QED
  BY <1>3, <1>4, <1>5, Zenon DEF Window

\* A sequence with these members is the window.
LEMMA WindowIs ==
    ASSUME NEW S, NEW w \in Seq(S), NEW e \in 0..Len(w), NEW o \in 0..e,
           NEW b \in Seq(S), Len(b) = e - o,
           \A i \in 1..(e - o) : b[i] = w[o + i]
    PROVE  b = Window(w, o, e)
<1>1. /\ Window(w, o, e) \in Seq(S)
      /\ Len(Window(w, o, e)) = e - o
      /\ \A i \in 1..(e - o) : Window(w, o, e)[i] = w[o + i]
  BY WindowFacts
<1> QED
  BY <1>1, SeqEqual

\* A window with its first d symbols gone.
LEMMA WindowTail ==
    ASSUME NEW S, NEW w \in Seq(S), NEW e \in 0..Len(w), NEW o \in 0..e, NEW d \in 0..(e - o)
    PROVE  SubSeq(Window(w, o, e), d + 1, Len(Window(w, o, e))) = Window(w, o + d, e)
<1>1. Len(w) \in Nat /\ e \in Nat /\ o \in Nat /\ d \in Nat /\ o + d \in 0..e
  OBVIOUS
<1> DEFINE b == Window(w, o, e)
           c == Window(b, d, e - o)
<1>2. b \in Seq(S) /\ Len(b) = e - o /\ \A i \in 1..(e - o) : b[i] = w[o + i]
  BY WindowFacts
<1> HIDE DEF b
<1>3. /\ c \in Seq(S)
      /\ Len(c) = e - o - d
      /\ \A i \in 1..(e - o - d) : c[i] = b[d + i]
  <2>1. e - o \in 0..Len(b) /\ d \in 0..(e - o)
    BY <1>1, <1>2
  <2> QED
    BY <1>2, <2>1, WindowFacts, Zenon
<1> HIDE DEF c
<1>4. c = Window(w, o + d, e)
  <2>1. Len(c) = e - (o + d)
    BY <1>1, <1>3
  <2>2. ASSUME NEW i \in 1..(e - (o + d))
        PROVE  c[i] = w[(o + d) + i]
    <3>1. i \in 1..(e - o - d) /\ d + i \in 1..(e - o) /\ o + (d + i) = (o + d) + i
      BY <1>1
    <3> QED
      BY <1>2, <1>3, <3>1
  <2> QED
    BY <1>1, <1>3, <2>1, <2>2, WindowIs
<1>5. c = SubSeq(b, d + 1, Len(b))
  BY <1>2, Zenon DEF c, Window
<1> QED
  BY <1>4, <1>5, Zenon DEF b

\* A window with the symbols that come after it, as data are appended to a buffer.
LEMMA WindowGrows ==
    ASSUME NEW S, NEW w \in Seq(S), NEW e \in 0..Len(w), NEW r \in 0..e, NEW o \in 0..r
    PROVE  Window(w, o, r) \o SubSeq(w, r + 1, e) = Window(w, o, e)
<1>1. o + 1 \in 1..Len(w) + 1 /\ r \in (o + 1 - 1)..Len(w) /\ e \in r..Len(w)
  OBVIOUS
<1> QED
  BY <1>1, ConcatAdjacentSubSeq DEF Window

\* The pair a stands in w after its first p symbols.
PairAt(w, p, a) == w[p + 1] = a[1] /\ w[p + 2] = a[2]

\* Where a pair is first found in a window.
LEMMA FirstInWindow ==
    ASSUME NEW S, NEW w \in Seq(S), NEW e \in 0..Len(w), NEW o \in 0..e, NEW a,
           Occurrences(Window(w, o, e), a) # {}
    PROVE  LET i == First(Occurrences(Window(w, o, e), a))
           IN  /\ i \in 1..(e - o - 1)
               /\ PairAt(w, o + i - 1, a)
               /\ \A p \in o..(o + i - 2) : ~PairAt(w, p, a)
<1> DEFINE b == Window(w, o, e)
           O == Occurrences(b, a)
           i == First(O)
<1>1. b \in Seq(S) /\ Len(b) = e - o /\ \A j \in 1..(e - o) : b[j] = w[o + j]
  BY WindowFacts
<1>2. e \in Nat /\ o \in Nat /\ e - o \in Nat
  OBVIOUS
<1> HIDE DEF b
<1>3. ASSUME NEW j \in 1..(e - o - 1)
      PROVE  j \in O <=> PairAt(w, o + j - 1, a)
  <2>1. j \in 1..(e - o) /\ j + 1 \in 1..(e - o) /\ j \in 1..(Len(b) - 1)
    BY <1>1, <1>2
  <2>2. o + j - 1 + 1 = o + j /\ o + j - 1 + 2 = o + (j + 1)
    BY <1>2
  <2>3. b[j] = w[o + j] /\ b[j + 1] = w[o + (j + 1)]
    BY <1>1, <2>1
  <2> QED
    BY <2>1, <2>2, <2>3 DEF PairAt, Occurrences
<1>4. O \subseteq 1..(e - o - 1)
  BY <1>1 DEF Occurrences
<1>5. i \in O /\ \A j \in O : i <= j
  <2>1. O \subseteq Nat
    BY <1>2, <1>4
  <2>2. O # {}
    BY DEF b
  <2> HIDE DEF O
  <2>3. \E x \in O : \A y \in O : x <= y
    BY <2>1, <2>2, LeastNat
  <2> QED
    BY <2>3, Zenon DEF First
<1> HIDE DEF i, O
<1>6. i \in 1..(e - o - 1) /\ PairAt(w, o + i - 1, a)
  BY <1>3, <1>4, <1>5
<1>7. ASSUME NEW p \in o..(o + i - 2), PairAt(w, p, a)
      PROVE  FALSE
  <2>1. p - o + 1 \in 1..(e - o - 1) /\ o + (p - o + 1) - 1 = p /\ ~(i <= p - o + 1)
    BY <1>2, <1>6
  <2>2. p - o + 1 \in O
    BY <1>3, <1>7, <2>1
  <2> QED
    BY <1>5, <2>1, <2>2
<1> QED
  BY <1>6, <1>7, Zenon DEF i, O, b

\* A pair that is not found in a window stands nowhere in what it shows.
LEMMA NoneInWindow ==
    ASSUME NEW S, NEW w \in Seq(S), NEW e \in 0..Len(w), NEW o \in 0..e, NEW a,
           Occurrences(Window(w, o, e), a) = {}
    PROVE  \A p \in o..(e - 2) : ~PairAt(w, p, a)
<1> DEFINE b == Window(w, o, e)
<1>1. b \in Seq(S) /\ Len(b) = e - o /\ \A j \in 1..(e - o) : b[j] = w[o + j]
  BY WindowFacts
<1> HIDE DEF b
<1>2. SUFFICES ASSUME NEW p \in o..(e - 2), PairAt(w, p, a)
               PROVE  FALSE
  OBVIOUS
<1>3. /\ p - o + 1 \in 1..(e - o) /\ p - o + 1 + 1 \in 1..(e - o)
      /\ p - o + 1 \in 1..(Len(b) - 1)
      /\ o + (p - o + 1) = p + 1 /\ o + (p - o + 1 + 1) = p + 2
  <2>1. o \in Nat /\ e \in Nat /\ p \in Nat /\ o <= p /\ p <= e - 2
    OBVIOUS
  <2>2. /\ p - o + 1 \in 1..(e - o) /\ p - o + 1 + 1 \in 1..(e - o)
        /\ p - o + 1 \in 1..((e - o) - 1)
    BY <2>1
  <2>3. o + (p - o + 1) = p + 1 /\ o + (p - o + 1 + 1) = p + 2
    BY <2>1
  <2> QED
    BY <1>1, <2>2, <2>3, Zenon
<1>4. b[p - o + 1] = w[p + 1] /\ b[p - o + 1 + 1] = w[p + 2]
  <2>1. b[p - o + 1] = w[o + (p - o + 1)] /\ b[p - o + 1 + 1] = w[o + (p - o + 1 + 1)]
    BY <1>1, <1>3, Zenon
  <2> QED
    BY <1>3, <2>1, Zenon
<1>5. p - o + 1 \in Occurrences(b, a)
  BY <1>2, <1>3, <1>4 DEF Occurrences, PairAt
<1> QED
  BY <1>5 DEF b

\* FromMethod drops what stands before the first method word, if there is one.
LEMMA FromMethodOfWindow ==
    ASSUME NEW S, NEW w \in Seq(S), NEW e \in 0..Len(w), NEW o \in 0..e
    PROVE  \E o2 \in o..e :
              /\ FromMethod(Window(w, o, e)) = Window(w, o2, e)
              /\ \A p \in o..(o2 - 1) : ~PairAt(w, p, <<Ge, Et>>)
              /\ \/ PairAt(w, o2, <<Ge, Et>>) /\ o2 + 2 <= e
                 \/ \A p \in o2..(e - 2) : ~PairAt(w, p, <<Ge, Et>>)
<1> DEFINE O == Occurrences(Window(w, o, e), <<Ge, Et>>)
<1>1. CASE O = {}
  <2>1. FromMethod(Window(w, o, e)) = Window(w, o, e)
    BY <1>1, Zenon DEF FromMethod
  <2>2. \A p \in o..(e - 2) : ~PairAt(w, p, <<Ge, Et>>)
    BY <1>1, NoneInWindow
  <2>3. o \in o..e /\ o..(o - 1) = {}
    OBVIOUS
  <2> QED
    BY <2>1, <2>2, <2>3
<1>2. CASE O # {}
  <2> DEFINE i == First(O)
  <2>1. /\ i \in 1..(e - o - 1)
        /\ PairAt(w, o + i - 1, <<Ge, Et>>)
        /\ \A p \in o..(o + i - 2) : ~PairAt(w, p, <<Ge, Et>>)
    BY <1>2, FirstInWindow, Zenon
  <2>2. FromMethod(Window(w, o, e)) = SubSeq(Window(w, o, e), i, Len(Window(w, o, e)))
    BY <1>2, Zenon DEF FromMethod
  <2> HIDE DEF i
  <2>3. /\ i - 1 \in 0..(e - o) /\ i - 1 + 1 = i /\ o + (i - 1) = o + i - 1
        /\ o + i - 1 \in o..e /\ o + i - 1 - 1 = o + i - 2 /\ o + i - 1 + 2 <= e
    BY <2>1
  <2>4. FromMethod(Window(w, o, e)) = Window(w, o + (i - 1), e)
    <3>1. SubSeq(Window(w, o, e), i - 1 + 1, Len(Window(w, o, e))) = Window(w, o + (i - 1), e)
      BY <2>3, WindowTail
    <3> QED
      BY <2>2, <2>3, <3>1, Zenon
  <2>5. PICK o2 \in o..e : o2 = o + i - 1
    BY <2>3
  <2>6. /\ FromMethod(Window(w, o, e)) = Window(w, o2, e)
        /\ PairAt(w, o2, <<Ge, Et>>) /\ o2 + 2 <= e
    BY <2>1, <2>3, <2>4, <2>5, Zenon
  <2>7. \A p \in o..(o2 - 1) : ~PairAt(w, p, <<Ge, Et>>)
    <3>1. o2 - 1 = o + i - 2
      BY <2>1, <2>5
    <3> QED
      BY <2>1, <3>1
  <2> QED
    BY <2>6, <2>7, Zenon
<1> QED
  BY <1>1, <1>2

\* HeaderLen finds the first empty line.
LEMMA HeaderLenOfWindow ==
    ASSUME NEW S, NEW w \in Seq(S), NEW e \in 0..Len(w), NEW o \in 0..e
    PROVE  LET h == HeaderLen(Window(w, o, e))
           IN  \/ /\ h = 0
                  /\ \A p \in o..(e - 2) : ~PairAt(w, p, <<NL, NL>>)
               \/ /\ h \in 2..(e - o)
                  /\ PairAt(w, o + h - 2, <<NL, NL>>)
                  /\ \A p \in o..(o + h - 3) : ~PairAt(w, p, <<NL, NL>>)
<1> DEFINE O == Occurrences(Window(w, o, e), <<NL, NL>>)
           h == HeaderLen(Window(w, o, e))
<1>1. CASE O = {}
  <2>1. h = 0
    BY <1>1, Zenon DEF HeaderLen
  <2>2. \A p \in o..(e - 2) : ~PairAt(w, p, <<NL, NL>>)
    BY <1>1, NoneInWindow
  <2> QED
    BY <2>1, <2>2, Zenon
<1>2. CASE O # {}
  <2> DEFINE i == First(O)
  <2>1. /\ i \in 1..(e - o - 1)
        /\ PairAt(w, o + i - 1, <<NL, NL>>)
        /\ \A p \in o..(o + i - 2) : ~PairAt(w, p, <<NL, NL>>)
    BY <1>2, FirstInWindow, Zenon
  <2>2. h = i + 1
    BY <1>2, Zenon DEF HeaderLen
  <2> HIDE DEF i, h, O
  <2>3. h \in 2..(e - o) /\ o + h - 2 = o + i - 1 /\ o + h - 3 = o + i - 2
    BY <2>1, <2>2
  <2> QED
    BY <2>1, <2>3, Zenon DEF h
<1> QED
  BY <1>1, <1>2

-----------------------------------------------------------------------------
(* What a client sends, request after request.                             *)

\* The symbols of the wire.
Symbols == {"method", "target", "status", "nl", "text", "host", "auth"} \X Nat

\* What ScannerAssumption says of a request.
RequestKinds == [host : {"game", "other"}, auth : {"none", "bearer", "malformed"}, body : Bodies]

\* Which symbols are what, and that they are told apart.
LEMMA SymbolsOfTheWire ==
    /\ Ge \in Symbols /\ Et \in Symbols /\ Target \in Symbols /\ Status \in Symbols
    /\ NL \in Symbols /\ Text \in Symbols
    /\ \A host : HostLine(host) \in Symbols
    /\ \A number \in Nat : AuthLine(number) \in Symbols
    /\ Ge # Et /\ Ge # Target /\ Ge # NL /\ Ge # Text /\ Et # Target /\ Et # NL /\ Et # Text
    /\ Target # NL /\ Target # Text /\ NL # Text /\ Status # Target /\ Status # Ge
    /\ \A host : HostLine(host) \notin {Ge, Et, Target, NL, Text}
    /\ \A number \in Nat : AuthLine(number) \notin {Ge, Et, Target, NL, Text}
BY DEF Symbols, Ge, Et, Target, Status, NL, Text, HostLine, AuthLine

\* A head, symbol by symbol.
LEMMA HeadShape ==
    ASSUME NEW req \in RequestKinds, NEW number \in Nat
    PROVE  /\ HeadOf(req, number) \in Seq(Symbols)
           /\ Len(HeadOf(req, number)) = IF req.auth = "none" THEN 7 ELSE 9
           /\ HeadOf(req, number)[1] = Ge
           /\ HeadOf(req, number)[2] = Et
           /\ HeadOf(req, number)[3] = Target
           /\ HeadOf(req, number)[4] = NL
           /\ HeadOf(req, number)[5] = HostLine(req.host)
           /\ HeadOf(req, number)[6] = NL
           /\ HeadOf(req, number)[7] =
                 IF req.auth = "none" THEN NL
                 ELSE AuthLine(IF req.auth = "bearer" THEN number ELSE 0)
           /\ req.auth # "none" => HeadOf(req, number)[8] = NL /\ HeadOf(req, number)[9] = NL
<1> DEFINE a == HostLine(req.host)
           x == <<Ge, Et, Target, NL, a, NL>>
           b == AuthLine(IF req.auth = "bearer" THEN number ELSE 0)
           y == IF req.auth = "none" THEN <<>> ELSE <<b, NL>>
<1>1. HeadOf(req, number) = x \o y \o <<NL>>
  <2>1. req.auth \in {"none", "bearer", "malformed"}
    BY DEF RequestKinds
  <2> QED
    BY <2>1 DEF HeadOf
<1>2. Ge \in Symbols /\ Et \in Symbols /\ Target \in Symbols /\ NL \in Symbols /\ a \in Symbols /\ b \in Symbols
  BY SymbolsOfTheWire
<1> HIDE DEF a, b
<1>3. x \in Seq(Symbols) /\ y \in Seq(Symbols) /\ <<NL>> \in Seq(Symbols)
  BY <1>2
<1>4. Len(x) = 6 /\ Len(y) = IF req.auth = "none" THEN 0 ELSE 2
  OBVIOUS
<1>5. CASE req.auth = "none"
  BY <1>1, <1>2, <1>3, <1>4, <1>5 DEF a, b
<1>6. CASE req.auth # "none"
  BY <1>1, <1>2, <1>3, <1>4, <1>6 DEF a, b
<1> QED
  BY <1>5, <1>6

\* A body, symbol by symbol.
LEMMA BodyShape ==
    ASSUME NEW body \in Bodies
    PROVE  /\ BodyOf(body) \in Seq(Symbols)
           /\ body = "none" => Len(BodyOf(body)) = 0
           /\ body = "plain" => Len(BodyOf(body)) = 1 /\ BodyOf(body)[1] = Text
           /\ body = "method" => /\ Len(BodyOf(body)) = 3
                                 /\ BodyOf(body)[1] = Ge
                                 /\ BodyOf(body)[2] = Et
                                 /\ BodyOf(body)[3] = Text
<1>1. Ge \in Symbols /\ Et \in Symbols /\ Text \in Symbols
  BY SymbolsOfTheWire
<1>2. body \in {"none", "plain", "method"}
  BY DEF Bodies
<1> QED
  BY <1>1, <1>2 DEF BodyOf

\* The i-th request on the wire.
Piece(reqs, i) == HeadOf(reqs[i], i) \o BodyOf(reqs[i].body)

\* A request is a head and a body.
LEMMA PieceType ==
    ASSUME NEW reqs \in Seq(Requests), NEW i \in 1..Len(reqs)
    PROVE  /\ reqs[i] \in RequestKinds
           /\ HeadOf(reqs[i], i) \in Seq(Symbols)
           /\ BodyOf(reqs[i].body) \in Seq(Symbols)
           /\ Piece(reqs, i) \in Seq(Symbols)
           /\ Len(Piece(reqs, i)) = Len(HeadOf(reqs[i], i)) + Len(BodyOf(reqs[i].body))
<1>1. reqs[i] \in RequestKinds
  BY ScannerAssumption DEF ScannerAssumption, RequestKinds
<1>2. reqs[i].body \in Bodies /\ i \in Nat
  BY <1>1 DEF RequestKinds
<1>3. HeadOf(reqs[i], i) \in Seq(Symbols) /\ BodyOf(reqs[i].body) \in Seq(Symbols)
  BY <1>1, <1>2, HeadShape, BodyShape
<1> QED
  BY <1>1, <1>3, ConcatProperties DEF Piece

\* What the first m requests put on the wire.
FirstBytes(reqs, m) == RequestBytes(SubSeq(reqs, 1, m))

\* One request more puts its head and body at the end.
LEMMA FirstBytesGrow ==
    ASSUME NEW reqs \in Seq(Requests)
    PROVE  /\ FirstBytes(reqs, 0) = <<>>
           /\ \A m \in 1..Len(reqs) :
                 m # 1 => FirstBytes(reqs, m) = FirstBytes(reqs, m - 1) \o Piece(reqs, m)
           /\ Len(reqs) > 0 => FirstBytes(reqs, 1) = Piece(reqs, 1)
           /\ FirstBytes(reqs, Len(reqs)) = RequestBytes(reqs)
<1> DEFINE P(m) == [i \in 1..m |-> Piece(reqs, i)]
<1>1. ASSUME NEW m \in 0..Len(reqs)
      PROVE  FirstBytes(reqs, m) = FlattenSeq(P(m)) /\ Len(P(m)) = m
  <2> DEFINE r == SubSeq(reqs, 1, m)
  <2>1. m \in Nat /\ DOMAIN r = 1..m /\ \A i \in 1..m : r[i] = reqs[i]
    BY SubSeqProperties
  <2> HIDE DEF r
  <2>2. [i \in DOMAIN r |-> HeadOf(r[i], i) \o BodyOf(r[i].body)] = P(m)
    BY <2>1 DEF Piece
  <2>3. Len(P(m)) = m
    BY <2>1
  <2> QED
    BY <2>2, <2>3, Zenon DEF FirstBytes, RequestBytes, r
<1>2. FirstBytes(reqs, 0) = <<>>
  <2>1. Len(P(0)) = 0 /\ P(0) = <<>>
    OBVIOUS
  <2>2. 0 \in 0..Len(reqs)
    OBVIOUS
  <2> HIDE DEF P
  <2> QED
    BY <1>1, <2>1, <2>2, Zenon DEF FlattenSeq
<1>3. ASSUME NEW m \in Nat, m + 1 \in 1..Len(reqs)
      PROVE  FirstBytes(reqs, m + 1) = IF m = 0 THEN Piece(reqs, 1) ELSE FirstBytes(reqs, m) \o Piece(reqs, m + 1)
  <2>1. m \in 0..Len(reqs) /\ m + 1 \in 0..Len(reqs)
    BY <1>3
  <2>2. \A i \in 1..m : P(m)[i] = P(m + 1)[i]
    OBVIOUS
  <2>3. P(m + 1)[m + 1] = Piece(reqs, m + 1) /\ (m = 0 => P(m + 1)[1] = Piece(reqs, 1))
    OBVIOUS
  <2>4. Len(P(m)) = m /\ Len(P(m + 1)) = m + 1
    BY <1>1, <2>1
  <2> HIDE DEF P
  <2>5. FlattenSeq(P(m + 1)) = IF m = 0 THEN P(m + 1)[1] ELSE FlattenSeq(P(m)) \o P(m + 1)[m + 1]
    BY <2>2, <2>4, FlattenLast
  <2> QED
    BY <1>1, <2>1, <2>3, <2>5, Zenon
<1>4. ASSUME NEW m \in 1..Len(reqs), m # 1
      PROVE  FirstBytes(reqs, m) = FirstBytes(reqs, m - 1) \o Piece(reqs, m)
  <2>1. m - 1 \in Nat /\ m - 1 + 1 \in 1..Len(reqs) /\ m - 1 # 0 /\ m - 1 + 1 = m
    BY <1>4
  <2> QED
    BY <1>3, <2>1, Zenon
<1>5. Len(reqs) > 0 => FirstBytes(reqs, 1) = Piece(reqs, 1)
  <2>1. Len(reqs) > 0 => 0 + 1 \in 1..Len(reqs)
    OBVIOUS
  <2>2. 0 \in Nat /\ 0 + 1 = 1
    OBVIOUS
  <2> QED
    BY <1>3, <2>1, <2>2, Zenon
<1>6. FirstBytes(reqs, Len(reqs)) = RequestBytes(reqs)
  BY SubSeqFull, Zenon DEF FirstBytes
<1> QED
  BY <1>2, <1>4, <1>5, <1>6

\* What the first requests put on the wire is symbols.
LEMMA FirstBytesType ==
    ASSUME NEW reqs \in Seq(Requests)
    PROVE  \A m \in 0..Len(reqs) : FirstBytes(reqs, m) \in Seq(Symbols)
<1> DEFINE Bad == {m \in 0..Len(reqs) : FirstBytes(reqs, m) \notin Seq(Symbols)}
<1>1. SUFFICES ASSUME Bad # {}
               PROVE  FALSE
  OBVIOUS
<1>2. PICK m \in Bad : \A y \in Bad : m <= y
  <2>1. Bad \subseteq Nat
    OBVIOUS
  <2> HIDE DEF Bad
  <2> QED
    BY <1>1, <2>1, LeastNat
<1>3. CASE m = 0
  <2>1. FirstBytes(reqs, m) = <<>> /\ <<>> \in Seq(Symbols)
    BY <1>3, FirstBytesGrow
  <2> QED
    BY <2>1
<1>4. CASE m = 1
  <2>1. 1 \in 1..Len(reqs) /\ Len(reqs) > 0
    BY <1>4
  <2> QED
    BY <1>4, <2>1, FirstBytesGrow, PieceType
<1>5. CASE m > 1
  <2>1. m \in 1..Len(reqs) /\ m # 1 /\ m - 1 \in 0..Len(reqs) /\ ~(m <= m - 1)
    BY <1>5
  <2>2. FirstBytes(reqs, m - 1) \in Seq(Symbols)
    BY <1>2, <2>1
  <2>3. FirstBytes(reqs, m) = FirstBytes(reqs, m - 1) \o Piece(reqs, m)
    BY <2>1, FirstBytesGrow
  <2>4. FirstBytes(reqs, m) \in Seq(Symbols)
    BY <2>1, <2>2, <2>3, PieceType, ConcatProperties
  <2> QED
    BY <2>4
<1>6. m \in Nat
  OBVIOUS
<1> QED
  BY <1>3, <1>4, <1>5, <1>6

\* Each request adds its head and its body to what was sent before it.
LEMMA FirstBytesNext ==
    ASSUME NEW reqs \in Seq(Requests), NEW i \in 1..Len(reqs)
    PROVE  /\ FirstBytes(reqs, i - 1) \in Seq(Symbols)
           /\ FirstBytes(reqs, i) \in Seq(Symbols)
           /\ FirstBytes(reqs, i) = FirstBytes(reqs, i - 1) \o Piece(reqs, i)
<1>1. i - 1 \in 0..Len(reqs) /\ i \in 0..Len(reqs)
  OBVIOUS
<1>2. FirstBytes(reqs, i - 1) \in Seq(Symbols) /\ FirstBytes(reqs, i) \in Seq(Symbols)
  BY <1>1, FirstBytesType
<1>3. CASE i = 1
  <2>1. FirstBytes(reqs, 0) = <<>> /\ FirstBytes(reqs, 1) = Piece(reqs, 1) /\ i - 1 = 0
    BY <1>3, FirstBytesGrow
  <2>2. <<>> \o Piece(reqs, 1) = Piece(reqs, 1)
    BY <1>3, PieceType, ConcatEmptySeq
  <2> QED
    BY <1>2, <1>3, <2>1, <2>2, Zenon
<1>4. CASE i # 1
  BY <1>2, <1>4, FirstBytesGrow
<1> QED
  BY <1>3, <1>4

-----------------------------------------------------------------------------
(* Where its heads and bodies stand.                                       *)

\* What a client sends is symbols.
LEMMA BytesType ==
    ASSUME NEW reqs \in Seq(Requests)
    PROVE  RequestBytes(reqs) \in Seq(Symbols) /\ Len(RequestBytes(reqs)) \in Nat
<1>1. Len(reqs) \in 0..Len(reqs)
  OBVIOUS
<1>2. RequestBytes(reqs) \in Seq(Symbols)
  BY <1>1, FirstBytesType, FirstBytesGrow
<1> QED
  BY <1>2

\* Each head starts where the body before it ends, the first at the beginning.
LEMMA Places ==
    ASSUME NEW reqs \in Seq(Requests)
    PROVE  /\ StartOf(reqs, 1) = 0
           /\ StartOf(reqs, Len(reqs) + 1) = Len(RequestBytes(reqs))
           /\ \A i \in 1..(Len(reqs) + 1) : StartOf(reqs, i) \in Nat
           /\ \A i \in 1..Len(reqs) :
                 /\ Len(HeadOf(reqs[i], i)) \in Nat
                 /\ Len(BodyOf(reqs[i].body)) \in Nat
                 /\ HeadEnd(reqs, i) = StartOf(reqs, i) + Len(HeadOf(reqs[i], i))
                 /\ StartOf(reqs, i + 1) = HeadEnd(reqs, i) + Len(BodyOf(reqs[i].body))
<1>1. \A i : StartOf(reqs, i) = Len(FirstBytes(reqs, i - 1))
  BY DEF StartOf, FirstBytes
<1>2. StartOf(reqs, 1) = 0
  <2>1. FirstBytes(reqs, 0) = <<>> /\ 1 - 1 = 0
    BY FirstBytesGrow
  <2> QED
    BY <1>1, <2>1
<1>3. StartOf(reqs, Len(reqs) + 1) = Len(RequestBytes(reqs))
  <2>1. Len(reqs) + 1 - 1 = Len(reqs)
    OBVIOUS
  <2> QED
    BY <1>1, <2>1, FirstBytesGrow
<1>4. ASSUME NEW i \in 1..(Len(reqs) + 1)
      PROVE  StartOf(reqs, i) \in Nat
  <2>1. i - 1 \in 0..Len(reqs)
    OBVIOUS
  <2>2. FirstBytes(reqs, i - 1) \in Seq(Symbols)
    BY <2>1, FirstBytesType
  <2> QED
    BY <1>1, <2>2
<1>5. ASSUME NEW i \in 1..Len(reqs)
      PROVE  /\ Len(HeadOf(reqs[i], i)) \in Nat
             /\ Len(BodyOf(reqs[i].body)) \in Nat
             /\ HeadEnd(reqs, i) = StartOf(reqs, i) + Len(HeadOf(reqs[i], i))
             /\ StartOf(reqs, i + 1) = HeadEnd(reqs, i) + Len(BodyOf(reqs[i].body))
  <2>1. HeadOf(reqs[i], i) \in Seq(Symbols) /\ BodyOf(reqs[i].body) \in Seq(Symbols)
    BY PieceType
  <2>2. Len(HeadOf(reqs[i], i)) \in Nat /\ Len(BodyOf(reqs[i].body)) \in Nat
    BY <2>1
  <2>3. Len(FirstBytes(reqs, i)) = Len(FirstBytes(reqs, i - 1)) + Len(Piece(reqs, i))
    BY FirstBytesNext, PieceType, ConcatProperties
  <2>4. Len(Piece(reqs, i)) = Len(HeadOf(reqs[i], i)) + Len(BodyOf(reqs[i].body))
    BY PieceType
  <2>5. i + 1 - 1 = i /\ Len(FirstBytes(reqs, i - 1)) \in Nat
    BY FirstBytesNext
  <2>6. /\ StartOf(reqs, i) = Len(FirstBytes(reqs, i - 1))
        /\ StartOf(reqs, i + 1) = Len(FirstBytes(reqs, i))
    <3> DEFINE next == i + 1
    <3>1. next - 1 = i
      BY <2>5
    <3> HIDE DEF next
    <3>2. StartOf(reqs, next) = Len(FirstBytes(reqs, next - 1))
      BY <1>1
    <3>3. StartOf(reqs, i) = Len(FirstBytes(reqs, i - 1))
      BY <1>1
    <3> QED
      BY <3>1, <3>2, <3>3 DEF next
  <2>7. HeadEnd(reqs, i) = StartOf(reqs, i) + Len(HeadOf(reqs[i], i))
    BY Zenon DEF HeadEnd
  <2> QED
    BY <2>2, <2>3, <2>4, <2>5, <2>6, <2>7
<1> QED
  BY <1>2, <1>3, <1>4, <1>5

\* What was sent first is a prefix of what is sent.
LEMMA FirstBytesArePrefix ==
    ASSUME NEW reqs \in Seq(Requests), NEW m \in 0..Len(reqs)
    PROVE  /\ Len(FirstBytes(reqs, m)) <= Len(RequestBytes(reqs))
           /\ \A p \in 1..Len(FirstBytes(reqs, m)) : RequestBytes(reqs)[p] = FirstBytes(reqs, m)[p]
<1> DEFINE n == Len(reqs)
           W == RequestBytes(reqs)
           Fine(i) == /\ Len(FirstBytes(reqs, i)) <= Len(W)
                      /\ \A p \in 1..Len(FirstBytes(reqs, i)) : W[p] = FirstBytes(reqs, i)[p]
           Bad == {d \in 0..n : ~Fine(n - d)}
<1>1. SUFFICES ASSUME Bad # {}
               PROVE  FALSE
  <2>1. n - m \in 0..n /\ n - (n - m) = m
    OBVIOUS
  <2>2. n - m \notin Bad
    OBVIOUS
  <2> HIDE DEF n
  <2>3. Fine(m)
    BY <2>1, <2>2
  <2> QED
    BY <2>3
<1>2. PICK d \in Bad : \A y \in Bad : d <= y
  <2>1. Bad \subseteq Nat
    OBVIOUS
  <2> HIDE DEF Bad
  <2> QED
    BY <1>1, <2>1, LeastNat
<1>3. n \in Nat /\ d \in 0..n
  OBVIOUS
<1>4. W = FirstBytes(reqs, n) /\ W \in Seq(Symbols)
  <2>1. n \in 0..Len(reqs)
    OBVIOUS
  <2> QED
    BY <2>1, FirstBytesGrow, FirstBytesType
<1>5. CASE d = 0
  <2>1. n - d = n
    BY <1>5
  <2>2. Fine(n)
    BY <1>4
  <2> QED
    BY <2>1, <2>2
<1>6. CASE d # 0
  <2>1. d - 1 \in 0..n /\ ~(d <= d - 1)
    BY <1>3, <1>6
  <2>2. Fine(n - (d - 1))
    BY <1>2, <2>1
  <2> DEFINE i == n - (d - 1)
  <2>3. i \in 1..n /\ i - 1 = n - d
    BY <1>3, <1>6
  <2> HIDE DEF i
  <2>4. /\ FirstBytes(reqs, i - 1) \in Seq(Symbols)
        /\ FirstBytes(reqs, i) = FirstBytes(reqs, i - 1) \o Piece(reqs, i)
        /\ Piece(reqs, i) \in Seq(Symbols)
    BY <2>3, FirstBytesNext, PieceType
  <2>5. /\ Len(FirstBytes(reqs, i - 1)) <= Len(FirstBytes(reqs, i))
        /\ Len(FirstBytes(reqs, i)) \in Nat
        /\ \A p \in 1..Len(FirstBytes(reqs, i - 1)) : FirstBytes(reqs, i)[p] = FirstBytes(reqs, i - 1)[p]
    BY <2>4, ConcatProperties
  <2>6. Fine(i)
    BY <2>2 DEF i
  <2>7. Fine(i - 1)
    BY <1>4, <2>4, <2>5, <2>6
  <2>8. ~Fine(n - d)
    OBVIOUS
  <2> QED
    BY <2>3, <2>7, <2>8
<1> QED
  BY <1>5, <1>6

\* The symbols of each head and of each body, where they stand.
LEMMA PiecesOnWire ==
    ASSUME NEW reqs \in Seq(Requests), NEW i \in 1..Len(reqs)
    PROVE  /\ RequestBytes(reqs) \in Seq(Symbols)
           /\ StartOf(reqs, i + 1) <= Len(RequestBytes(reqs))
           /\ \A j \in 1..Len(HeadOf(reqs[i], i)) :
                 RequestBytes(reqs)[StartOf(reqs, i) + j] = HeadOf(reqs[i], i)[j]
           /\ \A j \in 1..Len(BodyOf(reqs[i].body)) :
                 RequestBytes(reqs)[HeadEnd(reqs, i) + j] = BodyOf(reqs[i].body)[j]
<1> DEFINE W == RequestBytes(reqs)
           h == HeadOf(reqs[i], i)
           b == BodyOf(reqs[i].body)
           s == Len(FirstBytes(reqs, i - 1))
           x == FirstBytes(reqs, i - 1)
           y == FirstBytes(reqs, i)
<1>1. /\ StartOf(reqs, i) = s /\ HeadEnd(reqs, i) = s + Len(h)
      /\ StartOf(reqs, i + 1) = Len(y)
  <2>1. i + 1 - 1 = i
    OBVIOUS
  <2> QED
    BY <2>1 DEF StartOf, HeadEnd, FirstBytes
<1>2. /\ h \in Seq(Symbols) /\ b \in Seq(Symbols)
      /\ x \in Seq(Symbols) /\ y = x \o (h \o b)
  BY PieceType, FirstBytesNext DEF Piece
<1>3. W \in Seq(Symbols)
  BY BytesType
<1>4. /\ Len(y) <= Len(W)
      /\ \A p \in 1..Len(y) : W[p] = y[p]
  <2>1. i \in 0..Len(reqs)
    OBVIOUS
  <2> QED
    BY <2>1, FirstBytesArePrefix
<1> HIDE DEF W, h, b, x, y
<1>5. Len(x) \in Nat /\ Len(h) \in Nat /\ Len(b) \in Nat /\ Len(y) = Len(x) + (Len(h) + Len(b))
  BY <1>2, ConcatProperties
<1>6. ASSUME NEW j \in 1..Len(h)
      PROVE  W[Len(x) + j] = h[j]
  BY <1>2, <1>4, <1>5
<1>7. ASSUME NEW j \in 1..Len(b)
      PROVE  W[Len(x) + Len(h) + j] = b[j]
  <2> DEFINE t == h \o b
  <2>1. t \in Seq(Symbols) /\ Len(t) = Len(h) + Len(b) /\ t[Len(h) + j] = b[j]
    BY <1>2, <1>5
  <2> HIDE DEF t
  <2>2. Len(h) + j \in 1..Len(t) /\ Len(x) + (Len(h) + j) = Len(x) + Len(h) + j
    BY <1>5, <2>1
  <2>3. y[Len(x) + (Len(h) + j)] = t[Len(h) + j]
    BY <1>2, <1>5, <2>1, <2>2 DEF t
  <2>4. Len(x) + Len(h) + j \in 1..Len(y)
    BY <1>5
  <2> QED
    BY <1>4, <2>1, <2>2, <2>3, <2>4
<1>8. s = Len(x)
  BY DEF x
<1> QED
  BY <1>1, <1>3, <1>4, <1>6, <1>7, <1>8, Zenon DEF W, h, b, y

\* Heads stand in the order of their numbers and do not overlap.
LEMMA HeadsInOrder ==
    ASSUME NEW reqs \in Seq(Requests), NEW i \in 1..Len(reqs)
    PROVE  \A j \in (i + 1)..(Len(reqs) + 1) : HeadEnd(reqs, i) <= StartOf(reqs, j)
<1> DEFINE Bad == {j \in (i + 1)..(Len(reqs) + 1) : ~(HeadEnd(reqs, i) <= StartOf(reqs, j))}
<1>1. SUFFICES ASSUME Bad # {}
               PROVE  FALSE
  OBVIOUS
<1>2. PICK j \in Bad : \A y \in Bad : j <= y
  <2>1. Bad \subseteq Nat
    OBVIOUS
  <2> HIDE DEF Bad
  <2> QED
    BY <1>1, <2>1, LeastNat
<1>3. j \in (i + 1)..(Len(reqs) + 1) /\ ~(HeadEnd(reqs, i) <= StartOf(reqs, j))
  OBVIOUS
<1>4. /\ StartOf(reqs, i) \in Nat /\ Len(HeadOf(reqs[i], i)) \in Nat /\ Len(BodyOf(reqs[i].body)) \in Nat
      /\ HeadEnd(reqs, i) = StartOf(reqs, i) + Len(HeadOf(reqs[i], i))
      /\ StartOf(reqs, i + 1) = HeadEnd(reqs, i) + Len(BodyOf(reqs[i].body))
  BY Places
<1>5. j # i + 1
  BY <1>3, <1>4
<1> DEFINE k == j - 1
<1>6. k \in (i + 1)..(Len(reqs) + 1) /\ k \in 1..Len(reqs) /\ k + 1 = j /\ ~(j <= k)
  BY <1>3, <1>5
<1> HIDE DEF k
<1>7. HeadEnd(reqs, i) <= StartOf(reqs, k)
  <2>1. k \notin Bad
    BY <1>2, <1>6, Zenon
  <2> QED
    BY <1>6, <2>1
<1>8. /\ StartOf(reqs, k) \in Nat /\ Len(HeadOf(reqs[k], k)) \in Nat /\ Len(BodyOf(reqs[k].body)) \in Nat
      /\ HeadEnd(reqs, k) = StartOf(reqs, k) + Len(HeadOf(reqs[k], k))
      /\ StartOf(reqs, k + 1) = HeadEnd(reqs, k) + Len(BodyOf(reqs[k].body))
  BY <1>6, Places
<1>9. StartOf(reqs, k + 1) >= StartOf(reqs, k) /\ StartOf(reqs, k + 1) \in Nat
  BY <1>8
<1>10. HeadEnd(reqs, i) \in Nat
  BY <1>4
<1>11. HeadEnd(reqs, i) <= StartOf(reqs, k + 1)
  BY <1>7, <1>8, <1>9, <1>10
<1> QED
  BY <1>3, <1>6, <1>11, Zenon

\* Every place on the wire is in a head or in the body after it.
LEMMA EveryPlace ==
    ASSUME NEW reqs \in Seq(Requests), NEW p \in 1..Len(RequestBytes(reqs))
    PROVE  \E i \in 1..Len(reqs) : StartOf(reqs, i) < p /\ p <= StartOf(reqs, i + 1)
<1> DEFINE After == {i \in 1..(Len(reqs) + 1) : p <= StartOf(reqs, i)}
<1>1. Len(reqs) + 1 \in After
  <2>1. RequestBytes(reqs) \in Seq(Symbols)
    BY BytesType
  <2>2. StartOf(reqs, Len(reqs) + 1) = Len(RequestBytes(reqs))
    BY Places
  <2>3. Len(reqs) + 1 \in 1..(Len(reqs) + 1)
    OBVIOUS
  <2> QED
    BY <2>1, <2>2, <2>3
<1>2. PICK m \in After : \A y \in After : m <= y
  <2>1. After \subseteq Nat
    OBVIOUS
  <2> HIDE DEF After
  <2> QED
    BY <1>1, <2>1, LeastNat
<1>3. m \in 1..(Len(reqs) + 1) /\ p <= StartOf(reqs, m)
  OBVIOUS
<1>4. m # 1
  <2>1. StartOf(reqs, 1) = 0
    BY Places
  <2> QED
    BY <1>3, <2>1
<1> DEFINE i == m - 1
<1>5. i \in 1..Len(reqs) /\ i \in 1..(Len(reqs) + 1) /\ i + 1 = m /\ ~(m <= i)
  BY <1>3, <1>4
<1> HIDE DEF i
<1>6. ~(p <= StartOf(reqs, i))
  <2>1. i \notin After
    BY <1>2, <1>5, Zenon
  <2> QED
    BY <1>5, <2>1
<1>7. StartOf(reqs, i) \in Nat /\ p \in Int
  BY <1>5, Places
<1> QED
  BY <1>3, <1>5, <1>6, <1>7

-----------------------------------------------------------------------------
(* What the scanner looks for, and where it is found.                      *)

\* Which symbol of which request stands at a place.
LEMMA SymbolAt ==
    ASSUME NEW reqs \in Seq(Requests), NEW q \in 1..Len(RequestBytes(reqs))
    PROVE  \E i \in 1..Len(reqs) :
              \/ \E j \in 1..Len(HeadOf(reqs[i], i)) :
                    q = StartOf(reqs, i) + j /\ RequestBytes(reqs)[q] = HeadOf(reqs[i], i)[j]
              \/ \E j \in 1..Len(BodyOf(reqs[i].body)) :
                    q = HeadEnd(reqs, i) + j /\ RequestBytes(reqs)[q] = BodyOf(reqs[i].body)[j]
<1>1. PICK i \in 1..Len(reqs) : StartOf(reqs, i) < q /\ q <= StartOf(reqs, i + 1)
  BY EveryPlace
<1>2. /\ StartOf(reqs, i) \in Nat /\ Len(HeadOf(reqs[i], i)) \in Nat /\ Len(BodyOf(reqs[i].body)) \in Nat
      /\ HeadEnd(reqs, i) = StartOf(reqs, i) + Len(HeadOf(reqs[i], i))
      /\ StartOf(reqs, i + 1) = HeadEnd(reqs, i) + Len(BodyOf(reqs[i].body))
  BY Places
<1>3. CASE q <= HeadEnd(reqs, i)
  <2>1. q - StartOf(reqs, i) \in 1..Len(HeadOf(reqs[i], i)) /\ q = StartOf(reqs, i) + (q - StartOf(reqs, i))
    BY <1>1, <1>2, <1>3
  <2> QED
    BY <2>1, PiecesOnWire
<1>4. CASE ~(q <= HeadEnd(reqs, i))
  <2>1. q - HeadEnd(reqs, i) \in 1..Len(BodyOf(reqs[i].body)) /\ q = HeadEnd(reqs, i) + (q - HeadEnd(reqs, i))
    BY <1>1, <1>2, <1>4
  <2> QED
    BY <2>1, PiecesOnWire
<1> QED
  BY <1>3, <1>4

\* The symbols of a head that the scanner looks for, and how long the head is.
LEMMA HeadMarks ==
    ASSUME NEW reqs \in Seq(Requests), NEW i \in 1..Len(reqs)
    PROVE  LET h == HeadOf(reqs[i], i)
           IN  /\ Len(h) = IF reqs[i].auth = "none" THEN 7 ELSE 9
               /\ \A j \in 1..Len(h) : h[j] = Ge <=> j = 1
               /\ \A j \in 1..Len(h) : h[j] = Target <=> j = 3
               /\ \A j \in 2..Len(h) : h[j - 1] = NL /\ h[j] = NL <=> j = Len(h)
               /\ h[2] = Et /\ h[4] = NL
<1> DEFINE h == HeadOf(reqs[i], i)
           a == HostLine(reqs[i].host)
           b == AuthLine(IF reqs[i].auth = "bearer" THEN i ELSE 0)
<1>1. reqs[i] \in RequestKinds /\ i \in Nat
  BY PieceType
<1>2. /\ Len(h) = IF reqs[i].auth = "none" THEN 7 ELSE 9
      /\ h[1] = Ge /\ h[2] = Et /\ h[3] = Target /\ h[4] = NL /\ h[5] = a /\ h[6] = NL
      /\ h[7] = IF reqs[i].auth = "none" THEN NL ELSE b
      /\ reqs[i].auth # "none" => h[8] = NL /\ h[9] = NL
  BY <1>1, HeadShape
<1>3. /\ Ge # Et /\ Ge # Target /\ Ge # NL /\ Et # Target /\ Et # NL /\ Target # NL
      /\ a \notin {Ge, Et, Target, NL} /\ b \notin {Ge, Et, Target, NL}
  BY SymbolsOfTheWire
<1> HIDE DEF h, a, b
<1>4. CASE reqs[i].auth = "none"
  <2>1. Len(h) = 7 /\ 1..Len(h) = {1, 2, 3, 4, 5, 6, 7} /\ 2..Len(h) = {2, 3, 4, 5, 6, 7}
    BY <1>2, <1>4
  <2> QED
    BY <1>2, <1>3, <1>4, <2>1 DEF h
<1>5. CASE reqs[i].auth # "none"
  <2>1. /\ Len(h) = 9 /\ 1..Len(h) = {1, 2, 3, 4, 5, 6, 7, 8, 9}
        /\ 2..Len(h) = {2, 3, 4, 5, 6, 7, 8, 9}
    BY <1>2, <1>5
  <2> QED
    BY <1>2, <1>3, <1>5, <2>1 DEF h
<1> QED
  BY <1>4, <1>5

\* The symbols of a body that the scanner looks for.
LEMMA BodyMarks ==
    ASSUME NEW reqs \in Seq(Requests), NEW i \in 1..Len(reqs)
    PROVE  LET b == BodyOf(reqs[i].body)
           IN  /\ Len(b) \in Nat
               /\ \A j \in 1..Len(b) : b[j] # Target /\ b[j] # NL
               /\ \A j \in 1..Len(b) : b[j] = Ge <=> j = 1 /\ reqs[i].body = "method"
               /\ reqs[i].body = "method" => Len(b) = 3 /\ b[2] = Et
<1> DEFINE b == BodyOf(reqs[i].body)
<1>1. reqs[i].body \in Bodies
  BY PieceType DEF RequestKinds
<1>2. /\ b \in Seq(Symbols)
      /\ reqs[i].body = "none" => Len(b) = 0
      /\ reqs[i].body = "plain" => Len(b) = 1 /\ b[1] = Text
      /\ reqs[i].body = "method" => Len(b) = 3 /\ b[1] = Ge /\ b[2] = Et /\ b[3] = Text
  BY <1>1, BodyShape
<1>3. Ge # Et /\ Ge # Target /\ Ge # NL /\ Ge # Text /\ Et # Target /\ Et # NL /\ Text # Target /\ NL # Text
  BY SymbolsOfTheWire
<1> HIDE DEF b
<1>4. reqs[i].body \in {"none", "plain", "method"}
  BY <1>1 DEF Bodies
<1>5. CASE reqs[i].body = "none"
  BY <1>2, <1>5 DEF b
<1>6. CASE reqs[i].body = "plain"
  BY <1>2, <1>3, <1>6 DEF b
<1>7. CASE reqs[i].body = "method"
  <2>0. Len(b) = 3
    BY <1>2, <1>7
  <2>1. 1..Len(b) = {1, 2, 3}
    BY <2>0
  <2> QED
    BY <1>2, <1>3, <1>7, <2>1 DEF b
<1> QED
  BY <1>4, <1>5, <1>6, <1>7

\* A method word starts a head, or is a body.
LEMMA MethodWords ==
    ASSUME NEW reqs \in Seq(Requests), NEW p \in Nat, p + 2 <= Len(RequestBytes(reqs)),
           PairAt(RequestBytes(reqs), p, <<Ge, Et>>)
    PROVE  \E i \in 1..Len(reqs) :
              \/ p = StartOf(reqs, i)
              \/ p = HeadEnd(reqs, i) /\ reqs[i].body = "method"
<1>1. RequestBytes(reqs)[p + 1] = Ge
  BY DEF PairAt
<1>2. p + 1 \in 1..Len(RequestBytes(reqs))
  <2>1. RequestBytes(reqs) \in Seq(Symbols)
    BY BytesType
  <2> QED
    BY <2>1
<1>3. PICK i \in 1..Len(reqs) :
         \/ \E j \in 1..Len(HeadOf(reqs[i], i)) :
               p + 1 = StartOf(reqs, i) + j /\ RequestBytes(reqs)[p + 1] = HeadOf(reqs[i], i)[j]
         \/ \E j \in 1..Len(BodyOf(reqs[i].body)) :
               p + 1 = HeadEnd(reqs, i) + j /\ RequestBytes(reqs)[p + 1] = BodyOf(reqs[i].body)[j]
  BY <1>2, SymbolAt
<1>4. StartOf(reqs, i) \in Nat /\ HeadEnd(reqs, i) \in Nat
  BY Places
<1>5. \A j \in 1..Len(HeadOf(reqs[i], i)) : HeadOf(reqs[i], i)[j] = Ge => j = 1
  BY HeadMarks
<1>6. \A j \in 1..Len(BodyOf(reqs[i].body)) :
         BodyOf(reqs[i].body)[j] = Ge => j = 1 /\ reqs[i].body = "method"
  BY BodyMarks
<1>7. CASE \E j \in 1..Len(HeadOf(reqs[i], i)) :
              p + 1 = StartOf(reqs, i) + j /\ RequestBytes(reqs)[p + 1] = HeadOf(reqs[i], i)[j]
  <2>1. p + 1 = StartOf(reqs, i) + 1
    BY <1>1, <1>5, <1>7
  <2>2. p = StartOf(reqs, i)
    BY <1>4, <2>1
  <2> QED
    BY <2>2
<1>8. CASE \E j \in 1..Len(BodyOf(reqs[i].body)) :
              p + 1 = HeadEnd(reqs, i) + j /\ RequestBytes(reqs)[p + 1] = BodyOf(reqs[i].body)[j]
  <2>1. p + 1 = HeadEnd(reqs, i) + 1 /\ reqs[i].body = "method"
    BY <1>1, <1>6, <1>8
  <2>2. p = HeadEnd(reqs, i)
    BY <1>4, <2>1
  <2> QED
    BY <2>1, <2>2
<1> QED
  BY <1>3, <1>7, <1>8

\* Heads end in the only empty lines.
LEMMA EmptyLines ==
    ASSUME NEW reqs \in Seq(Requests), NEW p \in Nat, p + 2 <= Len(RequestBytes(reqs)),
           PairAt(RequestBytes(reqs), p, <<NL, NL>>)
    PROVE  \E i \in 1..Len(reqs) : p + 2 = HeadEnd(reqs, i)
<1> DEFINE W == RequestBytes(reqs)
<1>1. W[p + 1] = NL /\ W[p + 2] = NL
  BY DEF PairAt
<1>2. p + 2 \in 1..Len(W)
  <2>1. W \in Seq(Symbols)
    BY BytesType
  <2> QED
    BY <2>1
<1>3. PICK i \in 1..Len(reqs) :
         \/ \E j \in 1..Len(HeadOf(reqs[i], i)) :
               p + 2 = StartOf(reqs, i) + j /\ W[p + 2] = HeadOf(reqs[i], i)[j]
         \/ \E j \in 1..Len(BodyOf(reqs[i].body)) :
               p + 2 = HeadEnd(reqs, i) + j /\ W[p + 2] = BodyOf(reqs[i].body)[j]
  BY <1>2, SymbolAt
<1> DEFINE h == HeadOf(reqs[i], i)
<1>4. \A j \in 1..Len(BodyOf(reqs[i].body)) : BodyOf(reqs[i].body)[j] # NL
  BY BodyMarks
<1>5. PICK j \in 1..Len(h) : p + 2 = StartOf(reqs, i) + j /\ W[p + 2] = h[j]
  BY <1>1, <1>3, <1>4
<1>6. /\ StartOf(reqs, i) \in Nat /\ Len(h) \in Nat /\ HeadEnd(reqs, i) = StartOf(reqs, i) + Len(h)
      /\ \A m \in 1..Len(h) : W[StartOf(reqs, i) + m] = h[m]
  BY Places, PiecesOnWire
<1>7. h[1] # NL
  <2>1. h[1] = Ge
    <3>1. 1 \in 1..Len(h)
      BY <1>6
    <3> QED
      BY <3>1, HeadMarks
  <2> QED
    BY <2>1, SymbolsOfTheWire
<1> HIDE DEF h, W
<1>8. j \in 2..Len(h) /\ j - 1 \in 1..Len(h) /\ StartOf(reqs, i) + (j - 1) = p + 1
  BY <1>1, <1>5, <1>6, <1>7
<1>9. h[j - 1] = NL /\ h[j] = NL
  BY <1>1, <1>5, <1>6, <1>8
<1>10. j = Len(h)
  BY <1>8, <1>9, HeadMarks DEF h
<1> QED
  BY <1>5, <1>6, <1>10

\* Request targets are in request lines only.
LEMMA Targets ==
    ASSUME NEW reqs \in Seq(Requests), NEW q \in 1..Len(RequestBytes(reqs)),
           RequestBytes(reqs)[q] = Target
    PROVE  \E i \in 1..Len(reqs) : q = StartOf(reqs, i) + 3
<1>1. PICK i \in 1..Len(reqs) :
         \/ \E j \in 1..Len(HeadOf(reqs[i], i)) :
               q = StartOf(reqs, i) + j /\ RequestBytes(reqs)[q] = HeadOf(reqs[i], i)[j]
         \/ \E j \in 1..Len(BodyOf(reqs[i].body)) :
               q = HeadEnd(reqs, i) + j /\ RequestBytes(reqs)[q] = BodyOf(reqs[i].body)[j]
  BY SymbolAt
<1>2. \A j \in 1..Len(HeadOf(reqs[i], i)) : HeadOf(reqs[i], i)[j] = Target => j = 3
  BY HeadMarks
<1>3. \A j \in 1..Len(BodyOf(reqs[i].body)) : BodyOf(reqs[i].body)[j] # Target
  BY BodyMarks
<1> QED
  BY <1>1, <1>2, <1>3

\* What stands at the start and at the end of each head, and in a body that is
\* a method word.
LEMMA MarksOnWire ==
    ASSUME NEW reqs \in Seq(Requests), NEW i \in 1..Len(reqs)
    PROVE  LET W == RequestBytes(reqs)
           IN  /\ W \in Seq(Symbols)
               /\ StartOf(reqs, i) \in Nat
               /\ HeadEnd(reqs, i) = StartOf(reqs, i) + Len(HeadOf(reqs[i], i))
               /\ HeadEnd(reqs, i) \in Nat
               /\ HeadEnd(reqs, i) >= StartOf(reqs, i) + 7
               /\ HeadEnd(reqs, i) <= StartOf(reqs, i + 1)
               /\ StartOf(reqs, i + 1) \in Nat
               /\ StartOf(reqs, i + 1) <= Len(W)
               /\ PairAt(W, StartOf(reqs, i), <<Ge, Et>>)
               /\ W[StartOf(reqs, i) + 3] = Target
               /\ W[StartOf(reqs, i) + 4] = NL
               /\ PairAt(W, HeadEnd(reqs, i) - 2, <<NL, NL>>)
               /\ reqs[i].body = "method" => /\ PairAt(W, HeadEnd(reqs, i), <<Ge, Et>>)
                                             /\ StartOf(reqs, i + 1) = HeadEnd(reqs, i) + 3
<1> DEFINE W == RequestBytes(reqs)
           h == HeadOf(reqs[i], i)
           b == BodyOf(reqs[i].body)
           s == StartOf(reqs, i)
           t == HeadEnd(reqs, i)
<1>1. /\ s \in Nat /\ Len(h) \in Nat /\ Len(b) \in Nat /\ t = s + Len(h)
      /\ StartOf(reqs, i + 1) = t + Len(b)
  BY Places
<1>2. /\ W \in Seq(Symbols) /\ StartOf(reqs, i + 1) <= Len(W)
      /\ \A j \in 1..Len(h) : W[s + j] = h[j]
      /\ \A j \in 1..Len(b) : W[t + j] = b[j]
  BY PiecesOnWire
<1>3. /\ Len(h) = IF reqs[i].auth = "none" THEN 7 ELSE 9
      /\ \A j \in 1..Len(h) : h[j] = Ge <=> j = 1
      /\ \A j \in 1..Len(h) : h[j] = Target <=> j = 3
      /\ \A j \in 2..Len(h) : h[j - 1] = NL /\ h[j] = NL <=> j = Len(h)
      /\ h[2] = Et /\ h[4] = NL
  BY HeadMarks
<1>4. /\ \A j \in 1..Len(b) : b[j] = Ge <=> j = 1 /\ reqs[i].body = "method"
      /\ reqs[i].body = "method" => Len(b) = 3 /\ b[2] = Et
  BY BodyMarks
<1> HIDE DEF W, h, b, s, t
<1>5. h[1] = Ge /\ h[3] = Target /\ h[Len(h) - 1] = NL /\ h[Len(h)] = NL
  BY <1>3
<1>6. W[s + 1] = Ge /\ W[s + 2] = Et /\ W[s + 3] = Target /\ W[s + 4] = NL
  BY <1>2, <1>3, <1>5
<1>7. W[t - 2 + 1] = NL /\ W[t - 2 + 2] = NL
  <2>1. t - 2 + 1 = s + (Len(h) - 1) /\ t - 2 + 2 = s + Len(h) /\ Len(h) - 1 \in 1..Len(h) /\ Len(h) \in 1..Len(h)
    BY <1>1, <1>3
  <2> QED
    BY <1>2, <1>5, <2>1
<1>8. ASSUME reqs[i].body = "method"
      PROVE  W[t + 1] = Ge /\ W[t + 2] = Et
  <2>1. Len(b) = 3 /\ b[2] = Et
    BY <1>4, <1>8
  <2>2. 1 \in 1..Len(b) /\ 2 \in 1..Len(b)
    BY <2>1
  <2>3. b[1] = Ge
    BY <1>4, <1>8, <2>2
  <2> QED
    BY <1>2, <2>1, <2>2, <2>3
<1>9. PairAt(W, s, <<Ge, Et>>) /\ PairAt(W, t - 2, <<NL, NL>>)
  BY <1>6, <1>7 DEF PairAt
<1>10. reqs[i].body = "method" => PairAt(W, t, <<Ge, Et>>) /\ StartOf(reqs, i + 1) = t + 3
  BY <1>1, <1>4, <1>8 DEF PairAt
<1>11. /\ t <= StartOf(reqs, i + 1) /\ StartOf(reqs, i + 1) \in Nat
       /\ t \in Nat /\ t >= s + 7
  BY <1>1, <1>3
<1> QED
  BY <1>1, <1>2, <1>6, <1>9, <1>10, <1>11, Zenon DEF W, h, s, t

-----------------------------------------------------------------------------
(* The functions of token.rs on a window of what a client sends.           *)

\* There is no method word in the window, or it starts with one: what
\* find_http1_method_offset and the drain after it leave.
Settled(w, o, e) ==
    \/ PairAt(w, o, <<Ge, Et>>) /\ o + 2 <= e
    \/ \A p \in o..(e - 2) : ~PairAt(w, p, <<Ge, Et>>)

\* A body that is a method word stands before the i-th request.
AfterMethod(reqs, i) == i > 1 /\ reqs[i - 1].body = "method"

\* The requests that start between two places.
Between(reqs, o, o2) == {i \in 1..Len(reqs) : o <= StartOf(reqs, i) /\ StartOf(reqs, i) < o2}

\* A request between two places is before or after a third one.
LEMMA BetweenSplits ==
    ASSUME NEW reqs \in Seq(Requests), NEW o \in Nat, NEW o2 \in Nat, NEW o3 \in Nat
    PROVE  Between(reqs, o, o3) \subseteq Between(reqs, o, o2) \cup Between(reqs, o2, o3)
<1>1. \A i \in 1..Len(reqs) : StartOf(reqs, i) \in Nat
  BY MarksOnWire
<1> QED
  BY <1>1 DEF Between

\* What stands before a method word is no request.
LEMMA FromMethodKeepsHeads ==
    ASSUME NEW reqs \in Seq(Requests), NEW e \in 0..Len(RequestBytes(reqs)), NEW o \in 0..e
    PROVE  \E o2 \in o..e :
              /\ FromMethod(Window(RequestBytes(reqs), o, e)) = Window(RequestBytes(reqs), o2, e)
              /\ Settled(RequestBytes(reqs), o2, e)
              /\ Between(reqs, o, o2) = {}
<1> DEFINE W == RequestBytes(reqs)
<1>1. W \in Seq(Symbols)
  BY BytesType
<1>2. PICK o2 \in o..e :
         /\ FromMethod(Window(W, o, e)) = Window(W, o2, e)
         /\ \A p \in o..(o2 - 1) : ~PairAt(W, p, <<Ge, Et>>)
         /\ \/ PairAt(W, o2, <<Ge, Et>>) /\ o2 + 2 <= e
            \/ \A p \in o2..(e - 2) : ~PairAt(W, p, <<Ge, Et>>)
  BY <1>1, FromMethodOfWindow
<1> HIDE DEF W
<1>3. Settled(W, o2, e)
  BY <1>2 DEF Settled
<1>4. Between(reqs, o, o2) = {}
  <2>1. SUFFICES ASSUME NEW i \in 1..Len(reqs), o <= StartOf(reqs, i), StartOf(reqs, i) < o2
                 PROVE  FALSE
    BY DEF Between
  <2>2. PairAt(W, StartOf(reqs, i), <<Ge, Et>>) /\ StartOf(reqs, i) \in Nat
    BY MarksOnWire DEF W
  <2>3. StartOf(reqs, i) \in o..(o2 - 1)
    BY <2>1, <2>2
  <2> QED
    BY <1>2, <2>2, <2>3
<1> QED
  BY <1>2, <1>3, <1>4, Zenon DEF W

\* A header that is found ends where the next head ends.
LEMMA HeaderEndsHead ==
    ASSUME NEW reqs \in Seq(Requests), NEW e \in 0..Len(RequestBytes(reqs)), NEW o \in 0..e
    PROVE  LET h == HeaderLen(Window(RequestBytes(reqs), o, e))
           IN  \/ /\ h = 0
                  /\ \A i \in 1..Len(reqs) : ~(o + 2 <= HeadEnd(reqs, i) /\ HeadEnd(reqs, i) <= e)
               \/ /\ h \in 2..(e - o)
                  /\ \E j \in 1..Len(reqs) :
                        /\ o + h = HeadEnd(reqs, j)
                        /\ \A i \in 1..Len(reqs) :
                              ~(o + 2 <= HeadEnd(reqs, i) /\ HeadEnd(reqs, i) < HeadEnd(reqs, j))
<1> DEFINE W == RequestBytes(reqs)
           h == HeaderLen(Window(W, o, e))
<1>1. W \in Seq(Symbols)
  BY BytesType
<1>2. \/ /\ h = 0
         /\ \A p \in o..(e - 2) : ~PairAt(W, p, <<NL, NL>>)
      \/ /\ h \in 2..(e - o)
         /\ PairAt(W, o + h - 2, <<NL, NL>>)
         /\ \A p \in o..(o + h - 3) : ~PairAt(W, p, <<NL, NL>>)
  BY <1>1, HeaderLenOfWindow
<1>3. \A i \in 1..Len(reqs) : HeadEnd(reqs, i) \in Nat /\ PairAt(W, HeadEnd(reqs, i) - 2, <<NL, NL>>)
  BY MarksOnWire
<1>4. e \in Nat /\ e <= Len(W) /\ o \in Nat
  BY <1>1
<1> HIDE DEF W, h
<1>5. CASE /\ h = 0
           /\ \A p \in o..(e - 2) : ~PairAt(W, p, <<NL, NL>>)
  <2>1. ASSUME NEW i \in 1..Len(reqs), o + 2 <= HeadEnd(reqs, i) /\ HeadEnd(reqs, i) <= e
        PROVE  FALSE
    <3>1. HeadEnd(reqs, i) - 2 \in o..(e - 2)
      BY <1>3, <1>4, <2>1
    <3> QED
      BY <1>3, <1>5, <3>1
  <2> QED
    BY <1>5, <2>1 DEF h, W
<1>6. CASE /\ h \in 2..(e - o)
           /\ PairAt(W, o + h - 2, <<NL, NL>>)
           /\ \A p \in o..(o + h - 3) : ~PairAt(W, p, <<NL, NL>>)
  <2>1. o + h - 2 \in Nat /\ o + h - 2 + 2 <= Len(W) /\ o + h - 2 + 2 = o + h
    BY <1>1, <1>4, <1>6
  <2>2. PICK j \in 1..Len(reqs) : o + h = HeadEnd(reqs, j)
    BY <1>6, <2>1, EmptyLines DEF W
  <2>3. ASSUME NEW i \in 1..Len(reqs), o + 2 <= HeadEnd(reqs, i) /\ HeadEnd(reqs, i) < HeadEnd(reqs, j)
        PROVE  FALSE
    <3>1. HeadEnd(reqs, i) - 2 \in o..(o + h - 3)
      BY <1>3, <1>4, <1>6, <2>2, <2>3
    <3> QED
      BY <1>3, <1>6, <3>1
  <2> QED
    BY <1>6, <2>2, <2>3, Zenon DEF h, W
<1> QED
  BY <1>2, <1>5, <1>6

\* A request line stands where a request starts and its head is whole.
LEMMA RequestLineOfWindow ==
    ASSUME NEW reqs \in Seq(Requests), NEW e \in 0..Len(RequestBytes(reqs)), NEW o \in 0..e
    PROVE  LET buf == Window(RequestBytes(reqs), o, e)
           IN  /\ HasRequestLine(buf) <=>
                     \E i \in 1..Len(reqs) : o = StartOf(reqs, i) /\ HeadEnd(reqs, i) <= e
               /\ \A i \in 1..Len(reqs) :
                     (o = StartOf(reqs, i) /\ HeadEnd(reqs, i) <= e)
                        => o + HeaderLen(buf) = HeadEnd(reqs, i)
<1> DEFINE W == RequestBytes(reqs)
           buf == Window(W, o, e)
           h == HeaderLen(buf)
<1>1. W \in Seq(Symbols)
  BY BytesType
<1>2. buf \in Seq(Symbols) /\ Len(buf) = e - o /\ \A i \in 1..(e - o) : buf[i] = W[o + i]
  BY <1>1, WindowFacts
<1>3. e \in Nat /\ e <= Len(W) /\ o \in Nat
  BY <1>1
<1>4. \/ /\ h = 0
         /\ \A i \in 1..Len(reqs) : ~(o + 2 <= HeadEnd(reqs, i) /\ HeadEnd(reqs, i) <= e)
      \/ /\ h \in 2..(e - o)
         /\ \E j \in 1..Len(reqs) :
               /\ o + h = HeadEnd(reqs, j)
               /\ \A i \in 1..Len(reqs) :
                     ~(o + 2 <= HeadEnd(reqs, i) /\ HeadEnd(reqs, i) < HeadEnd(reqs, j))
  BY HeaderEndsHead
<1> HIDE DEF buf, h
<1>5. IsPrefix(<<Ge, Et, Target, NL>>, buf)
         <=> Len(buf) >= 4 /\ buf[1] = Ge /\ buf[2] = Et /\ buf[3] = Target /\ buf[4] = NL
  <2> DEFINE x == <<Ge, Et, Target, NL>>
  <2>1. x \in Seq(Symbols) /\ Len(x) = 4 /\ x[1] = Ge /\ x[2] = Et /\ x[3] = Target /\ x[4] = NL
    BY SymbolsOfTheWire
  <2> HIDE DEF x
  <2>2. SubSeq(x, 1, 4) = x
    BY <2>1, SubSeqFull
  <2>3. CASE Len(buf) >= 4
    <3>1. /\ SubSeq(buf, 1, 4) \in Seq(Symbols) /\ Len(SubSeq(buf, 1, 4)) = 4
          /\ \A i \in 1..4 : SubSeq(buf, 1, 4)[i] = buf[i]
      BY <1>2, <2>3
    <3>2. x = SubSeq(buf, 1, 4) <=> \A i \in 1..4 : x[i] = buf[i]
      BY <2>1, <3>1, SeqEqual
    <3>3. (\A i \in 1..4 : x[i] = buf[i]) <=> (x[1] = buf[1] /\ x[2] = buf[2] /\ x[3] = buf[3] /\ x[4] = buf[4])
      OBVIOUS
    <3>4. IsPrefix(x, buf) <=> x = SubSeq(buf, 1, 4)
      BY <2>1, <2>2, <2>3, <1>2 DEF IsPrefix
    <3> QED
      BY <2>1, <2>3, <3>2, <3>3, <3>4 DEF x
  <2>4. CASE ~(Len(buf) >= 4)
    BY <1>2, <2>1, <2>4 DEF x, IsPrefix
  <2> QED
    BY <2>3, <2>4
<1>6. \A i \in 1..Len(reqs) :
         /\ StartOf(reqs, i) \in Nat
         /\ HeadEnd(reqs, i) \in Nat
         /\ HeadEnd(reqs, i) >= StartOf(reqs, i) + 7
         /\ PairAt(W, StartOf(reqs, i), <<Ge, Et>>)
         /\ W[StartOf(reqs, i) + 3] = Target
         /\ W[StartOf(reqs, i) + 4] = NL
  BY MarksOnWire
<1> HIDE DEF W
<1>7. ASSUME NEW i \in 1..Len(reqs), o = StartOf(reqs, i), HeadEnd(reqs, i) <= e
      PROVE  HasRequestLine(buf) /\ o + h = HeadEnd(reqs, i)
  <2>1. HeadEnd(reqs, i) >= o + 7 /\ HeadEnd(reqs, i) \in Nat
    BY <1>6, <1>7
  <2>2. h \in 2..(e - o)
    BY <1>3, <1>4, <1>7, <2>1
  <2>3. PICK j \in 1..Len(reqs) :
           /\ o + h = HeadEnd(reqs, j)
           /\ \A m \in 1..Len(reqs) :
                 ~(o + 2 <= HeadEnd(reqs, m) /\ HeadEnd(reqs, m) < HeadEnd(reqs, j))
    BY <1>4, <2>2
  <2>4. ~(HeadEnd(reqs, i) < HeadEnd(reqs, j))
    BY <1>3, <2>1, <2>3
  <2>5. ~(j < i)
    <3>1. SUFFICES ASSUME j < i
                   PROVE  FALSE
      OBVIOUS
    <3>2. i \in (j + 1)..(Len(reqs) + 1)
      BY <3>1
    <3>3. HeadEnd(reqs, j) <= StartOf(reqs, i)
      BY <3>2, HeadsInOrder
    <3> QED
      BY <1>3, <1>7, <2>2, <2>3, <3>3
  <2>6. ~(i < j)
    <3>1. SUFFICES ASSUME i < j
                   PROVE  FALSE
      OBVIOUS
    <3>2. j \in (i + 1)..(Len(reqs) + 1)
      BY <3>1
    <3>3. HeadEnd(reqs, i) <= StartOf(reqs, j)
      BY <3>2, HeadsInOrder
    <3> QED
      BY <1>6, <2>4, <3>3
  <2>7. i = j
    BY <2>5, <2>6
  <2>8. W[o + 1] = Ge /\ W[o + 2] = Et /\ W[o + 3] = Target /\ W[o + 4] = NL
    BY <1>6, <1>7 DEF PairAt
  <2>9. Len(buf) >= 4 /\ buf[1] = Ge /\ buf[2] = Et /\ buf[3] = Target /\ buf[4] = NL
    <3>1. {1, 2, 3, 4} \subseteq 1..(e - o) /\ e - o >= 4
      BY <1>3, <1>7, <2>1
    <3> QED
      BY <1>2, <2>8, <3>1
  <2> QED
    BY <1>5, <2>2, <2>3, <2>7, <2>9 DEF HasRequestLine, h
<1>8. ASSUME HasRequestLine(buf)
      PROVE  \E i \in 1..Len(reqs) : o = StartOf(reqs, i) /\ HeadEnd(reqs, i) <= e
  <2>1. h > 0 /\ Len(buf) >= 4 /\ buf[3] = Target
    BY <1>5, <1>8 DEF HasRequestLine, h
  <2>2. o + 3 \in 1..Len(W) /\ W[o + 3] = Target
    BY <1>1, <1>2, <1>3, <2>1
  <2>3. PICK i \in 1..Len(reqs) : o + 3 = StartOf(reqs, i) + 3
    BY <2>2, Targets DEF W
  <2>4. o = StartOf(reqs, i)
    BY <1>3, <1>6, <2>3
  <2>5. h \in 2..(e - o)
    BY <1>4, <2>1
  <2>6. PICK j \in 1..Len(reqs) : o + h = HeadEnd(reqs, j)
    BY <1>4, <2>5
  <2>7. ~(j < i)
    <3>1. SUFFICES ASSUME j < i
                   PROVE  FALSE
      OBVIOUS
    <3>2. i \in (j + 1)..(Len(reqs) + 1)
      BY <3>1
    <3>3. HeadEnd(reqs, j) <= StartOf(reqs, i)
      BY <3>2, HeadsInOrder
    <3> QED
      BY <1>3, <2>4, <2>5, <2>6, <3>3
  <2>8. HeadEnd(reqs, i) <= HeadEnd(reqs, j)
    <3>1. CASE i = j
      BY <1>6, <3>1
    <3>2. CASE i < j
      <4>1. j \in (i + 1)..(Len(reqs) + 1)
        BY <3>2
      <4>2. HeadEnd(reqs, i) <= StartOf(reqs, j)
        BY <4>1, HeadsInOrder
      <4> QED
        BY <1>6, <4>2
    <3> QED
      BY <2>7, <3>1, <3>2
  <2>9. HeadEnd(reqs, i) <= e
    BY <1>3, <1>6, <2>5, <2>6, <2>8
  <2> QED
    BY <2>4, <2>9
<1> QED
  BY <1>7, <1>8, Zenon DEF h, buf, W

-----------------------------------------------------------------------------
(* The loop of parse_stream.                                               *)

\* Two heads that are not the same stand apart.
LEMMA Apart ==
    ASSUME NEW reqs \in Seq(Requests), NEW i \in 1..Len(reqs), NEW j \in 1..Len(reqs)
    PROVE  /\ StartOf(reqs, i) \in Nat
           /\ HeadEnd(reqs, i) \in Nat
           /\ HeadEnd(reqs, i) >= StartOf(reqs, i) + 7
           /\ i < j => HeadEnd(reqs, i) <= StartOf(reqs, j)
<1>1. ASSUME i < j
      PROVE  HeadEnd(reqs, i) <= StartOf(reqs, j)
  <2>1. j \in (i + 1)..(Len(reqs) + 1)
    BY <1>1
  <2> QED
    BY <2>1, HeadsInOrder
<1> QED
  BY <1>1, MarksOnWire

\* A head that is skipped takes one request with it at most: the one after a
\* method word.
LEMMA SkippedHead ==
    ASSUME NEW reqs \in Seq(Requests), NEW e \in 0..Len(RequestBytes(reqs)), NEW o \in 0..e,
           Settled(RequestBytes(reqs), o, e),
           ~HasRequestLine(Window(RequestBytes(reqs), o, e)),
           NEW j \in 1..Len(reqs), NEW h \in 2..(e - o), o + h = HeadEnd(reqs, j),
           \A i \in 1..Len(reqs) : ~(o + 2 <= HeadEnd(reqs, i) /\ HeadEnd(reqs, i) < HeadEnd(reqs, j)),
           NEW i \in Between(reqs, o, o + h)
    PROVE  AfterMethod(reqs, i)
<1> DEFINE W == RequestBytes(reqs)
<1>1. i \in 1..Len(reqs) /\ o <= StartOf(reqs, i) /\ StartOf(reqs, i) < HeadEnd(reqs, j)
  BY DEF Between
<1>2. e \in Nat /\ o \in Nat /\ o + h <= e
  BY BytesType
<1>3. /\ StartOf(reqs, i) \in Nat /\ HeadEnd(reqs, i) \in Nat
      /\ HeadEnd(reqs, i) >= StartOf(reqs, i) + 7
      /\ StartOf(reqs, j) \in Nat /\ HeadEnd(reqs, j) \in Nat
      /\ HeadEnd(reqs, j) >= StartOf(reqs, j) + 7
      /\ i < j => HeadEnd(reqs, i) <= StartOf(reqs, j)
      /\ j < i => HeadEnd(reqs, j) <= StartOf(reqs, i)
  BY <1>1, Apart
<1>4. i = j
  BY <1>1, <1>2, <1>3
<1>5. PairAt(W, o, <<Ge, Et>>) /\ o + 2 <= e
  <2>1. PairAt(W, StartOf(reqs, i), <<Ge, Et>>)
    BY <1>1, MarksOnWire
  <2>2. StartOf(reqs, i) \in o..(e - 2)
    BY <1>1, <1>2, <1>3, <1>4
  <2> QED
    BY <2>1, <2>2 DEF Settled
<1>6. PICK m \in 1..Len(reqs) :
         \/ o = StartOf(reqs, m)
         \/ o = HeadEnd(reqs, m) /\ reqs[m].body = "method"
  <2>1. o + 2 <= Len(W)
    BY <1>2, <1>5, BytesType
  <2> QED
    BY <1>2, <1>5, <2>1, MethodWords
<1>7. /\ StartOf(reqs, m) \in Nat /\ HeadEnd(reqs, m) \in Nat
      /\ HeadEnd(reqs, m) >= StartOf(reqs, m) + 7
      /\ i < m => HeadEnd(reqs, i) <= StartOf(reqs, m)
      /\ m < i => HeadEnd(reqs, m) <= StartOf(reqs, i)
  BY <1>1, Apart
<1>8. o # StartOf(reqs, m)
  <2>1. SUFFICES ASSUME o = StartOf(reqs, m)
                 PROVE  FALSE
    OBVIOUS
  <2>2. HeadEnd(reqs, m) <= e
    BY <1>1, <1>2, <1>3, <1>4, <1>7, <2>1
  <2> QED
    BY <2>1, <2>2, RequestLineOfWindow
<1>9. o = HeadEnd(reqs, m) /\ reqs[m].body = "method"
  BY <1>6, <1>8
<1>10. m < i
  <2>1. HeadEnd(reqs, m) <= StartOf(reqs, i)
    BY <1>1, <1>9
  <2>2. m # i
    BY <1>3, <2>1
  <2>3. ~(i < m)
    BY <1>3, <1>7, <2>1
  <2> QED
    BY <1>1, <2>2, <2>3
<1>11. m + 1 = i
  <2>1. SUFFICES ASSUME m + 1 < i
                 PROVE  FALSE
    BY <1>1, <1>10
  <2>2. m + 1 \in 1..Len(reqs)
    BY <1>1, <2>1
  <2>3. /\ StartOf(reqs, m + 1) \in Nat /\ HeadEnd(reqs, m + 1) \in Nat
        /\ HeadEnd(reqs, m + 1) >= StartOf(reqs, m + 1) + 7
        /\ HeadEnd(reqs, m + 1) <= StartOf(reqs, i)
    BY <1>1, <2>1, <2>2, Apart
  <2>4. HeadEnd(reqs, m) <= StartOf(reqs, m + 1)
    BY MarksOnWire
  <2>5. o + 2 <= HeadEnd(reqs, m + 1)
    BY <1>2, <1>9, <2>3, <2>4
  <2>6. HeadEnd(reqs, m + 1) < HeadEnd(reqs, j)
    BY <1>1, <1>3, <2>3
  <2> QED
    BY <2>2, <2>5, <2>6
<1> QED
  <2>1. i > 1 /\ i - 1 = m
    BY <1>10, <1>11
  <2> QED
    BY <1>9, <2>1, Zenon DEF AfterMethod

\* What one turn of the loop leaves.
LEMMA SkipKeepsHeads ==
    ASSUME NEW reqs \in Seq(Requests), NEW e \in 0..Len(RequestBytes(reqs)), NEW o \in 0..e,
           Settled(RequestBytes(reqs), o, e),
           Skips(Window(RequestBytes(reqs), o, e))
    PROVE  \E o2 \in o..e :
              /\ FromMethod(AfterHead(Window(RequestBytes(reqs), o, e)))
                    = Window(RequestBytes(reqs), o2, e)
              /\ Settled(RequestBytes(reqs), o2, e)
              /\ \A i \in Between(reqs, o, o2) : AfterMethod(reqs, i)
<1> DEFINE W == RequestBytes(reqs)
           buf == Window(W, o, e)
           h == HeaderLen(buf)
<1>1. W \in Seq(Symbols) /\ e \in Nat /\ o \in Nat /\ e <= Len(W)
  BY BytesType
<1>2. h > 0 /\ ~HasRequestLine(buf)
  BY DEF Skips
<1>3. /\ h \in 2..(e - o)
      /\ \E j \in 1..Len(reqs) :
            /\ o + h = HeadEnd(reqs, j)
            /\ \A i \in 1..Len(reqs) :
                  ~(o + 2 <= HeadEnd(reqs, i) /\ HeadEnd(reqs, i) < HeadEnd(reqs, j))
  <2>1. h # 0
    <3> HIDE DEF h
    <3> QED
      BY <1>2
  <2> QED
    BY <2>1, HeaderEndsHead, Zenon
<1>4. \A i \in Between(reqs, o, o + h) : AfterMethod(reqs, i)
  <2> HIDE DEF h
  <2> QED
    BY <1>2, <1>3, SkippedHead
<1>5. AfterHead(buf) = Window(W, o + h, e)
  <2>1. AfterHead(buf) = SubSeq(buf, h + 1, Len(buf))
    BY DEF AfterHead
  <2>2. h \in 0..(e - o)
    <3> HIDE DEF h
    <3> QED
      BY <1>3
  <2> HIDE DEF h
  <2> QED
    BY <1>1, <2>1, <2>2, WindowTail
<1> HIDE DEF h
<1>6. o + h \in 0..e
  BY <1>1, <1>3
<1>7. PICK o2 \in (o + h)..e :
         /\ FromMethod(Window(W, o + h, e)) = Window(W, o2, e)
         /\ Settled(W, o2, e)
         /\ Between(reqs, o + h, o2) = {}
  BY <1>6, FromMethodKeepsHeads
<1>8. o2 \in o..e /\ o2 \in Nat /\ o + h \in Nat
  BY <1>1, <1>3
<1>9. \A i \in Between(reqs, o, o2) : AfterMethod(reqs, i)
  <2>1. Between(reqs, o, o2) \subseteq Between(reqs, o, o + h) \cup Between(reqs, o + h, o2)
    BY <1>1, <1>8, BetweenSplits
  <2> QED
    BY <1>4, <1>7, <2>1
<1> QED
  BY <1>5, <1>7, <1>8, <1>9, Zenon

\* f takes the turns of the loop of Scanned.
IsLeft(f, buf, n) ==
    f = [m \in 0..n |-> IF m = 0 THEN FromMethod(buf)
                        ELSE IF Skips(f[m - 1]) THEN FromMethod(AfterHead(f[m - 1]))
                             ELSE f[m - 1]]

\* A turn of the loop of parse_stream.
Turn(buf) == IF Skips(buf) THEN FromMethod(AfterHead(buf)) ELSE buf

\* One step of such a function.
LEMMA LeftStep ==
    ASSUME NEW n \in Nat, NEW buf, NEW f, IsLeft(f, buf, n), NEW i \in 0..n
    PROVE  f[i] = IF i = 0 THEN FromMethod(buf) ELSE Turn(f[i - 1])
<1> DEFINE e(j) == IF j = 0 THEN FromMethod(buf)
                   ELSE IF Skips(f[j - 1]) THEN FromMethod(AfterHead(f[j - 1])) ELSE f[j - 1]
           R == [j \in 0..n |-> e(j)]
<1>1. f = R
  BY DEF IsLeft
<1>2. R[i] = e(i)
  <2> HIDE DEF e
  <2> QED
    OBVIOUS
<1>3. e(i) = IF i = 0 THEN FromMethod(buf) ELSE Turn(f[i - 1])
  BY Zenon DEF Turn
<1> HIDE DEF R, e
<1> QED
  BY <1>1, <1>2, <1>3, Zenon

\* There is such a function, however long the buffer is.
LEMMA LeftExists ==
    ASSUME NEW buf, NEW n \in Nat
    PROVE  \E f : IsLeft(f, buf, n)
<1> DEFINE Bad == {m \in Nat : ~ \E f : IsLeft(f, buf, m)}
<1>1. SUFFICES ASSUME Bad # {}
               PROVE  FALSE
  OBVIOUS
<1>2. PICK m \in Bad : \A y \in Bad : m <= y
  <2>1. Bad \subseteq Nat
    OBVIOUS
  <2> HIDE DEF Bad
  <2> QED
    BY <1>1, <2>1, LeastNat
<1> DEFINE e(g, i) == IF i = 0 THEN FromMethod(buf)
                      ELSE IF Skips(g[i - 1]) THEN FromMethod(AfterHead(g[i - 1])) ELSE g[i - 1]
<1>3. m \in Nat /\ m # 0
  <2> DEFINE g == [i \in 0..0 |-> FromMethod(buf)]
  <2>1. \A i \in 0..0 : i = 0 /\ e(g, i) = FromMethod(buf)
    BY SMT
  <2>2. IsLeft(g, buf, 0)
    <3> HIDE DEF e
    <3>1. g = [i \in 0..0 |-> e(g, i)]
      BY <2>1
    <3> QED
      BY <3>1, Zenon DEF IsLeft, e
  <2> QED
    BY <2>2
<1>4. PICK f : IsLeft(f, buf, m - 1)
  <2>1. m - 1 \in Nat /\ ~ (m <= m - 1)
    BY <1>3
  <2>2. m - 1 \notin Bad
    BY <1>2, <2>1
  <2> QED
    BY <2>1, <2>2, Zenon
<1> DEFINE g == [i \in 0..m |-> IF i = m THEN Turn(f[m - 1]) ELSE f[i]]
<1>5. IsLeft(g, buf, m)
  <2>1. ASSUME NEW i \in 0..m
        PROVE  g[i] = e(g, i)
    <3>1. i \in Nat /\ (i # m => i \in 0..(m - 1)) /\ (i # 0 => i - 1 \in 0..m /\ i - 1 # m)
      BY <1>3
    <3>2. i # 0 => g[i - 1] = f[i - 1]
      BY <3>1
    <3>3. g[i] = IF i = m THEN Turn(f[m - 1]) ELSE f[i]
      OBVIOUS
    <3>4. i # m => f[i] = IF i = 0 THEN FromMethod(buf) ELSE Turn(f[i - 1])
      <4>1. m - 1 \in Nat
        BY <1>3
      <4> QED
        BY <1>4, <3>1, <4>1, LeftStep
    <3>5. e(g, i) = IF i = 0 THEN FromMethod(buf) ELSE Turn(g[i - 1])
      BY Zenon DEF Turn
    <3> HIDE DEF g, e
    <3>6. CASE i = m
      BY <1>3, <3>2, <3>3, <3>5, <3>6
    <3>7. CASE i # m
      BY <3>2, <3>3, <3>4, <3>5, <3>7
    <3> QED
      BY <3>6, <3>7
  <2>2. g = [i \in 0..m |-> g[i]]
    OBVIOUS
  <2>3. g = [i \in 0..m |-> e(g, i)]
    <3> HIDE DEF g, e
    <3> QED
      BY <2>1, <2>2
  <2> HIDE DEF g
  <2> QED
    BY <2>3, Zenon DEF IsLeft
<1> QED
  BY <1>3, <1>5

\* The function Scanned is defined by, and its value.
LEMMA ScannedValue ==
    ASSUME NEW buf, Len(buf) \in Nat
    PROVE  \E f : /\ f[0] = FromMethod(buf)
                  /\ \A i \in 1..Len(buf) : f[i] = Turn(f[i - 1])
                  /\ Scanned(buf) = f[Len(buf)]
<1> DEFINE F == CHOOSE f : IsLeft(f, buf, Len(buf))
<1>1. IsLeft(F, buf, Len(buf))
  BY LeftExists, Zenon
<1>2. Scanned(buf) = F[Len(buf)]
  BY Zenon DEF Scanned, IsLeft
<1> HIDE DEF F
<1>3. F[0] = FromMethod(buf)
  BY <1>1, LeftStep
<1>4. ASSUME NEW i \in 1..Len(buf)
      PROVE  F[i] = Turn(F[i - 1])
  <2>1. i \in 0..Len(buf) /\ i # 0
    OBVIOUS
  <2> QED
    BY <1>1, <2>1, LeftStep
<1> QED
  BY <1>2, <1>3, <1>4

\* What holds of the buffer before the loop, and is kept by each turn, holds
\* after the loop.
LEMMA LoopKeeps ==
    ASSUME NEW buf, Len(buf) \in Nat, NEW Good,
           FromMethod(buf) \in Good, \A b \in Good : Turn(b) \in Good
    PROVE  Scanned(buf) \in Good
<1>1. PICK f : /\ f[0] = FromMethod(buf)
               /\ \A i \in 1..Len(buf) : f[i] = Turn(f[i - 1])
               /\ Scanned(buf) = f[Len(buf)]
  BY ScannedValue
<1>2. \A i \in 0..Len(buf) : f[i] \in Good
  <2> DEFINE Bad == {i \in 0..Len(buf) : f[i] \notin Good}
  <2>1. SUFFICES ASSUME Bad # {}
                 PROVE  FALSE
    OBVIOUS
  <2>2. PICK i \in Bad : \A y \in Bad : i <= y
    <3>1. Bad \subseteq Nat
      OBVIOUS
    <3> HIDE DEF Bad
    <3> QED
      BY <2>1, <3>1, LeastNat
  <2>3. i \in 0..Len(buf) /\ f[i] \notin Good
    OBVIOUS
  <2>4. i # 0
    BY <1>1, <2>3
  <2>5. i \in 1..Len(buf) /\ i - 1 \in 0..Len(buf) /\ ~(i <= i - 1)
    BY <2>3, <2>4
  <2>6. f[i - 1] \in Good
    BY <2>2, <2>5
  <2> QED
    BY <1>1, <2>3, <2>5, <2>6
<1>3. Len(buf) \in 0..Len(buf)
  OBVIOUS
<1> QED
  BY <1>1, <1>2, <1>3

\* The loop passes over requests that come after a method word, and no others.
LEMMA ScannedOfWindow ==
    ASSUME NEW reqs \in Seq(Requests), NEW e \in 0..Len(RequestBytes(reqs)), NEW o \in 0..e
    PROVE  \E o2 \in o..e :
              /\ Scanned(Window(RequestBytes(reqs), o, e)) = Window(RequestBytes(reqs), o2, e)
              /\ \A i \in Between(reqs, o, o2) : AfterMethod(reqs, i)
<1> DEFINE W == RequestBytes(reqs)
           buf == Window(W, o, e)
           At(o2) == /\ Settled(W, o2, e)
                     /\ \A i \in Between(reqs, o, o2) : AfterMethod(reqs, i)
           Good == {Window(W, o2, e) : o2 \in {x \in o..e : At(x)}}
<1>1. W \in Seq(Symbols) /\ e \in Nat /\ o \in Nat /\ Len(buf) \in Nat
  BY BytesType, WindowFacts
<1>2. FromMethod(buf) \in Good
  <2>1. PICK o2 \in o..e : /\ FromMethod(buf) = Window(W, o2, e)
                           /\ Settled(W, o2, e)
                           /\ Between(reqs, o, o2) = {}
    BY FromMethodKeepsHeads
  <2> QED
    BY <2>1
<1>3. ASSUME NEW b \in Good
      PROVE  Turn(b) \in Good
  <2>1. PICK o2 \in o..e : b = Window(W, o2, e) /\ At(o2)
    OBVIOUS
  <2>2. CASE ~Skips(b)
    BY <2>2, Zenon DEF Turn
  <2>3. CASE Skips(b)
    <3>1. o2 \in 0..e /\ o2 \in Nat
      BY <1>1
    <3>2. PICK o3 \in o2..e : /\ FromMethod(AfterHead(b)) = Window(W, o3, e)
                              /\ Settled(W, o3, e)
                              /\ \A i \in Between(reqs, o2, o3) : AfterMethod(reqs, i)
      BY <2>1, <2>3, <3>1, SkipKeepsHeads
    <3>3. o3 \in o..e /\ o3 \in Nat
      BY <1>1
    <3>4. Between(reqs, o, o3) \subseteq Between(reqs, o, o2) \cup Between(reqs, o2, o3)
      BY <1>1, <3>1, <3>3, BetweenSplits
    <3>5. At(o3)
      BY <2>1, <3>2, <3>4
    <3>6. Turn(b) = Window(W, o3, e)
      BY <2>3, <3>2 DEF Turn
    <3> HIDE DEF At
    <3> QED
      BY <3>3, <3>5, <3>6
  <2> QED
    BY <2>2, <2>3
<1>4. Scanned(buf) \in Good
  <2> HIDE DEF Good, buf
  <2> QED
    BY <1>1, <1>2, <1>3, LoopKeeps
<1> QED
  BY <1>4

-----------------------------------------------------------------------------
(* The token that is found.                                                *)

\* A header that is there once.
LEMMA HeaderValue ==
    ASSUME NEW buf, NEW name, NEW n \in Nat, Values(buf, name) = {n}
    PROVE  Header(buf, name) = buf[n][2]
<1>1. (CHOOSE i \in {n} : \A j \in {n} : j <= i) = n
  <2>1. \E i \in {n} : \A j \in {n} : j <= i
    OBVIOUS
  <2> QED
    BY <2>1
<1> QED
  BY <1>1, Zenon DEF Header

\* The headers of a request, once its head is whole.
LEMMA HeadersOfRequest ==
    ASSUME NEW reqs \in Seq(Requests), NEW e \in 0..Len(RequestBytes(reqs)),
           NEW i \in 1..Len(reqs), HeadEnd(reqs, i) <= e
    PROVE  LET buf == Window(RequestBytes(reqs), StartOf(reqs, i), e)
           IN  /\ Header(buf, "host") = IF reqs[i].host = "game" THEN 1 ELSE 0
               /\ Header(buf, "auth") = IF reqs[i].auth = "bearer" THEN i ELSE 0
<1> DEFINE W == RequestBytes(reqs)
           s == StartOf(reqs, i)
           buf == Window(W, s, e)
           h == HeadOf(reqs[i], i)
           a == HostLine(reqs[i].host)
           b == AuthLine(IF reqs[i].auth = "bearer" THEN i ELSE 0)
<1>1. /\ W \in Seq(Symbols) /\ e \in Nat /\ s \in Nat /\ s \in 0..e /\ Len(h) \in Nat
      /\ HeadEnd(reqs, i) = s + Len(h) /\ HeadEnd(reqs, i) >= s + 7
  <2>1. W \in Seq(Symbols) /\ e \in Nat /\ s \in Nat /\ HeadEnd(reqs, i) >= s + 7 /\ HeadEnd(reqs, i) \in Nat
    BY BytesType, MarksOnWire
  <2>2. Len(h) \in Nat /\ HeadEnd(reqs, i) = s + Len(h)
    BY Places
  <2> QED
    BY <2>1, <2>2
<1>2. HeaderLen(buf) = Len(h)
  <2>1. s + HeaderLen(buf) = HeadEnd(reqs, i)
    BY <1>1, RequestLineOfWindow
  <2>2. HeaderLen(buf) \in Nat
    <3>1. HeaderLen(buf) = 0 \/ HeaderLen(buf) \in 2..(e - s)
      BY <1>1, HeaderEndsHead
    <3> QED
      BY <1>1, <3>1
  <2> HIDE DEF buf, h, s
  <2> QED
    BY <1>1, <2>1, <2>2
<1>3. \A j \in 1..Len(h) : buf[j] = h[j]
  <2>1. \A j \in 1..(e - s) : buf[j] = W[s + j]
    BY <1>1, WindowFacts
  <2>2. \A j \in 1..Len(h) : W[s + j] = h[j]
    BY PiecesOnWire
  <2>3. \A j \in 1..Len(h) : j \in 1..(e - s)
    BY <1>1
  <2> QED
    BY <2>1, <2>2, <2>3
<1>4. /\ Len(h) = IF reqs[i].auth = "none" THEN 7 ELSE 9
      /\ h[4] = NL /\ h[5] = a /\ h[6] = NL
      /\ h[7] = IF reqs[i].auth = "none" THEN NL ELSE b
  <2>1. reqs[i] \in RequestKinds /\ i \in Nat
    BY PieceType
  <2> QED
    BY <2>1, HeadShape
<1>5. a # NL
  BY SymbolsOfTheWire
<1>6. /\ a[1] = "host" /\ a[2] = IF reqs[i].host = "game" THEN 1 ELSE 0
      /\ b[1] = "auth" /\ b[2] = IF reqs[i].auth = "bearer" THEN i ELSE 0
  BY DEF HostLine, AuthLine
<1> HIDE DEF buf, h, a, b
<1>7. buf[4] = NL /\ buf[5] = a /\ buf[6] = NL
  <2>1. 4 \in 1..Len(h) /\ 5 \in 1..Len(h) /\ 6 \in 1..Len(h)
    BY <1>4
  <2> QED
    BY <1>3, <1>4, <2>1
<1>8. CASE reqs[i].auth = "none"
  <2>1. HeaderLen(buf) = 7
    BY <1>2, <1>4, <1>8
  <2>2. 5..(HeaderLen(buf) - 2) = {5}
    BY <2>1
  <2>3. Values(buf, "host") = {5}
    BY <1>6, <1>7, <2>2 DEF Values
  <2>4. Values(buf, "auth") = {}
    BY <1>6, <1>7, <2>2 DEF Values
  <2>5. Header(buf, "auth") = 0
    BY <2>4 DEF Header
  <2>6. Header(buf, "host") = a[2]
    BY <1>7, <2>3, HeaderValue
  <2> QED
    BY <1>6, <1>8, <2>5, <2>6 DEF buf
<1>9. CASE reqs[i].auth # "none"
  <2>1. HeaderLen(buf) = 9 /\ Len(h) = 9
    BY <1>2, <1>4, <1>9
  <2>2. 5..(HeaderLen(buf) - 2) = {5, 6, 7}
    BY <2>1
  <2>3. buf[7] = b
    <3>1. 7 \in 1..Len(h)
      BY <2>1
    <3> QED
      BY <1>3, <1>4, <1>9, <3>1
  <2>4. Values(buf, "host") = {5}
    BY <1>5, <1>6, <1>7, <2>2, <2>3 DEF Values
  <2>5. Values(buf, "auth") = {7}
    BY <1>5, <1>6, <1>7, <2>2, <2>3 DEF Values
  <2>6. Header(buf, "auth") = b[2]
    BY <2>3, <2>5, HeaderValue
  <2>7. Header(buf, "host") = a[2]
    BY <1>7, <2>4, HeaderValue
  <2> QED
    BY <1>6, <2>6, <2>7 DEF buf
<1> QED
  BY <1>8, <1>9

\* What scanning the symbols between o and e comes to: what is left starts at
\* some o2, and the requests that are gone are the one with the token that was
\* found and those that stand after a method word.
Parsed(reqs, w, o, e) ==
    LET buf == Scanned(Window(w, o, e))
        gone(o2) == Between(reqs, o, o2) \cap Wanted(reqs)
    IN  \E o2 \in o..e :
           /\ Rest(buf) = Window(w, o2, e)
           /\ \/ ~IsHit(buf) /\ \A i \in gone(o2) : AfterMethod(reqs, i)
              \/ /\ IsHit(buf)
                 /\ \E j \in Wanted(reqs) :
                       /\ Header(buf, "host") = 1 /\ Header(buf, "auth") = j
                       /\ o <= StartOf(reqs, j) /\ HeadEnd(reqs, j) <= o2
                       /\ \A i \in gone(o2) : i = j \/ AfterMethod(reqs, i)

\* A buffer that is being scanned gives a token exactly when it starts with a
\* request whose token is wanted, and is left with what comes after that head.
LEMMA StepOnRequests ==
    ASSUME NEW reqs \in Seq(Requests), NEW e \in 0..Len(RequestBytes(reqs)), NEW o \in 0..e
    PROVE  Parsed(reqs, RequestBytes(reqs), o, e)
<1> DEFINE W == RequestBytes(reqs)
           buf == Scanned(Window(W, o, e))
<1>1. W \in Seq(Symbols) /\ e \in Nat /\ o \in Nat
  BY BytesType
<1>2. PICK m \in o..e : /\ buf = Window(W, m, e)
                        /\ \A i \in Between(reqs, o, m) : AfterMethod(reqs, i)
  BY ScannedOfWindow
<1>3. m \in 0..e /\ m \in Nat
  BY <1>1
<1> HIDE DEF buf
<1>4. CASE ~HasRequestLine(buf)
  <2>1. ~IsHit(buf) /\ Rest(buf) = buf
    BY <1>4 DEF IsHit, Rest
  <2> QED
    BY <1>2, <2>1, Zenon DEF buf, Parsed
<1>5. CASE HasRequestLine(buf)
  <2>1. PICK j \in 1..Len(reqs) : m = StartOf(reqs, j) /\ HeadEnd(reqs, j) <= e
    BY <1>2, <1>3, <1>5, RequestLineOfWindow
  <2>2. m + HeaderLen(buf) = HeadEnd(reqs, j)
    BY <1>2, <1>3, <2>1, RequestLineOfWindow
  <2>3. /\ HeadEnd(reqs, j) \in Nat /\ HeadEnd(reqs, j) >= m + 7
    BY <2>1, Apart
  <2>4. HeaderLen(buf) \in 0..(e - m)
    <3>1. HeaderLen(buf) = 0 \/ HeaderLen(buf) \in 2..(e - m)
      BY <1>2, <1>3, HeaderEndsHead
    <3> QED
      BY <1>1, <1>3, <3>1
  <2>5. Rest(buf) = Window(W, HeadEnd(reqs, j), e)
    <3>1. SubSeq(Window(W, m, e), HeaderLen(buf) + 1, Len(Window(W, m, e))) = Window(W, m + HeaderLen(buf), e)
      BY <1>1, <1>3, <2>4, WindowTail
    <3>2. Rest(buf) = SubSeq(buf, HeaderLen(buf) + 1, Len(buf))
      BY <1>5 DEF Rest, AfterHead
    <3> QED
      BY <1>2, <2>2, <3>1, <3>2, Zenon
  <2>6. /\ Header(buf, "host") = IF reqs[j].host = "game" THEN 1 ELSE 0
        /\ Header(buf, "auth") = IF reqs[j].auth = "bearer" THEN j ELSE 0
    BY <1>2, <2>1, HeadersOfRequest
  <2>7. HeadEnd(reqs, j) \in o..e /\ HeadEnd(reqs, j) \in Nat /\ o <= StartOf(reqs, j)
    BY <1>1, <1>3, <2>1, <2>3
  <2>8. ASSUME NEW i \in Between(reqs, o, HeadEnd(reqs, j))
        PROVE  i = j \/ AfterMethod(reqs, i)
    <3>1. Between(reqs, o, HeadEnd(reqs, j)) \subseteq Between(reqs, o, m) \cup Between(reqs, m, HeadEnd(reqs, j))
      BY <1>1, <1>3, <2>7, BetweenSplits
    <3>2. ASSUME i \in Between(reqs, m, HeadEnd(reqs, j))
          PROVE  i = j
      <4>1. i \in 1..Len(reqs) /\ StartOf(reqs, j) <= StartOf(reqs, i) /\ StartOf(reqs, i) < HeadEnd(reqs, j)
        BY <2>1, <3>2 DEF Between
      <4>2. /\ StartOf(reqs, i) \in Nat /\ HeadEnd(reqs, i) \in Nat
            /\ HeadEnd(reqs, i) >= StartOf(reqs, i) + 7
            /\ i < j => HeadEnd(reqs, i) <= StartOf(reqs, j)
            /\ j < i => HeadEnd(reqs, j) <= StartOf(reqs, i)
            /\ StartOf(reqs, j) \in Nat
        BY <4>1, Apart
      <4> QED
        BY <2>3, <4>1, <4>2
    <3> QED
      BY <1>2, <3>1, <3>2
  <2>9. IsHit(buf) <=> j \in Wanted(reqs)
    <3>1. Header(buf, "host") = 1 <=> reqs[j].host = "game"
      BY <2>6
    <3>2. Header(buf, "auth") > 0 <=> reqs[j].auth = "bearer"
      BY <2>6
    <3>3. DOMAIN reqs = 1..Len(reqs)
      OBVIOUS
    <3> QED
      BY <1>5, <3>1, <3>2, <3>3 DEF IsHit, Wanted
  <2>10. CASE j \in Wanted(reqs)
    <3>1. Header(buf, "host") = 1 /\ Header(buf, "auth") = j
      BY <2>6, <2>10 DEF Wanted
    <3>2. HeadEnd(reqs, j) <= HeadEnd(reqs, j)
      BY <2>7
    <3> QED
      BY <2>5, <2>7, <2>8, <2>9, <2>10, <3>1, <3>2, Zenon DEF buf, Parsed
  <2>11. CASE j \notin Wanted(reqs)
    <3>1. \A i \in Between(reqs, o, HeadEnd(reqs, j)) \cap Wanted(reqs) : AfterMethod(reqs, i)
      BY <2>8, <2>11
    <3> QED
      BY <2>5, <2>7, <2>9, <2>11, <3>1, Zenon DEF buf, Parsed
  <2> QED
    BY <2>10, <2>11
<1> QED
  BY <1>4, <1>5

-----------------------------------------------------------------------------
(* The inductive invariant.                                                *)

\* The plaintext is what the requests say, and there is no request line in an
\* answer.
WireInv ==
    /\ requests \in [Conns -> Seq(Requests)]
    /\ wire \in [Keys -> Seq(Symbols)]
    /\ \A k \in Keys : k[2] = "ToServer" => wire[k] = RequestBytes(requests[k[1]])
    /\ \A k \in Keys : k[2] # "ToServer" => \A q \in 1..Len(wire[k]) : wire[k][q] # Target

\* The types of what the scanner keeps.
ScanTypes ==
    /\ read \in [Keys -> Nat]
    /\ buffers \in [Keys -> Seq(Symbols)]
    /\ hits \in [Keys -> Seq([host : Nat, token : Nat])]
    /\ overflowed \in [Keys -> BOOLEAN]

\* How much of the plaintext is out of the buffer again.
Offset(k) == read[k] - Len(buffers[k])

\* A buffer is the end of what was read.
BufferInv(k) ==
    /\ read[k] <= Len(wire[k])
    /\ Len(buffers[k]) <= MaxBuffer
    /\ Offset(k) \in Nat
    /\ buffers[k] = Window(wire[k], Offset(k), read[k])

\* Tokens are reported of requests that are out of the buffer, in their order.
HitsInv(k) ==
    /\ \A m \in 1..Len(hits[k]) :
          /\ hits[k][m].host = 1
          /\ hits[k][m].token \in Wanted(RequestsOn(k))
          /\ HeadEnd(RequestsOn(k), hits[k][m].token) <= Offset(k)
    /\ \A m \in 1..Len(hits[k]) : \A l \in 1..(m - 1) : hits[k][l].token < hits[k][m].token

\* A wanted token whose request is out of the buffer was reported, or its
\* request came after a method word.
MissedInv(k) ==
    ~overflowed[k] =>
        \A i \in Wanted(RequestsOn(k)) :
            StartOf(RequestsOn(k), i) < Offset(k)
                => \/ \E m \in 1..Len(hits[k]) : hits[k][m].token = i
                   \/ AfterMethod(RequestsOn(k), i)

\* The inductive invariant: where each buffer stands in the plaintext, and which
\* tokens were reported on the way there.
ScanInv ==
    /\ WireInv
    /\ ScanTypes
    /\ \A k \in Keys : BufferInv(k) /\ HitsInv(k) /\ MissedInv(k)

\* In plaintext without a request line there is no token.
LEMMA StepOnOther ==
    ASSUME NEW w \in Seq(Symbols), \A q \in 1..Len(w) : w[q] # Target,
           NEW e \in 0..Len(w), NEW o \in 0..e
    PROVE  LET buf == Scanned(Window(w, o, e))
           IN  ~IsHit(buf) /\ \E o2 \in o..e : Rest(buf) = Window(w, o2, e)
<1> DEFINE Good == {Window(w, o2, e) : o2 \in o..e}
           buf == Window(w, o, e)
<1>1. e \in Nat /\ o \in Nat /\ e <= Len(w) /\ Len(buf) \in Nat
  BY WindowFacts
<1>2. FromMethod(buf) \in Good
  BY FromMethodOfWindow
<1>3. ASSUME NEW b \in Good
      PROVE  Turn(b) \in Good
  <2>1. PICK o2 \in o..e : b = Window(w, o2, e)
    OBVIOUS
  <2>2. o2 \in 0..e
    BY <1>1
  <2>3. CASE ~Skips(b)
    BY <2>3, Zenon DEF Turn
  <2>4. CASE Skips(b)
    <3>1. HeaderLen(b) \in 0..(e - o2)
      <4>1. HeaderLen(b) = 0 \/ HeaderLen(b) \in 2..(e - o2)
        BY <2>1, <2>2, HeaderLenOfWindow
      <4> QED
        BY <1>1, <2>2, <4>1
    <3>2. AfterHead(b) = Window(w, o2 + HeaderLen(b), e)
      BY <2>1, <2>2, <3>1, WindowTail DEF AfterHead
    <3>3. o2 + HeaderLen(b) \in 0..e
      BY <1>1, <3>1
    <3>4. PICK o3 \in (o2 + HeaderLen(b))..e : FromMethod(AfterHead(b)) = Window(w, o3, e)
      BY <3>2, <3>3, FromMethodOfWindow
    <3>5. o3 \in o..e
      BY <1>1, <3>1
    <3> QED
      BY <2>4, <3>4, <3>5 DEF Turn
  <2> QED
    BY <2>3, <2>4
<1>4. Scanned(buf) \in Good
  <2> HIDE DEF Good, buf
  <2> QED
    BY <1>1, <1>2, <1>3, LoopKeeps
<1>5. PICK m \in o..e : Scanned(buf) = Window(w, m, e)
  BY <1>4
<1>6. m \in 0..e
  BY <1>1
<1> DEFINE c == Scanned(buf)
<1>7. ~HasRequestLine(c)
  <2>1. SUFFICES ASSUME HasRequestLine(c)
                 PROVE  FALSE
    OBVIOUS
  <2>0. c = Window(w, m, e)
    BY <1>5
  <2> HIDE DEF c
  <2>2. c \in Seq(Symbols) /\ Len(c) = e - m /\ \A i \in 1..(e - m) : c[i] = w[m + i]
    BY <2>0, <1>6, WindowFacts
  <2>3. Len(c) >= 4 /\ SubSeq(<<Ge, Et, Target, NL>>, 1, 4) = SubSeq(c, 1, 4)
    BY <2>1 DEF HasRequestLine, IsPrefix
  <2>4. SubSeq(<<Ge, Et, Target, NL>>, 1, 4)[3] = Target
    BY SymbolsOfTheWire
  <2>5. SubSeq(c, 1, 4)[3] = c[3]
    BY <2>2, <2>3
  <2>6. c[3] = w[m + 3] /\ m + 3 \in 1..Len(w)
    BY <1>1, <1>6, <2>2, <2>3
  <2> QED
    BY <2>3, <2>4, <2>5, <2>6
<1>8. ~IsHit(c) /\ Rest(c) = c
  BY <1>7 DEF IsHit, Rest
<1> QED
  BY <1>5, <1>8

\* What scanning a window of a direction gives and leaves.
LEMMA StepOnWire ==
    ASSUME WireInv, NEW k \in Keys, NEW e \in 0..Len(wire[k]), NEW o \in 0..e
    PROVE  Parsed(RequestsOn(k), wire[k], o, e)
<1>1. CASE k[2] = "ToServer"
  <2>1. k[1] \in Conns
    BY DEF Keys
  <2>2. RequestsOn(k) = requests[k[1]] /\ requests[k[1]] \in Seq(Requests)
    BY <1>1, <2>1 DEF RequestsOn, WireInv
  <2>3. wire[k] = RequestBytes(RequestsOn(k))
    BY <1>1, <2>2 DEF WireInv
  <2> DEFINE reqs == RequestsOn(k)
  <2>4. reqs \in Seq(Requests) /\ e \in 0..Len(RequestBytes(reqs))
    BY <2>2, <2>3
  <2> HIDE DEF reqs
  <2> QED
    BY <2>3, <2>4, StepOnRequests, Zenon DEF reqs
<1>2. CASE k[2] # "ToServer"
  <2>1. RequestsOn(k) = <<>>
    BY <1>2 DEF RequestsOn
  <2>2. Wanted(<<>>) = {}
    BY DEF Wanted
  <2>3. wire[k] \in Seq(Symbols) /\ \A q \in 1..Len(wire[k]) : wire[k][q] # Target
    BY <1>2 DEF WireInv
  <2>4. LET buf == Scanned(Window(wire[k], o, e))
        IN  ~IsHit(buf) /\ \E o2 \in o..e : Rest(buf) = Window(wire[k], o2, e)
    BY <2>3, StepOnOther, Zenon
  <2>5. \A x : Between(RequestsOn(k), o, x) \cap Wanted(RequestsOn(k)) = {}
    BY <2>1, <2>2
  <2> QED
    BY <2>4, <2>5 DEF Parsed
<1> QED
  BY <1>1, <1>2

-----------------------------------------------------------------------------
(* A chunk.                                                                *)

\* A buffer over its limit loses symbols at its start.
LEMMA TrimmedWindow ==
    ASSUME NEW S, NEW w \in Seq(S), NEW e \in 0..Len(w), NEW o \in 0..e
    PROVE  \E o2 \in o..e :
              /\ Trimmed(Window(w, o, e)) = Window(w, o2, e)
              /\ e - o2 <= MaxBuffer
              /\ ~(e - o > MaxBuffer) => o2 = o
<1>1. Len(Window(w, o, e)) = e - o /\ e \in Nat /\ o \in Nat
  BY WindowFacts
<1>2. MaxBuffer \in Nat
  BY ScannerAssumption DEF ScannerAssumption
<1>3. CASE e - o > MaxBuffer
  <2> DEFINE d == e - o - MaxBuffer
  <2>1. d \in 0..(e - o) /\ e - o - MaxBuffer + 1 = d + 1 /\ o + d \in o..e /\ e - (o + d) <= MaxBuffer
    BY <1>1, <1>2, <1>3
  <2>2. Trimmed(Window(w, o, e)) = SubSeq(Window(w, o, e), d + 1, Len(Window(w, o, e)))
    BY <1>1, <1>3 DEF Trimmed
  <2> HIDE DEF d
  <2>3. Trimmed(Window(w, o, e)) = Window(w, o + d, e)
    BY <2>1, <2>2, WindowTail
  <2> QED
    BY <1>3, <2>1, <2>3
<1>4. CASE ~(e - o > MaxBuffer)
  <2>1. Trimmed(Window(w, o, e)) = Window(w, o, e)
    BY <1>1, <1>4 DEF Trimmed
  <2>2. o \in o..e /\ e - o <= MaxBuffer
    BY <1>1, <1>2, <1>4
  <2> QED
    BY <2>1, <2>2
<1> QED
  BY <1>3, <1>4

\* The types of what is kept of a direction.
LEMMA KeyTypes ==
    ASSUME ScanInv, NEW k \in Keys
    PROVE  /\ wire[k] \in Seq(Symbols) /\ Len(wire[k]) \in Nat
           /\ read[k] \in Nat /\ read[k] <= Len(wire[k])
           /\ buffers[k] \in Seq(Symbols) /\ Len(buffers[k]) \in Nat
           /\ Offset(k) \in 0..read[k]
           /\ hits[k] \in Seq([host : Nat, token : Nat]) /\ Len(hits[k]) \in Nat
           /\ overflowed[k] \in BOOLEAN
<1>1. wire[k] \in Seq(Symbols) /\ Len(wire[k]) \in Nat
  BY DEF ScanInv, WireInv
<1>2. /\ read[k] \in Nat
      /\ buffers[k] \in Seq(Symbols) /\ Len(buffers[k]) \in Nat
      /\ hits[k] \in Seq([host : Nat, token : Nat]) /\ Len(hits[k]) \in Nat
      /\ overflowed[k] \in BOOLEAN
  BY DEF ScanInv, ScanTypes
<1>3. read[k] <= Len(wire[k]) /\ Offset(k) \in Nat
  BY DEF ScanInv, BufferInv
<1> QED
  BY <1>1, <1>2, <1>3 DEF Offset

\* The requests of a direction: those of its connection, or none.
LEMMA RequestsType ==
    ASSUME WireInv, NEW k \in Keys
    PROVE  /\ RequestsOn(k) \in Seq(Requests)
           /\ Wanted(RequestsOn(k)) \subseteq 1..Len(RequestsOn(k))
           /\ Wanted(RequestsOn(k)) \subseteq Nat
<1>1. RequestsOn(k) \in Seq(Requests)
  <2>1. k[1] \in Conns
    BY DEF Keys
  <2>2. <<>> \in Seq(Requests)
    OBVIOUS
  <2> QED
    BY <2>1, <2>2 DEF RequestsOn, WireInv
<1> QED
  BY <1>1 DEF Wanted

\* The direction k was read up to e, and its buffer starts at o2 now.  Of the
\* wanted requests that are gone from it, one may be reported; any others came
\* after a method word, unless the limit cut.
Taken(k, e, o2, cut) ==
    LET reqs == RequestsOn(k)
        gone == Between(reqs, Offset(k), o2) \cap Wanted(reqs)
    IN  /\ e - o2 <= MaxBuffer
        /\ buffers' = [buffers EXCEPT ![k] = Window(wire[k], o2, e)]
        /\ overflowed' = [overflowed EXCEPT ![k] = overflowed[k] \/ cut]
        /\ \/ hits' = hits /\ (~cut => \A i \in gone : AfterMethod(reqs, i))
           \/ \E j \in Wanted(reqs) :
                 /\ hits' = [hits EXCEPT ![k] = Append(hits[k], [host |-> 1, token |-> j])]
                 /\ Offset(k) <= StartOf(reqs, j) /\ HeadEnd(reqs, j) <= o2
                 /\ ~cut => \A i \in gone : i = j \/ AfterMethod(reqs, i)

\* What a chunk does to a direction.
LEMMA ChunkStep ==
    ASSUME ScanInv, NEW k \in Keys, NEW n \in 1..Len(wire[k]), ParseStream(k, n)
    PROVE  /\ UNCHANGED <<requests, wire>>
           /\ read[k] + n \in Nat /\ read[k] + n <= Len(wire[k])
           /\ read' = [read EXCEPT ![k] = read[k] + n]
           /\ \E o2 \in Offset(k)..(read[k] + n), cut \in BOOLEAN : Taken(k, read[k] + n, o2, cut)
<1> DEFINE w == wire[k]
           e == read[k] + n
           o == Offset(k)
           reqs == RequestsOn(k)
           whole == Appended(k, SubSeq(w, read[k] + 1, e))
           cut == Len(whole) > MaxBuffer
           buf == Scanned(Trimmed(whole))
<1>1. /\ w \in Seq(Symbols) /\ Len(w) \in Nat /\ read[k] \in Nat /\ read[k] <= Len(w)
      /\ o \in 0..read[k] /\ o \in Nat
      /\ n \in Nat /\ n <= Len(w) - read[k]
  BY KeyTypes DEF ParseStream
<1>2. e \in Nat /\ e \in 0..Len(w) /\ o \in 0..e /\ read[k] \in 0..e /\ e <= Len(w)
  BY <1>1
<1>3. whole = Window(w, o, e)
  <2>1. buffers[k] = Window(w, o, read[k])
    BY DEF ScanInv, BufferInv
  <2> HIDE DEF e, o, w
  <2> QED
    BY <1>1, <1>2, <2>1, WindowGrows DEF Appended
<1>4. Len(whole) = e - o
  <2> HIDE DEF e, o, w, whole
  <2> QED
    BY <1>1, <1>2, <1>3, WindowFacts
<1>5. /\ UNCHANGED <<requests, wire>>
      /\ read' = [read EXCEPT ![k] = e]
      /\ overflowed' = [overflowed EXCEPT ![k] = overflowed[k] \/ cut]
      /\ buffers' = [buffers EXCEPT ![k] = Rest(buf)]
      /\ hits' = IF IsHit(buf)
                 THEN [hits EXCEPT ![k] = Append(hits[k], [host |-> Header(buf, "host"),
                                                           token |-> Header(buf, "auth")])]
                 ELSE hits
  BY Zenon DEF ParseStream, Kept
<1> HIDE DEF whole, e, o, w
<1>6. PICK o1 \in o..e : /\ Trimmed(whole) = Window(w, o1, e)
                         /\ e - o1 <= MaxBuffer
                         /\ ~(e - o > MaxBuffer) => o1 = o
  BY <1>1, <1>2, <1>3, TrimmedWindow
<1>7. o1 \in 0..e /\ o1 \in Nat
  BY <1>1, <1>2
<1>8. Parsed(reqs, w, o1, e)
  BY <1>1, <1>2, <1>7, StepOnWire DEF w, ScanInv
<1> HIDE DEF reqs, buf, cut
<1>9. PICK o2 \in o1..e :
         /\ Rest(buf) = Window(w, o2, e)
         /\ \/ ~IsHit(buf) /\ \A i \in Between(reqs, o1, o2) \cap Wanted(reqs) : AfterMethod(reqs, i)
            \/ /\ IsHit(buf)
               /\ \E j \in Wanted(reqs) :
                     /\ Header(buf, "host") = 1 /\ Header(buf, "auth") = j
                     /\ o1 <= StartOf(reqs, j) /\ HeadEnd(reqs, j) <= o2
                     /\ \A i \in Between(reqs, o1, o2) \cap Wanted(reqs) : i = j \/ AfterMethod(reqs, i)
  BY <1>6, <1>8, Zenon DEF Parsed, buf
<1>10. o2 \in o..e /\ e - o2 <= MaxBuffer
  <2>1. MaxBuffer \in Nat
    BY ScannerAssumption DEF ScannerAssumption
  <2> QED
    BY <1>1, <1>2, <1>6, <1>7, <2>1
<1>11. cut \in BOOLEAN /\ (~cut => o1 = o)
  <2>1. cut <=> e - o > MaxBuffer
    BY <1>4 DEF cut
  <2>2. ~cut => o1 = o
    BY <1>6, <2>1, Zenon
  <2>3. cut \in BOOLEAN
    BY SMT DEF cut
  <2> QED
    BY <2>2, <2>3, Zenon
<1>12. \/ /\ hits' = hits
          /\ ~cut => \A i \in Between(reqs, o, o2) \cap Wanted(reqs) : AfterMethod(reqs, i)
       \/ \E j \in Wanted(reqs) :
             /\ hits' = [hits EXCEPT ![k] = Append(hits[k], [host |-> 1, token |-> j])]
             /\ o <= StartOf(reqs, j) /\ HeadEnd(reqs, j) <= o2
             /\ ~cut => \A i \in Between(reqs, o, o2) \cap Wanted(reqs) : i = j \/ AfterMethod(reqs, i)
  <2>1. CASE ~IsHit(buf)
    BY <1>5, <1>9, <1>11, <2>1, Zenon
  <2>2. CASE IsHit(buf)
    <3>1. PICK j \in Wanted(reqs) :
             /\ Header(buf, "host") = 1 /\ Header(buf, "auth") = j
             /\ o1 <= StartOf(reqs, j) /\ HeadEnd(reqs, j) <= o2
             /\ \A i \in Between(reqs, o1, o2) \cap Wanted(reqs) : i = j \/ AfterMethod(reqs, i)
      BY <1>9, <2>2, Zenon
    <3>2. hits' = [hits EXCEPT ![k] = Append(hits[k], [host |-> 1, token |-> j])]
      BY <1>5, <2>2, <3>1, Zenon
    <3>3. o <= StartOf(reqs, j)
      <4>1. reqs \in Seq(Requests) /\ j \in 1..Len(reqs)
        BY RequestsType DEF ScanInv, reqs
      <4>2. StartOf(reqs, j) \in Nat
        BY <4>1, Apart
      <4> QED
        BY <1>1, <1>2, <1>7, <3>1, <4>2
    <3>4. ~cut => \A i \in Between(reqs, o, o2) \cap Wanted(reqs) : i = j \/ AfterMethod(reqs, i)
      BY <1>11, <3>1, Zenon
    <3> QED
      BY <3>1, <3>2, <3>3, <3>4, Zenon
  <2> QED
    BY <2>1, <2>2
<1>13. buffers' = [buffers EXCEPT ![k] = Window(w, o2, e)]
  BY <1>5, <1>9, Zenon
<1>14. /\ UNCHANGED <<requests, wire>>
       /\ e \in Nat /\ e <= Len(w)
       /\ read' = [read EXCEPT ![k] = e]
  BY <1>2, <1>5
<1>15. /\ o2 \in o..e /\ cut \in BOOLEAN
       /\ e - o2 <= MaxBuffer
       /\ buffers' = [buffers EXCEPT ![k] = Window(w, o2, e)]
       /\ overflowed' = [overflowed EXCEPT ![k] = overflowed[k] \/ cut]
  BY <1>5, <1>10, <1>11, <1>13, Zenon
<1>16. Taken(k, e, o2, cut)
  BY <1>12, <1>15, Zenon DEF Taken, w, o, reqs
<1>17. \E x \in o..e, c \in BOOLEAN : Taken(k, e, x, c)
  BY <1>15, <1>16, Zenon
<1> QED
  BY <1>14, <1>17, Zenon DEF w, o, e

-----------------------------------------------------------------------------
(* The invariant is kept, and what it says.                                *)

\* The scanner has been given nothing.
Unread ==
    /\ read = [k \in Keys |-> 0]
    /\ buffers = [k \in Keys |-> <<>>]
    /\ hits = [k \in Keys |-> <<>>]
    /\ overflowed = [k \in Keys |-> FALSE]

\* A new scanner, as load_sync_keys makes one.
LEMMA UnreadIsFine == ASSUME WireInv, Unread PROVE ScanInv
<1>1. ScanTypes
  <2>1. <<>> \in Seq(Symbols) /\ <<>> \in Seq([host : Nat, token : Nat]) /\ 0 \in Nat
    OBVIOUS
  <2> QED
    BY <2>1 DEF Unread, ScanTypes
<1>2. ASSUME NEW k \in Keys
      PROVE  BufferInv(k) /\ HitsInv(k) /\ MissedInv(k)
  <2>1. read[k] = 0 /\ buffers[k] = <<>> /\ hits[k] = <<>>
    BY DEF Unread
  <2>2. Offset(k) = 0
    <3>1. Len(buffers[k]) = 0
      BY <2>1
    <3>2. read[k] = 0
      BY <2>1
    <3>3. 0 - 0 = 0
      OBVIOUS
    <3> QED
      BY <3>1, <3>2, <3>3, Zenon DEF Offset
  <2>3. wire[k] \in Seq(Symbols)
    BY DEF WireInv
  <2>4. BufferInv(k)
    <3>1. MaxBuffer \in Nat
      BY ScannerAssumption DEF ScannerAssumption
    <3>2. Window(wire[k], 0, 0) = <<>>
      BY SubSeqEmpty DEF Window
    <3> QED
      BY <2>1, <2>2, <2>3, <3>1, <3>2 DEF BufferInv
  <2>5. HitsInv(k)
    BY <2>1 DEF HitsInv
  <2>6. MissedInv(k)
    <3>1. ASSUME NEW i \in Wanted(RequestsOn(k))
          PROVE  ~(StartOf(RequestsOn(k), i) < 0)
      <4>1. RequestsOn(k) \in Seq(Requests) /\ i \in 1..Len(RequestsOn(k))
        BY RequestsType
      <4>2. StartOf(RequestsOn(k), i) \in Nat
        BY <4>1, Apart
      <4> QED
        BY <4>2
    <3> QED
      BY <2>2, <3>1 DEF MissedInv
  <2> QED
    BY <2>4, <2>5, <2>6
<1> QED
  BY <1>1, <1>2 DEF ScanInv

\* An answer has no request line in it.
LEMMA ResponseSymbols ==
    ASSUME NEW bodies \in [1..1 -> Responses]
    PROVE  /\ ResponseBytes(bodies) \in Seq(Symbols)
           /\ \A q \in 1..Len(ResponseBytes(bodies)) : ResponseBytes(bodies)[q] # Target
<1> DEFINE b == BodyOf(bodies[1])
           x == <<Status, NL, NL>> \o b
<1>1. ResponseBytes(bodies) = x
  <2> DEFINE s == [i \in 1..1 |-> <<Status, NL, NL>> \o BodyOf(bodies[i])]
  <2>1. DOMAIN bodies = 1..1 /\ Len(s) = 1 /\ s[1] = x
    OBVIOUS
  <2>2. ResponseBytes(bodies) = FlattenSeq(s)
    BY <2>1 DEF ResponseBytes
  <2> HIDE DEF s
  <2>3. FlattenSeq(s) = s[1]
    <3>1. Len(s) = 0 + 1 /\ Len(<<>>) = 0 /\ \A i \in 1..0 : <<>>[i] = s[i]
      BY <2>1
    <3> QED
      BY <3>1, FlattenLast
  <2> QED
    BY <2>1, <2>2, <2>3
<1>2. /\ Status \in Symbols /\ NL \in Symbols
      /\ Status # Target /\ NL # Target /\ Ge # Target /\ Et # Target /\ Text # Target
  BY SymbolsOfTheWire
<1>3. bodies[1] \in Bodies
  BY ScannerAssumption DEF ScannerAssumption
<1>4. /\ b \in Seq(Symbols)
      /\ bodies[1] = "none" => Len(b) = 0
      /\ bodies[1] = "plain" => Len(b) = 1 /\ b[1] = Text
      /\ bodies[1] = "method" => Len(b) = 3 /\ b[1] = Ge /\ b[2] = Et /\ b[3] = Text
  BY <1>3, BodyShape
<1>5. \A q \in 1..Len(b) : b[q] # Target
  <2>1. bodies[1] \in {"none", "plain", "method"}
    BY <1>3 DEF Bodies
  <2> HIDE DEF b
  <2>2. CASE bodies[1] = "none"
    BY <1>4, <2>2
  <2>3. CASE bodies[1] = "plain"
    <3>1. Len(b) = 1 /\ b[1] = Text
      BY <1>4, <2>3
    <3>2. 1..Len(b) = {1}
      BY <3>1
    <3> QED
      BY <1>2, <3>1, <3>2
  <2>4. CASE bodies[1] = "method"
    <3>1. Len(b) = 3 /\ b[1] = Ge /\ b[2] = Et /\ b[3] = Text
      BY <1>4, <2>4
    <3>2. 1..Len(b) = {1, 2, 3}
      BY <3>1
    <3> QED
      BY <1>2, <3>1, <3>2
  <2> QED
    BY <2>1, <2>2, <2>3, <2>4
<1> HIDE DEF b
<1> DEFINE h == <<Status, NL, NL>>
<1>6. h \in Seq(Symbols) /\ Len(h) = 3 /\ \A q \in 1..3 : h[q] # Target
  BY <1>2
<1> HIDE DEF h
<1>7. /\ h \o b \in Seq(Symbols)
      /\ Len(h \o b) = 3 + Len(b)
      /\ \A q \in 1..(3 + Len(b)) : (h \o b)[q] = IF q <= 3 THEN h[q] ELSE b[q - 3]
  <2>1. /\ h \o b \in Seq(Symbols)
        /\ Len(h \o b) = Len(h) + Len(b)
        /\ \A q \in 1..(Len(h) + Len(b)) : (h \o b)[q] = IF q <= Len(h) THEN h[q] ELSE b[q - Len(h)]
    BY <1>4, <1>6, ConcatProperties, Zenon
  <2> QED
    BY <1>6, <2>1, Zenon
<1>8. ASSUME NEW q \in 1..Len(h \o b)
      PROVE  (h \o b)[q] # Target
  <2>1. q \in 1..3 \/ (~(q <= 3) /\ q - 3 \in 1..Len(b))
    BY <1>4, <1>7
  <2>2. q \in 1..(3 + Len(b)) /\ (q \in 1..3 => q <= 3)
    BY <1>7
  <2> QED
    BY <1>5, <1>6, <1>7, <2>1, <2>2
<1> QED
  BY <1>1, <1>7, <1>8, Zenon DEF h

\* The scanner before the first chunk.
LEMMA InitIsFine == ASSUME Init PROVE ScanInv
<1>1. requests \in [Conns -> Seq(Requests)]
  <2>1. requests \in [Conns -> UNION {[1..n -> Requests] : n \in 1..MaxRequests}]
    BY DEF Init
  <2>2. ASSUME NEW n \in 1..MaxRequests, NEW r \in [1..n -> Requests]
        PROVE  r \in Seq(Requests)
    OBVIOUS
  <2>3. UNION {[1..n -> Requests] : n \in 1..MaxRequests} \subseteq Seq(Requests)
    BY <2>2
  <2> QED
    BY <2>1, <2>3
<1>2. PICK responses \in [Conns -> [1..1 -> Responses]] :
         wire = [k \in Keys |-> IF k[2] = "ToServer"
                                THEN RequestBytes(requests[k[1]])
                                ELSE ResponseBytes(responses[k[1]])]
  BY DEF Init
<1>3. ASSUME NEW k \in Keys
      PROVE  /\ wire[k] \in Seq(Symbols)
             /\ k[2] = "ToServer" => wire[k] = RequestBytes(requests[k[1]])
             /\ k[2] # "ToServer" => \A q \in 1..Len(wire[k]) : wire[k][q] # Target
  <2>1. k[1] \in Conns
    BY DEF Keys
  <2>2. wire[k] = IF k[2] = "ToServer"
                  THEN RequestBytes(requests[k[1]]) ELSE ResponseBytes(responses[k[1]])
    BY <1>2
  <2>3. requests[k[1]] \in Seq(Requests) /\ responses[k[1]] \in [1..1 -> Responses]
    BY <1>1, <1>2, <2>1
  <2>4. CASE k[2] = "ToServer"
    BY <2>2, <2>3, <2>4, BytesType
  <2>5. CASE k[2] # "ToServer"
    BY <2>2, <2>3, <2>5, ResponseSymbols
  <2> QED
    BY <2>4, <2>5
<1>4. wire \in [Keys -> Seq(Symbols)]
  <2>1. wire = [k \in Keys |-> wire[k]]
    BY <1>2
  <2> QED
    BY <1>3, <2>1
<1>5. WireInv
  BY <1>1, <1>3, <1>4 DEF WireInv
<1>6. Unread
  BY DEF Init, Unread
<1> QED
  BY <1>5, <1>6, UnreadIsFine

\* A chunk keeps the invariant: the token it reports starts after all that were
\* reported, and a wanted request that leaves the buffer is reported, stands
\* after a method word, or was cut off by the limit.
LEMMA ChunkKeeps ==
    ASSUME ScanInv, NEW k \in Keys, NEW n \in 1..Len(wire[k]), ParseStream(k, n)
    PROVE  ScanInv'
<1> DEFINE e == read[k] + n
           reqs == RequestsOn(k)
           gone(x) == Between(reqs, Offset(k), x) \cap Wanted(reqs)
<1>1. /\ UNCHANGED <<requests, wire>>
      /\ e \in Nat /\ e <= Len(wire[k])
      /\ read' = [read EXCEPT ![k] = e]
  BY ChunkStep
<1>2. PICK o2 \in Offset(k)..e, cut \in BOOLEAN : Taken(k, e, o2, cut)
  BY ChunkStep, Zenon
<1>3. /\ e - o2 <= MaxBuffer
      /\ buffers' = [buffers EXCEPT ![k] = Window(wire[k], o2, e)]
      /\ overflowed' = [overflowed EXCEPT ![k] = overflowed[k] \/ cut]
      /\ \/ hits' = hits /\ (~cut => \A i \in gone(o2) : AfterMethod(reqs, i))
         \/ \E j \in Wanted(reqs) :
               /\ hits' = [hits EXCEPT ![k] = Append(hits[k], [host |-> 1, token |-> j])]
               /\ Offset(k) <= StartOf(reqs, j) /\ HeadEnd(reqs, j) <= o2
               /\ ~cut => \A i \in gone(o2) : i = j \/ AfterMethod(reqs, i)
  BY <1>2, Zenon DEF Taken
<1>4. /\ wire[k] \in Seq(Symbols) /\ Len(wire[k]) \in Nat
      /\ read[k] \in Nat /\ Offset(k) \in Nat /\ o2 \in Nat /\ o2 \in 0..e /\ e \in 0..Len(wire[k])
      /\ Offset(k) <= o2 /\ o2 <= e
      /\ hits[k] \in Seq([host : Nat, token : Nat]) /\ Len(hits[k]) \in Nat
      /\ overflowed[k] \in BOOLEAN
  <2>1. /\ wire[k] \in Seq(Symbols) /\ Len(wire[k]) \in Nat
        /\ read[k] \in Nat /\ Offset(k) \in 0..read[k]
        /\ hits[k] \in Seq([host : Nat, token : Nat]) /\ Len(hits[k]) \in Nat
        /\ overflowed[k] \in BOOLEAN
    BY KeyTypes
  <2>2. o2 \in Offset(k)..e /\ e \in Nat /\ e <= Len(wire[k])
    BY <1>1
  <2>3. /\ Offset(k) \in Nat /\ o2 \in Nat /\ o2 \in 0..e /\ e \in 0..Len(wire[k])
        /\ Offset(k) <= o2 /\ o2 <= e
    <3> HIDE DEF e
    <3> QED
      BY <2>1, <2>2
  <2> QED
    BY <2>1, <2>3
<1>5. /\ reqs \in Seq(Requests) /\ Wanted(reqs) \subseteq 1..Len(reqs) /\ Wanted(reqs) \subseteq Nat
  BY RequestsType DEF ScanInv
<1> HIDE DEF e, reqs
<1>6. /\ Window(wire[k], o2, e) \in Seq(Symbols)
      /\ Len(Window(wire[k], o2, e)) = e - o2
  <2>1. wire[k] \in Seq(Symbols) /\ e \in 0..Len(wire[k]) /\ o2 \in 0..e
    BY <1>4
  <2> QED
    BY <2>1, WindowFacts
<1>7. /\ read \in [Keys -> Nat]
      /\ buffers \in [Keys -> Seq(Symbols)]
      /\ hits \in [Keys -> Seq([host : Nat, token : Nat])]
      /\ overflowed \in [Keys -> BOOLEAN]
  BY DEF ScanInv, ScanTypes
<1>8. WireInv'
  BY <1>1 DEF ScanInv, WireInv
<1>9. ScanTypes'
  <2>1. read' \in [Keys -> Nat]
    BY <1>1, <1>7
  <2>2. buffers' \in [Keys -> Seq(Symbols)]
    BY <1>3, <1>6, <1>7
  <2>3. hits' \in [Keys -> Seq([host : Nat, token : Nat])]
    <3>1. ASSUME NEW j \in Wanted(reqs)
          PROVE  Append(hits[k], [host |-> 1, token |-> j]) \in Seq([host : Nat, token : Nat])
      BY <1>4, <1>5
    <3> QED
      BY <1>3, <1>7, <3>1
  <2>4. overflowed' \in [Keys -> BOOLEAN]
    BY <1>3, <1>7, Zenon
  <2> QED
    BY <2>1, <2>2, <2>3, <2>4 DEF ScanTypes
<1>10. /\ read'[k] = e /\ buffers'[k] = Window(wire[k], o2, e)
       /\ overflowed'[k] = (overflowed[k] \/ cut)
       /\ Offset(k)' = o2 /\ RequestsOn(k)' = reqs
  <2>1. read'[k] = e /\ buffers'[k] = Window(wire[k], o2, e)
    BY <1>1, <1>3, <1>7
  <2>2. overflowed'[k] = (overflowed[k] \/ cut)
    BY <1>3, <1>7, Zenon
  <2>3. Offset(k)' = o2
    BY <1>4, <1>6, <2>1 DEF Offset
  <2>4. RequestsOn(k)' = reqs
    BY <1>1 DEF RequestsOn, reqs
  <2> QED
    BY <2>1, <2>2, <2>3, <2>4
<1>11. ASSUME NEW g \in Keys, g # k
       PROVE  (BufferInv(g) /\ HitsInv(g) /\ MissedInv(g))'
  <2>1. /\ read'[g] = read[g] /\ buffers'[g] = buffers[g]
        /\ hits'[g] = hits[g] /\ overflowed'[g] = overflowed[g]
        /\ wire'[g] = wire[g]
    BY <1>1, <1>3, <1>7, <1>11
  <2>2. Offset(g)' = Offset(g) /\ RequestsOn(g)' = RequestsOn(g)
    BY <1>1, <2>1 DEF Offset, RequestsOn
  <2>3. BufferInv(g) /\ HitsInv(g) /\ MissedInv(g)
    BY DEF ScanInv
  <2>4. BufferInv(g)'
    BY <2>1, <2>2, <2>3 DEF BufferInv
  <2>5. HitsInv(g)'
    BY <2>1, <2>2, <2>3 DEF HitsInv
  <2>6. MissedInv(g)'
    BY <2>1, <2>2, <2>3 DEF MissedInv
  <2> QED
    BY <2>4, <2>5, <2>6
<1>12. BufferInv(k)'
  BY <1>1, <1>3, <1>4, <1>6, <1>10 DEF BufferInv
<1>13. /\ \A m \in 1..Len(hits[k]) :
             /\ hits[k][m].host = 1
             /\ hits[k][m].token \in Wanted(reqs)
             /\ HeadEnd(reqs, hits[k][m].token) <= Offset(k)
       /\ \A m \in 1..Len(hits[k]) : \A l \in 1..(m - 1) : hits[k][l].token < hits[k][m].token
  BY DEF ScanInv, HitsInv, reqs
<1>14. \A i \in Wanted(reqs) :
          /\ StartOf(reqs, i) \in Nat /\ HeadEnd(reqs, i) \in Nat
          /\ HeadEnd(reqs, i) >= StartOf(reqs, i) + 7
  BY <1>5, Apart
<1>15. ~overflowed[k] =>
          \A i \in Wanted(reqs) :
             StartOf(reqs, i) < Offset(k)
                => \/ \E m \in 1..Len(hits[k]) : hits[k][m].token = i
                   \/ AfterMethod(reqs, i)
  BY DEF ScanInv, MissedInv, reqs
<1>16. ASSUME NEW i \in Wanted(reqs), StartOf(reqs, i) < o2, ~(StartOf(reqs, i) < Offset(k))
       PROVE  i \in gone(o2)
  BY <1>4, <1>5, <1>14, <1>16 DEF Between
<1> HIDE DEF gone
<1>17. CASE hits' = hits /\ (~cut => \A i \in gone(o2) : AfterMethod(reqs, i))
  <2>1. hits'[k] = hits[k]
    BY <1>17
  <2>2. HitsInv(k)'
    <3>1. ASSUME NEW m \in 1..Len(hits[k])
          PROVE  HeadEnd(reqs, hits[k][m].token) <= o2
      <4>1. /\ hits[k][m].token \in Wanted(reqs)
            /\ HeadEnd(reqs, hits[k][m].token) <= Offset(k)
        BY <1>13
      <4>2. HeadEnd(reqs, hits[k][m].token) \in Nat
        BY <1>14, <4>1
      <4> QED
        BY <1>4, <4>1, <4>2
    <3> QED
      BY <1>10, <1>13, <2>1, <3>1 DEF HitsInv
  <2>3. MissedInv(k)'
    <3>1. SUFFICES ASSUME ~overflowed'[k], NEW i \in Wanted(reqs), StartOf(reqs, i) < o2
                   PROVE  \/ \E m \in 1..Len(hits[k]) : hits[k][m].token = i
                          \/ AfterMethod(reqs, i)
      BY <1>10, <2>1 DEF MissedInv
    <3>2. ~overflowed[k] /\ ~cut
      BY <1>10, <3>1
    <3> QED
      BY <1>15, <1>16, <1>17, <3>1, <3>2
  <2> QED
    BY <1>8, <1>9, <1>11, <1>12, <2>2, <2>3 DEF ScanInv
<1>18. ASSUME NEW j \in Wanted(reqs),
              hits' = [hits EXCEPT ![k] = Append(hits[k], [host |-> 1, token |-> j])],
              Offset(k) <= StartOf(reqs, j), HeadEnd(reqs, j) <= o2,
              ~cut => \A i \in gone(o2) : i = j \/ AfterMethod(reqs, i)
       PROVE  ScanInv'
  <2> DEFINE old == hits[k]
             len == Len(old)
  <2>1. hits'[k] = Append(old, [host |-> 1, token |-> j])
    BY <1>7, <1>18
  <2> DEFINE new == hits'[k]
  <2>2. /\ Len(new) = len + 1 /\ len \in Nat
        /\ \A m \in 1..len : new[m] = old[m]
        /\ new[len + 1].host = 1 /\ new[len + 1].token = j
    BY <1>4, <1>5, <2>1
  <2>3. ASSUME NEW m \in 1..len
        PROVE  old[m].token < j
    <3>1. old[m].token \in Wanted(reqs) /\ HeadEnd(reqs, old[m].token) <= Offset(k)
      BY <1>13
    <3> DEFINE t == old[m].token
    <3>2. t \in 1..Len(reqs) /\ j \in 1..Len(reqs)
      BY <1>5, <3>1
    <3> HIDE DEF t
    <3>3. /\ StartOf(reqs, t) \in Nat /\ HeadEnd(reqs, t) \in Nat
          /\ HeadEnd(reqs, t) >= StartOf(reqs, t) + 7
          /\ StartOf(reqs, j) \in Nat /\ HeadEnd(reqs, j) \in Nat
          /\ HeadEnd(reqs, j) >= StartOf(reqs, j) + 7
          /\ j < t => HeadEnd(reqs, j) <= StartOf(reqs, t)
      BY <1>5, <3>2, Apart
    <3>4. HeadEnd(reqs, t) <= StartOf(reqs, j)
      BY <1>4, <1>18, <3>1, <3>3 DEF t
    <3>5. t # j /\ ~(j < t)
      BY <3>3, <3>4
    <3> QED
      BY <3>2, <3>5 DEF t
  <2> HIDE DEF new
  <2>4. HitsInv(k)'
    <3>1. ASSUME NEW m \in 1..Len(new)
          PROVE  /\ new[m].host = 1
                 /\ new[m].token \in Wanted(reqs)
                 /\ HeadEnd(reqs, new[m].token) <= o2
                 /\ \A l \in 1..(m - 1) : new[l].token < new[m].token
      <4>1. CASE m = len + 1
        <5>1. \A l \in 1..(m - 1) : l \in 1..len
          BY <2>2, <4>1
        <5> QED
          BY <1>18, <2>2, <2>3, <4>1, <5>1
      <4>2. CASE m \in 1..len
        <5>1. new[m] = old[m] /\ \A l \in 1..(m - 1) : new[l] = old[l]
          BY <2>2, <4>2
        <5>2. /\ old[m].host = 1 /\ old[m].token \in Wanted(reqs)
              /\ HeadEnd(reqs, old[m].token) <= Offset(k)
              /\ \A l \in 1..(m - 1) : old[l].token < old[m].token
          BY <1>13, <4>2
        <5>3. HeadEnd(reqs, old[m].token) <= o2
          <6>1. HeadEnd(reqs, old[m].token) \in Nat
            BY <1>14, <5>2
          <6>2. HeadEnd(reqs, old[m].token) <= Offset(k)
            BY <5>2
          <6> QED
            BY <1>4, <6>1, <6>2
        <5> QED
          BY <5>1, <5>2, <5>3
      <4> QED
        BY <2>2, <4>1, <4>2
    <3> QED
      BY <1>10, <3>1 DEF HitsInv, new
  <2>5. MissedInv(k)'
    <3>1. SUFFICES ASSUME ~overflowed'[k], NEW i \in Wanted(reqs), StartOf(reqs, i) < o2
                   PROVE  \/ \E m \in 1..Len(new) : new[m].token = i
                          \/ AfterMethod(reqs, i)
      BY <1>10 DEF MissedInv, new
    <3>2. ~overflowed[k] /\ ~cut
      BY <1>10, <3>1
    <3>3. CASE i = j
      <4>1. len + 1 \in 1..Len(new)
        BY <2>2
      <4> QED
        BY <2>2, <3>3, <4>1
    <3>4. CASE \E m \in 1..len : old[m].token = i
      <4>1. PICK m \in 1..len : old[m].token = i
        BY <3>4
      <4>2. m \in 1..Len(new) /\ new[m].token = i
        BY <2>2, <4>1
      <4> QED
        BY <4>2
    <3>5. CASE i # j /\ ~ \E m \in 1..len : old[m].token = i
      BY <1>15, <1>16, <1>18, <3>1, <3>2, <3>5
    <3> QED
      BY <3>3, <3>4, <3>5
  <2> QED
    BY <1>8, <1>9, <1>11, <1>12, <2>4, <2>5 DEF ScanInv
<1> QED
  BY <1>3, <1>17, <1>18, Zenon DEF gone

\* However the plaintext is cut into chunks, parse_stream keeps in a direction's
\* buffer the end of what was read, has reported tokens of requests before that,
\* in their order, and has passed over no other but those after a method word
\* and those that MAX_HTTP1_BUFFER cut off.
THEOREM ScanInvHolds == Spec => []ScanInv
<1>1. Init => ScanInv
  BY InitIsFine
<1>2. ScanInv /\ [Next]_vars => ScanInv'
  <2> SUFFICES ASSUME ScanInv, [Next]_vars
               PROVE  ScanInv'
    OBVIOUS
  <2>1. CASE UNCHANGED vars
    <3>1. /\ requests' = requests /\ wire' = wire /\ read' = read /\ buffers' = buffers
          /\ hits' = hits /\ overflowed' = overflowed
      BY <2>1 DEF vars
    <3>2. \A k \in Keys : Offset(k)' = Offset(k) /\ RequestsOn(k)' = RequestsOn(k)
      BY <3>1 DEF Offset, RequestsOn
    <3> QED
      BY <3>1, <3>2 DEF ScanInv, WireInv, ScanTypes, BufferInv, HitsInv, MissedInv
  <2>2. CASE Rebuild
    <3>1. Unread'
      BY <2>2 DEF Rebuild, Unread
    <3>2. WireInv'
      BY <2>2 DEF Rebuild, ScanInv, WireInv
    <3> QED
      BY <3>1, <3>2, UnreadIsFine, PTL
  <2>3. ASSUME NEW k \in Keys, NEW n \in 1..Len(wire[k]), ParseStream(k, n)
        PROVE  ScanInv'
    BY <2>3, ChunkKeeps
  <2> QED
    BY <2>1, <2>2, <2>3 DEF Next
<1> QED
  BY <1>1, <1>2, PTL DEF Spec

\* A buffer in the words of TypeOK.
LEMMA SuffixOfRead ==
    ASSUME ScanInv, NEW k \in Keys
    PROVE  IsSuffix(buffers[k], SubSeq(wire[k], 1, read[k]))
<1> DEFINE s == buffers[k]
           t == SubSeq(wire[k], 1, read[k])
           o == Offset(k)
           r == read[k]
           w == wire[k]
<1>1. /\ w \in Seq(Symbols) /\ Len(w) \in Nat /\ r \in Nat /\ r \in 0..Len(w) /\ o \in 0..r /\ o \in Nat
      /\ s = Window(w, o, r)
  BY KeyTypes DEF ScanInv, BufferInv
<1> HIDE DEF s, o, r, w
<1>2. s \in Seq(Symbols) /\ Len(s) = r - o /\ \A i \in 1..(r - o) : s[i] = w[o + i]
  BY <1>1, WindowFacts
<1>3. t \in Seq(Symbols) /\ Len(t) = r /\ \A i \in 1..r : t[i] = w[i]
  BY <1>1 DEF r, w
<1> HIDE DEF t
<1>4. /\ Reverse(s) \in Seq(Symbols) /\ Len(Reverse(s)) = r - o
      /\ \A i \in 1..(r - o) : Reverse(s)[i] = s[(r - o) - i + 1]
  BY <1>1, <1>2 DEF Reverse
<1>5. /\ Reverse(t) \in Seq(Symbols) /\ Len(Reverse(t)) = r
      /\ \A i \in 1..r : Reverse(t)[i] = t[r - i + 1]
  BY <1>1, <1>3 DEF Reverse
<1>6. ASSUME NEW i \in 1..(r - o)
      PROVE  Reverse(s)[i] = Reverse(t)[i]
  <2>1. /\ (r - o) - i + 1 \in 1..(r - o) /\ o + ((r - o) - i + 1) = r - i + 1
        /\ r - i + 1 \in 1..r /\ i \in 1..r
    BY <1>1
  <2> QED
    BY <1>2, <1>3, <1>4, <1>5, <2>1
<1> DEFINE rs == Reverse(s)
           rt == Reverse(t)
<1> HIDE DEF rs, rt
<1>7. IsPrefix(rs, rt)
  <2>1. /\ rs \in Seq(Symbols) /\ Len(rs) = r - o /\ rt \in Seq(Symbols) /\ Len(rt) = r
        /\ \A i \in 1..(r - o) : rs[i] = rt[i]
    BY <1>4, <1>5, <1>6 DEF rs, rt
  <2>2. SubSeq(rs, 1, Len(rs)) = rs
    BY <2>1, SubSeqFull
  <2>3. /\ SubSeq(rt, 1, r - o) \in Seq(Symbols) /\ Len(SubSeq(rt, 1, r - o)) = r - o
        /\ \A i \in 1..(r - o) : SubSeq(rt, 1, r - o)[i] = rt[i]
    BY <1>1, <2>1
  <2>4. rs = SubSeq(rt, 1, r - o)
    BY <2>1, <2>3, SeqEqual
  <2> QED
    BY <1>1, <2>1, <2>2, <2>4 DEF IsPrefix
<1> QED
  BY <1>7, Zenon DEF IsSuffix, rs, rt, s, t, r, w

\* The buffer of a direction is never over MAX_HTTP1_BUFFER, and never holds
\* anything but the end of what was read of that direction.
THEOREM ScannerTypes == Spec => []TypeOK
<1>1. ScanInv => TypeOK
  <2> SUFFICES ASSUME ScanInv
               PROVE  TypeOK
    OBVIOUS
  <2>1. ASSUME NEW k \in Keys
        PROVE  /\ read[k] \in 0..Len(wire[k])
               /\ Len(buffers[k]) <= MaxBuffer
               /\ IsSuffix(buffers[k], SubSeq(wire[k], 1, read[k]))
    <3>1. read[k] \in 0..Len(wire[k])
      BY KeyTypes
    <3>2. Len(buffers[k]) <= MaxBuffer
      BY DEF ScanInv, BufferInv
    <3> QED
      BY <3>1, <3>2, SuffixOfRead
  <2>2. overflowed \in [Keys -> BOOLEAN]
    BY DEF ScanInv, ScanTypes
  <2> QED
    BY <2>1, <2>2 DEF TypeOK
<1> QED
  BY <1>1, ScanInvHolds, PTL

\* A wanted token whose head was read and that was not reported is still whole
\* in the buffer, where the next chunk finds it, unless the limit cut something
\* off or a method word in the body before it was taken for a request.
THEOREM UnreportedIsBufferedHolds == Spec => []UnreportedIsBuffered
<1>1. ScanInv => UnreportedIsBuffered
  <2> SUFFICES ASSUME ScanInv, NEW k \in Keys, ~overflowed[k], NEW i \in Arrived(k)
               PROVE  \/ i \in {hits[k][j].token : j \in DOMAIN hits[k]}
                      \/ StartOf(RequestsOn(k), i) >= read[k] - Len(buffers[k])
                      \/ i > 1 /\ RequestsOn(k)[i - 1].body = "method"
    BY DEF UnreportedIsBuffered
  <2>1. i \in Wanted(RequestsOn(k))
    BY DEF Arrived
  <2>2. StartOf(RequestsOn(k), i) \in Nat /\ Offset(k) \in Nat
    <3>1. RequestsOn(k) \in Seq(Requests) /\ i \in 1..Len(RequestsOn(k))
      BY <2>1, RequestsType DEF ScanInv
    <3> QED
      BY <3>1, Apart, KeyTypes
  <2>3. DOMAIN hits[k] = 1..Len(hits[k])
    BY KeyTypes
  <2>4. StartOf(RequestsOn(k), i) < Offset(k)
           => \/ \E m \in 1..Len(hits[k]) : hits[k][m].token = i
              \/ AfterMethod(RequestsOn(k), i)
    BY <2>1 DEF ScanInv, MissedInv
  <2>5. StartOf(RequestsOn(k), i) >= Offset(k) \/ StartOf(RequestsOn(k), i) < Offset(k)
    BY <2>2
  <2> QED
    BY <2>3, <2>4, <2>5 DEF Offset, AfterMethod
<1> QED
  BY <1>1, ScanInvHolds, PTL

-----------------------------------------------------------------------------
(* The feed of a direction: what the scanner shows to the capture thread.  *)

\* The feed of a direction: its tokens that arrived, the numbers of those
\* reported, and whether some may be missed.
SentOn(k) == Cardinality(Arrived(k))
GotOn(k) == [i \in DOMAIN hits[k] |-> RankOf(k, hits[k][i])]
LossyOn(k) == overflowed[k] \/ Misled(k)

\* The wanted requests up to a place.
UpTo(reqs, j) == {i \in Wanted(reqs) : i <= j}

\* There are finitely many of them.
LEMMA WantedIsFinite ==
    ASSUME NEW reqs \in Seq(Requests), NEW T, T \subseteq Wanted(reqs)
    PROVE  IsFiniteSet(T) /\ Cardinality(T) \in Nat
<1>1. T \subseteq 1..Len(reqs)
  BY DEF Wanted
<1>2. IsFiniteSet(1..Len(reqs))
  BY FS_Interval
<1>3. IsFiniteSet(T)
  BY <1>1, <1>2, FS_Subset
<1> QED
  BY <1>3, FS_CardinalityType

\* How the numbers of two wanted requests compare.
LEMMA RanksInOrder ==
    ASSUME NEW reqs \in Seq(Requests), NEW j \in Wanted(reqs), NEW t \in Nat, t < j
    PROVE  /\ Cardinality(UpTo(reqs, t)) \in Nat /\ Cardinality(UpTo(reqs, j)) \in Nat
           /\ Cardinality(UpTo(reqs, t)) < Cardinality(UpTo(reqs, j))
           /\ (\A i \in Wanted(reqs) : ~(t < i /\ i < j))
                 => Cardinality(UpTo(reqs, j)) = Cardinality(UpTo(reqs, t)) + 1
<1> DEFINE T == UpTo(reqs, t)
           J == UpTo(reqs, j)
<1>1. \A i \in Wanted(reqs) : i \in Nat
  BY DEF Wanted
<1>2. T \subseteq Wanted(reqs) /\ J \subseteq Wanted(reqs)
  BY DEF UpTo
<1>3. /\ IsFiniteSet(T) /\ Cardinality(T) \in Nat
      /\ IsFiniteSet(J) /\ Cardinality(J) \in Nat
  BY <1>2, WantedIsFinite
<1>4. j \notin T /\ T \cup {j} \subseteq J
  BY <1>1 DEF UpTo
<1>5. (\A i \in Wanted(reqs) : ~(t < i /\ i < j)) => J \subseteq T \cup {j}
  BY <1>1 DEF UpTo
<1> HIDE DEF T, J
<1>6. Cardinality(T \cup {j}) = Cardinality(T) + 1
  BY <1>3, <1>4, FS_AddElement
<1>7. Cardinality(T \cup {j}) <= Cardinality(J)
  BY <1>3, <1>4, FS_Subset
<1>8. J \subseteq T \cup {j} => J = T \cup {j}
  BY <1>4
<1>9. Cardinality(T) < Cardinality(J)
  BY <1>3, <1>6, <1>7
<1>10. J \subseteq T \cup {j} => Cardinality(J) = Cardinality(T) + 1
  BY <1>6, <1>8
<1> QED
  BY <1>3, <1>5, <1>9, <1>10, Zenon DEF T, J

\* The types of a feed, and the numbers that it holds.
LEMMA FeedOnType ==
    ASSUME ScanInv, NEW k \in Keys
    PROVE  /\ SentOn(k) \in Nat
           /\ GotOn(k) \in Seq(Nat)
           /\ Len(GotOn(k)) = Len(hits[k])
           /\ \A m \in 1..Len(hits[k]) :
                 GotOn(k)[m] = Cardinality(UpTo(RequestsOn(k), hits[k][m].token))
<1> DEFINE reqs == RequestsOn(k)
<1>1. reqs \in Seq(Requests)
  BY RequestsType DEF ScanInv
<1>2. SentOn(k) \in Nat
  <2>1. Arrived(k) \subseteq Wanted(reqs)
    BY DEF Arrived
  <2> QED
    BY <1>1, <2>1, WantedIsFinite DEF SentOn
<1>3. DOMAIN hits[k] = 1..Len(hits[k]) /\ Len(hits[k]) \in Nat
  BY KeyTypes
<1>4. ASSUME NEW m \in 1..Len(hits[k])
      PROVE  /\ RankOf(k, hits[k][m]) = Cardinality(UpTo(reqs, hits[k][m].token))
             /\ RankOf(k, hits[k][m]) \in Nat
  <2>1. hits[k][m].host = 1 /\ hits[k][m].token \in Wanted(reqs)
    BY DEF ScanInv, HitsInv
  <2>2. RankOf(k, hits[k][m]) = Cardinality(UpTo(reqs, hits[k][m].token))
    BY <2>1, Zenon DEF RankOf, UpTo
  <2>3. UpTo(reqs, hits[k][m].token) \subseteq Wanted(reqs)
    BY DEF UpTo
  <2> QED
    BY <1>1, <2>2, <2>3, WantedIsFinite
<1> DEFINE r(m) == RankOf(k, hits[k][m])
<1>5. GotOn(k) = [m \in 1..Len(hits[k]) |-> r(m)]
  BY <1>3, Zenon DEF GotOn
<1>6. \A m \in 1..Len(hits[k]) : r(m) \in Nat
  BY <1>4
<1> HIDE DEF r
<1>7. /\ GotOn(k) \in Seq(Nat) /\ Len(GotOn(k)) = Len(hits[k])
      /\ \A m \in 1..Len(hits[k]) : GotOn(k)[m] = r(m)
  BY <1>3, <1>5, <1>6
<1> QED
  BY <1>2, <1>4, <1>7 DEF r

\* A chunk of one direction leaves the feeds of the others alone.
LEMMA OtherFeeds ==
    ASSUME ScanInv, NEW k \in Keys, NEW n \in 1..Len(wire[k]), ParseStream(k, n),
           NEW g \in Keys, g # k
    PROVE  SentOn(g)' = SentOn(g) /\ GotOn(g)' = GotOn(g) /\ LossyOn(g)' = LossyOn(g)
<1>1. /\ UNCHANGED <<requests, wire>>
      /\ read' = [read EXCEPT ![k] = read[k] + n]
  BY ChunkStep
<1>2. PICK o2 \in Offset(k)..(read[k] + n), cut \in BOOLEAN : Taken(k, read[k] + n, o2, cut)
  BY ChunkStep, Zenon
<1>3. /\ read \in [Keys -> Nat]
      /\ hits \in [Keys -> Seq([host : Nat, token : Nat])]
      /\ overflowed \in [Keys -> BOOLEAN]
  BY DEF ScanInv, ScanTypes
<1>4. read'[g] = read[g]
  BY <1>1, <1>3
<1>5. overflowed'[g] = overflowed[g]
  <2>1. overflowed' = [overflowed EXCEPT ![k] = overflowed[k] \/ cut]
    BY <1>2 DEF Taken
  <2> QED
    BY <1>3, <2>1
<1>6. hits'[g] = hits[g]
  <2>1. \/ hits' = hits
        \/ \E j \in Wanted(RequestsOn(k)) :
              hits' = [hits EXCEPT ![k] = Append(hits[k], [host |-> 1, token |-> j])]
    BY <1>2, Zenon DEF Taken
  <2> QED
    BY <1>3, <2>1
<1>7. RequestsOn(g)' = RequestsOn(g)
  BY <1>1 DEF RequestsOn
<1>8. Arrived(g)' = Arrived(g) /\ Misled(g)' = Misled(g)
  BY <1>4, <1>7 DEF Arrived, Misled
<1>9. GotOn(g)' = GotOn(g)
  <2>1. \A hit : RankOf(g, hit)' = RankOf(g, hit)
    BY <1>7 DEF RankOf
  <2> QED
    BY <1>6, <1>7 DEF GotOn, RankOf
<1> QED
  BY <1>5, <1>8, <1>9 DEF SentOn, LossyOn

\* The feed of that direction gets further, and what it missed stays missed.
LEMMA FeedGrows ==
    ASSUME ScanInv, NEW k \in Keys, NEW n \in 1..Len(wire[k]), ParseStream(k, n)
    PROVE  /\ SentOn(k)' \in Nat /\ SentOn(k) <= SentOn(k)'
           /\ LossyOn(k) => LossyOn(k)'
<1>1. /\ UNCHANGED <<requests, wire>>
      /\ read' = [read EXCEPT ![k] = read[k] + n]
  BY ChunkStep
<1>2. PICK o2 \in Offset(k)..(read[k] + n), cut \in BOOLEAN : Taken(k, read[k] + n, o2, cut)
  BY ChunkStep, Zenon
<1>3. /\ read \in [Keys -> Nat]
      /\ overflowed \in [Keys -> BOOLEAN]
  BY DEF ScanInv, ScanTypes
<1>4. read'[k] = read[k] + n /\ read[k] \in Nat /\ n \in Nat
  BY <1>1, <1>3, KeyTypes
<1>5. overflowed[k] => overflowed'[k]
  <2>1. overflowed' = [overflowed EXCEPT ![k] = overflowed[k] \/ cut]
    BY <1>2 DEF Taken
  <2> QED
    BY <1>3, <2>1
<1>6. RequestsOn(k)' = RequestsOn(k)
  BY <1>1 DEF RequestsOn
<1> DEFINE reqs == RequestsOn(k)
<1>7. reqs \in Seq(Requests) /\ \A i \in 1..Len(reqs) : HeadEnd(reqs, i) \in Nat
  BY RequestsType, Apart DEF ScanInv
<1>8. Arrived(k)' = {i \in Wanted(reqs) : HeadEnd(reqs, i) <= read'[k]}
  BY <1>6 DEF Arrived
<1>9. Arrived(k) \subseteq Arrived(k)'
  <2>1. Wanted(reqs) \subseteq 1..Len(reqs)
    BY RequestsType DEF ScanInv
  <2> QED
    BY <1>4, <1>7, <1>8, <2>1 DEF Arrived
<1>10. Misled(k) => Misled(k)'
  <2>1. DOMAIN reqs = 1..Len(reqs)
    BY <1>7
  <2> QED
    BY <1>4, <1>6, <1>7, <2>1 DEF Misled
<1>11. SentOn(k)' \in Nat /\ SentOn(k) <= SentOn(k)'
  <2>1. Arrived(k)' \subseteq Wanted(reqs)
    BY <1>8
  <2>2. IsFiniteSet(Arrived(k)') /\ Cardinality(Arrived(k)') \in Nat
    BY <1>7, <2>1, WantedIsFinite
  <2>3. Cardinality(Arrived(k)) <= Cardinality(Arrived(k)')
    BY <1>9, <2>2, FS_Subset
  <2> QED
    BY <2>2, <2>3 DEF SentOn
<1> QED
  BY <1>5, <1>10, <1>11 DEF LossyOn

\* The request whose token was reported last.
Before(k) == IF Len(hits[k]) = 0 THEN 0 ELSE hits[k][Len(hits[k])].token

\* The token that is reported is the next one, unless a method word or the
\* limit was in between.
LEMMA NewReport ==
    ASSUME ScanInv, NEW k \in Keys, NEW n \in 1..Len(wire[k]), ParseStream(k, n),
           NEW j \in Wanted(RequestsOn(k)),
           hits' = [hits EXCEPT ![k] = Append(hits[k], [host |-> 1, token |-> j])]
    PROVE  LET reqs == RequestsOn(k)
           IN  /\ Before(k) \in Nat /\ Before(k) < j
               /\ Cardinality(UpTo(reqs, j)) \in 1..SentOn(k)'
               /\ \/ \A i \in Wanted(reqs) : ~(Before(k) < i /\ i < j)
                  \/ LossyOn(k)'
<1> DEFINE reqs == RequestsOn(k)
           len == Len(hits[k])
           new == hits'[k]
           t == Before(k)
<1>1. ScanInv'
  BY ChunkKeeps
<1>2. UNCHANGED <<requests, wire>>
  BY ChunkStep
<1>3. /\ RequestsOn(k)' = reqs /\ reqs \in Seq(Requests)
      /\ Wanted(reqs) \subseteq 1..Len(reqs) /\ Wanted(reqs) \subseteq Nat
      /\ DOMAIN reqs = 1..Len(reqs)
  BY <1>2, RequestsType DEF RequestsOn, ScanInv
<1>4. /\ hits \in [Keys -> Seq([host : Nat, token : Nat])]
      /\ hits[k] \in Seq([host : Nat, token : Nat]) /\ len \in Nat
  BY KeyTypes DEF ScanInv, ScanTypes
<1>5. new = Append(hits[k], [host |-> 1, token |-> j])
  BY <1>4
<1>6. /\ Len(new) = len + 1
      /\ \A m \in 1..len : new[m] = hits[k][m]
      /\ new[len + 1].token = j
  BY <1>3, <1>4, <1>5
<1>7. /\ \A m \in 1..Len(new) : HeadEnd(reqs, new[m].token) <= Offset(k)'
      /\ \A m \in 1..Len(new) : \A l \in 1..(m - 1) : new[l].token < new[m].token
  BY <1>1, <1>3 DEF ScanInv, HitsInv
<1>8. Offset(k)' \in Nat /\ Offset(k)' <= read'[k] /\ read'[k] \in Nat
  <2>1. /\ read'[k] \in Nat /\ Len(buffers'[k]) \in Nat
    BY <1>1 DEF ScanInv, ScanTypes
  <2>2. Offset(k)' \in Nat
    BY <1>1 DEF ScanInv, BufferInv
  <2> QED
    BY <2>1, <2>2 DEF Offset
<1>16. \A m \in 1..len : hits[k][m].token \in Nat
  <2>1. \A m \in 1..len : hits[k][m].token \in Wanted(reqs)
    BY DEF ScanInv, HitsInv
  <2> QED
    BY <1>3, <2>1
<1>17. Wanted(reqs) \subseteq 1..Len(reqs) /\ j \in Nat /\ 0 < j
  <2>1. j \in 1..Len(reqs)
    BY <1>3
  <2> QED
    BY <1>3, <2>1
<1> HIDE DEF new, reqs
<1>9. \A l \in 1..len : new[l].token < j
  <2>1. len + 1 \in 1..Len(new) /\ (len + 1) - 1 = len
    BY <1>4, <1>6
  <2>2. \A l \in 1..((len + 1) - 1) : new[l].token < new[len + 1].token
    BY <1>7, <2>1
  <2> QED
    BY <1>6, <2>1, <2>2
<1>10. t \in Nat /\ t < j
  <2>1. CASE len = 0
    BY <1>17, <2>1 DEF Before
  <2>2. CASE len # 0
    <3>1. t = hits[k][len].token /\ len \in 1..len
      BY <1>4, <2>2 DEF Before
    <3> QED
      BY <1>6, <1>9, <1>16, <3>1
  <2> QED
    BY <2>1, <2>2
<1>11. \A i \in Wanted(reqs) :
          /\ StartOf(reqs, i) \in Nat /\ HeadEnd(reqs, i) \in Nat
          /\ HeadEnd(reqs, i) >= StartOf(reqs, i) + 7
          /\ i < j => HeadEnd(reqs, i) <= StartOf(reqs, j)
  BY <1>3, Apart DEF reqs
<1>12. j \in Wanted(reqs) /\ HeadEnd(reqs, j) <= Offset(k)'
  BY <1>4, <1>6, <1>7 DEF reqs
<1>13. Cardinality(UpTo(reqs, j)) \in 1..SentOn(k)'
  <2>1. UpTo(reqs, j) \subseteq Arrived(k)'
    <3>1. Arrived(k)' = {i \in Wanted(reqs) : HeadEnd(reqs, i) <= read'[k]}
      BY <1>3 DEF Arrived
    <3>2. ASSUME NEW i \in UpTo(reqs, j)
          PROVE  i \in Wanted(reqs) /\ HeadEnd(reqs, i) <= read'[k]
      <4>1. i \in Wanted(reqs) /\ i <= j /\ i \in Nat /\ j \in Nat
        BY <1>3, <1>12, <3>2 DEF UpTo
      <4> QED
        BY <1>8, <1>11, <1>12, <4>1
    <3> QED
      BY <3>1, <3>2
  <2>2. Arrived(k)' \subseteq Wanted(reqs)
    BY <1>3 DEF Arrived
  <2>3. IsFiniteSet(Arrived(k)') /\ Cardinality(Arrived(k)') \in Nat
    BY <1>3, <2>2, WantedIsFinite
  <2>4. Cardinality(UpTo(reqs, j)) <= Cardinality(Arrived(k)')
    BY <2>1, <2>3, FS_Subset
  <2>5. /\ Cardinality(UpTo(reqs, t)) \in Nat /\ Cardinality(UpTo(reqs, j)) \in Nat
        /\ Cardinality(UpTo(reqs, t)) < Cardinality(UpTo(reqs, j))
    BY <1>3, <1>10, <1>12, RanksInOrder
  <2> QED
    BY <2>3, <2>4, <2>5 DEF SentOn
<1>14. ASSUME NEW i \in Wanted(reqs), t < i, i < j
       PROVE  LossyOn(k)'
  <2>1. i \in Nat /\ i \in 1..Len(reqs) /\ j \in Nat
    BY <1>3, <1>12
  <2>2. StartOf(reqs, i) < Offset(k)'
    BY <1>8, <1>11, <1>12, <1>14
  <2>3. \A m \in 1..Len(new) : new[m].token # i
    <3>1. ASSUME NEW m \in 1..len
          PROVE  new[m].token <= t
      <4>1. len \in 1..len /\ t = hits[k][len].token /\ len \in 1..Len(new)
        BY <1>4, <1>6 DEF Before
      <4>2. m = len \/ m \in 1..(len - 1)
        BY <1>4
      <4>3. new[len].token = t
        BY <1>6, <4>1
      <4>4. m \in 1..(len - 1) => new[m].token < new[len].token
        BY <1>7, <4>1
      <4>5. new[m].token \in Nat
        BY <1>6, <1>16
      <4> QED
        BY <1>10, <4>2, <4>3, <4>4, <4>5
    <3>2. ASSUME NEW m \in 1..len
          PROVE  new[m].token # i
      <4>1. new[m].token \in Nat
        BY <1>6, <1>16
      <4> QED
        BY <1>10, <1>14, <2>1, <3>1, <4>1
    <3>3. new[len + 1].token # i
      BY <1>6, <1>14, <2>1
    <3>4. \A m \in 1..Len(new) : m = len + 1 \/ m \in 1..len
      BY <1>4, <1>6
    <3> QED
      BY <3>2, <3>3, <3>4
  <2>4. CASE overflowed'[k]
    BY <2>4 DEF LossyOn
  <2>5. CASE ~overflowed'[k]
    <3>1. AfterMethod(reqs, i)
      <4>1. MissedInv(k)'
        BY <1>1 DEF ScanInv
      <4> QED
        BY <1>3, <2>2, <2>3, <2>5, <4>1 DEF MissedInv, new
    <3>2. i - 1 \in 1..Len(reqs) /\ reqs[i - 1].body = "method"
      BY <2>1, <3>1 DEF AfterMethod
    <3>3. HeadEnd(reqs, i - 1) <= StartOf(reqs, i) /\ HeadEnd(reqs, i - 1) \in Nat
      <4>1. i - 1 < i
        BY <2>1
      <4> QED
        BY <1>3, <2>1, <3>2, <4>1, Apart
    <3>4. HeadEnd(reqs, i - 1) < read'[k]
      BY <1>8, <1>11, <2>2, <3>3
    <3>5. Misled(k)'
      BY <1>3, <3>2, <3>4 DEF Misled
    <3> QED
      BY <3>5 DEF LossyOn
  <2> QED
    BY <2>4, <2>5
<1> QED
  BY <1>10, <1>13, <1>14 DEF reqs

-----------------------------------------------------------------------------
(* The scanner implements TokenFeed.                                       *)

\* The variables of TokenFeed.
FeedSent == [k \in Keys |-> SentOn(k)]
FeedGot == [k \in Keys |-> GotOn(k)]
FeedLossy == [k \in Keys |-> LossyOn(k)]

\* A step of one feed, in these names.
LEMMA FeedData ==
    ASSUME NEW k \in Keys,
           \E more \in 0..FeedSent'[k] : FeedSent' = [FeedSent EXCEPT ![k] = FeedSent[k] + more],
           \E cut \in BOOLEAN : FeedLossy' = [FeedLossy EXCEPT ![k] = FeedLossy[k] \/ cut],
           \/ \E num \in 1..FeedSent'[k] :
                 LET last == IF FeedGot[k] = <<>> THEN 0 ELSE FeedGot[k][Len(FeedGot[k])]
                 IN  /\ num > last
                     /\ num = last + 1 \/ FeedLossy'[k]
                     /\ FeedGot' = [FeedGot EXCEPT ![k] = Append(FeedGot[k], num)]
           \/ FeedGot' = FeedGot
    PROVE  Feed!Data(k)
BY Zenon DEF Feed!Data, Feed!Report, Feed!Last, FeedSent, FeedGot, FeedLossy, SentOn, GotOn, LossyOn

\* A new feed, in these names.
LEMMA FeedFresh ==
    ASSUME FeedSent = [k \in Keys |-> 0], FeedGot = [k \in Keys |-> <<>>],
           FeedLossy = [k \in Keys |-> FALSE]
    PROVE  Feed!Fresh
BY Zenon DEF Feed!Fresh, FeedSent, FeedGot, FeedLossy, SentOn, GotOn, LossyOn

\* A new scanner has new feeds.
LEMMA UnreadIsFresh ==
    ASSUME ScanInv, Unread
    PROVE  Feed!Fresh
<1>1. ASSUME NEW k \in Keys
      PROVE  SentOn(k) = 0 /\ GotOn(k) = <<>> /\ LossyOn(k) = FALSE
  <2> DEFINE reqs == RequestsOn(k)
  <2>1. read[k] = 0 /\ hits[k] = <<>> /\ overflowed[k] = FALSE
    BY <1>1 DEF Unread
  <2>2. /\ reqs \in Seq(Requests) /\ Wanted(reqs) \subseteq 1..Len(reqs)
        /\ DOMAIN reqs = 1..Len(reqs)
    BY RequestsType DEF ScanInv
  <2>3. \A i \in 1..Len(reqs) : HeadEnd(reqs, i) \in Nat /\ HeadEnd(reqs, i) > 0
    <3>1. ASSUME NEW i \in 1..Len(reqs)
          PROVE  /\ StartOf(reqs, i) \in Nat /\ HeadEnd(reqs, i) \in Nat
                 /\ HeadEnd(reqs, i) >= StartOf(reqs, i) + 7
      BY <2>2, Apart
    <3> QED
      BY <3>1
  <2>4. Arrived(k) = {}
    BY <2>1, <2>2, <2>3 DEF Arrived
  <2>5. ~Misled(k)
    BY <2>1, <2>2, <2>3 DEF Misled
  <2>6. GotOn(k) = <<>>
    <3>1. DOMAIN hits[k] = {}
      BY <2>1
    <3>2. GotOn(k) = [i \in {} |-> RankOf(k, hits[k][i])]
      BY <3>1, Zenon DEF GotOn
    <3> QED
      BY <3>2
  <2>7. SentOn(k) = 0
    BY <2>4, FS_EmptySet DEF SentOn
  <2> QED
    BY <2>1, <2>5, <2>6, <2>7 DEF LossyOn
<1>2. /\ FeedSent = [k \in Keys |-> 0] /\ FeedGot = [k \in Keys |-> <<>>]
      /\ FeedLossy = [k \in Keys |-> FALSE]
  <2>1. FeedSent = [k \in Keys |-> 0]
    BY <1>1, Zenon DEF FeedSent
  <2>2. FeedGot = [k \in Keys |-> <<>>]
    BY <1>1, Zenon DEF FeedGot
  <2>3. FeedLossy = [k \in Keys |-> FALSE]
    BY <1>1, Zenon DEF FeedLossy
  <2> QED
    BY <2>1, <2>2, <2>3
<1> QED
  BY <1>2, FeedFresh

\* FeedOnType for all directions.
FeedsTyped ==
    \A k \in Keys :
        /\ GotOn(k) \in Seq(Nat)
        /\ Len(GotOn(k)) = Len(hits[k])
        /\ \A m \in 1..Len(hits[k]) :
              GotOn(k)[m] = Cardinality(UpTo(RequestsOn(k), hits[k][m].token))

\* It follows from the invariant, and after a step as well as before it.
LEMMA FeedsAreTyped == ScanInv => FeedsTyped
BY FeedOnType, Zenon DEF FeedsTyped

\* The number that a report adds to the feed.
LEMMA ReportAppends ==
    ASSUME ScanInv, NEW k \in Keys, NEW n \in 1..Len(wire[k]), ParseStream(k, n),
           NEW j \in Wanted(RequestsOn(k)),
           hits' = [hits EXCEPT ![k] = Append(hits[k], [host |-> 1, token |-> j])]
    PROVE  GotOn(k)' = Append(GotOn(k), Cardinality(UpTo(RequestsOn(k), j)))
<1> DEFINE reqs == RequestsOn(k)
           len == Len(hits[k])
           new == hits'[k]
           num == Cardinality(UpTo(reqs, j))
           reported == GotOn(k)
           after == GotOn(k)'
<1>1. ScanInv'
  BY ChunkKeeps
<1>2. RequestsOn(k)' = reqs
  <2>1. UNCHANGED requests
    BY ChunkStep
  <2> QED
    BY <2>1 DEF RequestsOn
<1>3. /\ hits \in [Keys -> Seq([host : Nat, token : Nat])]
      /\ hits[k] \in Seq([host : Nat, token : Nat]) /\ len \in Nat
  BY KeyTypes DEF ScanInv, ScanTypes
<1>4. new = Append(hits[k], [host |-> 1, token |-> j])
  BY <1>3
<1>5. /\ Len(new) = len + 1
      /\ \A m \in 1..len : new[m] = hits[k][m]
      /\ new[len + 1].token = j
  BY <1>3, <1>4
<1>6. /\ reported \in Seq(Nat) /\ Len(reported) = len
      /\ \A m \in 1..len : reported[m] = Cardinality(UpTo(reqs, hits[k][m].token))
  BY FeedOnType
<1>7. /\ after \in Seq(Nat) /\ Len(after) = Len(new)
      /\ \A m \in 1..Len(new) : after[m] = Cardinality(UpTo(reqs, new[m].token))
  <2>1. FeedsTyped'
    BY <1>1, FeedsAreTyped, PTL
  <2>2. /\ GotOn(k)' \in Seq(Nat)
        /\ Len(GotOn(k)') = Len(hits'[k])
        /\ \A m \in 1..Len(hits'[k]) :
              GotOn(k)'[m] = Cardinality(UpTo(RequestsOn(k)', hits'[k][m].token))
    BY <2>1, Zenon DEF FeedsTyped, UpTo
  <2> QED
    BY <1>2, <2>2
<1>8. num \in Nat
  <2>1. UpTo(reqs, j) \subseteq Wanted(reqs) /\ reqs \in Seq(Requests)
    BY RequestsType DEF UpTo, ScanInv
  <2> QED
    BY <2>1, WantedIsFinite
<1> HIDE DEF reported, after, num, new
<1>10. /\ Append(reported, num) \in Seq(Nat) /\ Len(Append(reported, num)) = len + 1
       /\ \A m \in 1..len : Append(reported, num)[m] = reported[m]
       /\ Append(reported, num)[len + 1] = num
  BY <1>3, <1>6, <1>8
<1>12. /\ \A m \in 1..len : after[m] = reported[m]
       /\ after[len + 1] = num
  <2>1. \A m \in 1..len : m \in 1..Len(new)
    BY <1>3, <1>5
  <2>2. len + 1 \in 1..Len(new)
    BY <1>3, <1>5
  <2>3. \A m \in 1..len : after[m] = Cardinality(UpTo(reqs, hits[k][m].token))
    BY <1>5, <1>7, <2>1
  <2>4. after[len + 1] = num
    BY <1>5, <1>7, <2>2 DEF num
  <2> QED
    BY <1>6, <2>3, <2>4
<1>9. \A m \in 1..(len + 1) : after[m] = Append(reported, num)[m]
  <2>1. \A m \in 1..(len + 1) : m \in 1..len \/ m = len + 1
    BY <1>3
  <2> QED
    BY <1>10, <1>12, <2>1
<1>11. after = Append(reported, num)
  BY <1>3, <1>5, <1>7, <1>9, <1>10, SeqEqual
<1> QED
  BY <1>11 DEF reported, after, num

\* The number that was reported last.
LEMMA LastReport ==
    ASSUME ScanInv, NEW k \in Keys
    PROVE  Cardinality(UpTo(RequestsOn(k), Before(k)))
              = IF GotOn(k) = <<>> THEN 0 ELSE GotOn(k)[Len(GotOn(k))]
<1>1. /\ GotOn(k) \in Seq(Nat) /\ Len(GotOn(k)) = Len(hits[k])
      /\ \A m \in 1..Len(hits[k]) :
            GotOn(k)[m] = Cardinality(UpTo(RequestsOn(k), hits[k][m].token))
  BY FeedOnType
<1>2. Len(hits[k]) \in Nat
  BY KeyTypes
<1>3. CASE Len(hits[k]) = 0
  <2>1. Wanted(RequestsOn(k)) \subseteq 1..Len(RequestsOn(k)) /\ Len(RequestsOn(k)) \in Nat
    BY RequestsType DEF ScanInv
  <2>2. UpTo(RequestsOn(k), 0) = {}
    BY <2>1 DEF UpTo
  <2>3. Before(k) = 0 /\ GotOn(k) = <<>>
    BY <1>1, <1>3 DEF Before
  <2> QED
    BY <2>2, <2>3, FS_EmptySet
<1>4. CASE Len(hits[k]) # 0
  <2>1. Before(k) = hits[k][Len(hits[k])].token /\ GotOn(k) # <<>>
    BY <1>1, <1>4 DEF Before
  <2>2. Len(hits[k]) \in 1..Len(hits[k])
    BY <1>2, <1>4
  <2> QED
    BY <1>1, <2>1, <2>2
<1> QED
  BY <1>3, <1>4

\* A chunk is a step of the feed of its direction.
LEMMA ChunkIsData ==
    ASSUME ScanInv, NEW k \in Keys, NEW n \in 1..Len(wire[k]), ParseStream(k, n)
    PROVE  Feed!Data(k)
<1> DEFINE reqs == RequestsOn(k)
<1>1. /\ SentOn(k) \in Nat /\ SentOn(k)' \in Nat /\ SentOn(k) <= SentOn(k)'
      /\ LossyOn(k) => LossyOn(k)'
  BY FeedGrows, FeedOnType
<1>2. \A g \in Keys : g # k =>
         SentOn(g)' = SentOn(g) /\ GotOn(g)' = GotOn(g) /\ LossyOn(g)' = LossyOn(g)
  BY OtherFeeds
<1>3. LossyOn(k) \in BOOLEAN /\ LossyOn(k)' \in BOOLEAN
  <2>1. overflowed[k] \in BOOLEAN /\ overflowed'[k] \in BOOLEAN
    <3>1. ScanInv'
      BY ChunkKeeps
    <3> QED
      BY <3>1 DEF ScanInv, ScanTypes
  <2> QED
    BY <2>1 DEF LossyOn
<1>4. /\ FeedSent'[k] = SentOn(k)' /\ FeedSent[k] = SentOn(k)
      /\ FeedGot'[k] = GotOn(k)' /\ FeedGot[k] = GotOn(k)
      /\ FeedLossy'[k] = LossyOn(k)' /\ FeedLossy[k] = LossyOn(k)
  BY DEF FeedSent, FeedGot, FeedLossy
<1>5. \E more \in 0..FeedSent'[k] : FeedSent' = [FeedSent EXCEPT ![k] = FeedSent[k] + more]
  <2>1. SentOn(k)' - SentOn(k) \in 0..SentOn(k)' /\ SentOn(k) + (SentOn(k)' - SentOn(k)) = SentOn(k)'
    BY <1>1
  <2>2. FeedSent' = [FeedSent EXCEPT ![k] = SentOn(k)']
    BY <1>2 DEF FeedSent
  <2> QED
    BY <1>4, <2>1, <2>2
<1>6. \E cut \in BOOLEAN : FeedLossy' = [FeedLossy EXCEPT ![k] = FeedLossy[k] \/ cut]
  <2>1. FeedLossy' = [FeedLossy EXCEPT ![k] = LossyOn(k)']
    BY <1>2 DEF FeedLossy
  <2>2. (LossyOn(k) \/ LossyOn(k)') = LossyOn(k)'
    BY <1>1, <1>3
  <2> QED
    BY <1>3, <1>4, <2>1, <2>2
<1>7. PICK o2 \in Offset(k)..(read[k] + n), cut \in BOOLEAN : Taken(k, read[k] + n, o2, cut)
  BY ChunkStep, Zenon
<1>8. \/ hits' = hits
      \/ \E j \in Wanted(reqs) :
            hits' = [hits EXCEPT ![k] = Append(hits[k], [host |-> 1, token |-> j])]
  BY <1>7, Zenon DEF Taken
<1>9. CASE hits' = hits
  <2>1. UNCHANGED requests
    BY ChunkStep
  <2>2. GotOn(k)' = GotOn(k)
    BY <1>9, <2>1 DEF GotOn, RankOf, RequestsOn
  <2>3. FeedGot' = FeedGot
    BY <1>2, <2>2 DEF FeedGot
  <2> QED
    BY <1>5, <1>6, <2>3, FeedData
<1>10. ASSUME NEW j \in Wanted(reqs),
              hits' = [hits EXCEPT ![k] = Append(hits[k], [host |-> 1, token |-> j])]
       PROVE  Feed!Data(k)
  <2> DEFINE num == Cardinality(UpTo(reqs, j))
             last == IF GotOn(k) = <<>> THEN 0 ELSE GotOn(k)[Len(GotOn(k))]
  <2>1. /\ Before(k) \in Nat /\ Before(k) < j
        /\ num \in 1..SentOn(k)'
        /\ \/ \A i \in Wanted(reqs) : ~(Before(k) < i /\ i < j)
           \/ LossyOn(k)'
    BY <1>10, NewReport
  <2>2. reqs \in Seq(Requests)
    BY RequestsType DEF ScanInv
  <2>3. /\ Cardinality(UpTo(reqs, Before(k))) < num
        /\ (\A i \in Wanted(reqs) : ~(Before(k) < i /\ i < j))
              => num = Cardinality(UpTo(reqs, Before(k))) + 1
    BY <2>1, <2>2, RanksInOrder
  <2>4. Cardinality(UpTo(reqs, Before(k))) = last
    BY LastReport
  <2>5. num > last /\ (num = last + 1 \/ LossyOn(k)')
    BY <2>1, <2>3, <2>4
  <2>6. GotOn(k)' = Append(GotOn(k), num)
    BY <1>10, ReportAppends
  <2>7. FeedGot' = [FeedGot EXCEPT ![k] = Append(FeedGot[k], num)]
    BY <1>2, <1>4, <2>6 DEF FeedGot
  <2> HIDE DEF num
  <2> QED
    BY <1>4, <1>5, <1>6, <2>1, <2>5, <2>7, FeedData
<1> QED
  BY <1>8, <1>9, <1>10

\* However the plaintext of each direction is cut into chunks, and whatever else
\* is sent, the tokens come out in the order they were sent, each once, with the
\* host they were sent to, and one is passed over only where the limit cut or a
\* method word in a body misled the scanner.  A new scanner (load_sync_keys)
\* starts every feed again.
THEOREM ImplementsFeedHolds == Spec => ImplementsFeed
<1>1. Init => Feed!Init
  <2> SUFFICES ASSUME Init
               PROVE  Feed!Init
    OBVIOUS
  <2>1. ScanInv /\ Unread
    BY InitIsFine DEF Init, Unread
  <2> QED
    BY <2>1, UnreadIsFresh, Zenon DEF Feed!Init
<1>2. ScanInv /\ ScanInv' /\ [Next]_vars => [Feed!Next]_Feed!vars
  <2> SUFFICES ASSUME ScanInv, ScanInv', [Next]_vars
               PROVE  [Feed!Next]_Feed!vars
    OBVIOUS
  <2>1. CASE UNCHANGED vars
    BY <2>1, Zenon DEF vars, Feed!vars, Arrived, RankOf, Misled, RequestsOn
  <2>2. CASE Rebuild
    <3>1. Unread'
      BY <2>2 DEF Rebuild, Unread
    <3>2. Feed!Fresh'
      BY <3>1, UnreadIsFresh, PTL
    <3> QED
      BY <3>2, Zenon DEF Feed!Next, Feed!Reread
  <2>3. ASSUME NEW k \in Keys, NEW n \in 1..Len(wire[k]), ParseStream(k, n)
        PROVE  Feed!Next
    <3>1. Feed!Data(k)
      BY <2>3, ChunkIsData
    <3> QED
      BY <3>1, Zenon DEF Feed!Next
  <2> QED
    BY <2>1, <2>2, <2>3 DEF Next
<1> QED
  BY <1>1, <1>2, ScanInvHolds, PTL DEF Spec, ImplementsFeed, Feed!Spec

-----------------------------------------------------------------------------
(* What a reader of the feeds may rely on, whoever writes them.            *)

CONSTANT Feeds
VARIABLES sent, got, lossy

AnyFeed == INSTANCE TokenFeed

\* The types of the feeds.

AnyFeedTypes ==
    /\ sent \in [Feeds -> Nat]
    /\ got \in [Feeds -> Seq(Nat)]
    /\ lossy \in [Feeds -> BOOLEAN]

FeedInv == AnyFeedTypes /\ AnyFeed!OnceInOrder /\ AnyFeed!NonePassedOver

\* What a step on the feed f does to it, put so that it can be used feed by feed.
LEMMA DataOnOne ==
    ASSUME AnyFeedTypes, NEW f \in Feeds, AnyFeed!Data(f)
    PROVE  /\ sent' \in [Feeds -> Nat]
           /\ lossy' \in [Feeds -> BOOLEAN]
           /\ \A g \in Feeds : sent'[g] >= sent[g]
           /\ \A g \in Feeds : lossy[g] => lossy'[g]
<1>1. PICK more \in 0..sent'[f] : sent' = [sent EXCEPT ![f] = @ + more]
  BY DEF AnyFeed!Data
<1>2. more \in Nat
  <2>1. more \in Int /\ 0 <= more
    BY <1>1
  <2> QED
    BY <2>1
<1>3. PICK cut \in BOOLEAN : lossy' = [lossy EXCEPT ![f] = @ \/ cut]
  BY DEF AnyFeed!Data
<1>4. /\ sent' \in [Feeds -> Nat]
      /\ \A g \in Feeds : sent'[g] >= sent[g]
  BY <1>1, <1>2 DEF AnyFeedTypes
<1>5. /\ lossy' \in [Feeds -> BOOLEAN]
      /\ \A g \in Feeds : lossy[g] => lossy'[g]
  BY <1>3, Zenon DEF AnyFeedTypes
<1> QED
  BY <1>4, <1>5

\* A reader whose parser is new has been given nothing, so it has reported nothing.
LEMMA FreshIsFine == ASSUME AnyFeed!Fresh PROVE FeedInv
<1>1. AnyFeedTypes
  <2>1. <<>> \in Seq(Nat) /\ 0 \in Nat
    OBVIOUS
  <2> QED
    BY <2>1 DEF AnyFeed!Fresh, AnyFeedTypes
<1>2. \A f \in Feeds : got[f] = <<>>
  BY DEF AnyFeed!Fresh
<1>3. AnyFeed!OnceInOrder /\ AnyFeed!NonePassedOver
  BY <1>2 DEF AnyFeed!OnceInOrder, AnyFeed!NonePassedOver
<1> QED
  BY <1>1, <1>3 DEF FeedInv

\* What arrives on one feed, reported, lost or kept, breaks nothing said of any feed.
LEMMA DataKeeps ==
    ASSUME FeedInv, NEW f \in Feeds, AnyFeed!Data(f)
    PROVE  FeedInv'
<1> USE DEF FeedInv
<1>1. /\ sent' \in [Feeds -> Nat]
      /\ lossy' \in [Feeds -> BOOLEAN]
      /\ \A g \in Feeds : sent'[g] >= sent[g]
      /\ \A g \in Feeds : lossy[g] => lossy'[g]
  BY DataOnOne
<1>2. CASE UNCHANGED got
  <2>1. AnyFeedTypes'
    BY <1>1, <1>2 DEF AnyFeedTypes
  <2>2. AnyFeed!OnceInOrder'
    <3>1. ASSUME NEW g \in Feeds, NEW i \in 1..Len(got'[g])
          PROVE  /\ got'[g][i] \in 1..sent'[g]
                 /\ \A j \in 1..(i - 1) : got'[g][j] < got'[g][i]
      BY <1>1, <1>2, <3>1 DEF AnyFeed!OnceInOrder, AnyFeedTypes
    <3> QED
      BY <3>1 DEF AnyFeed!OnceInOrder
  <2>3. AnyFeed!NonePassedOver'
    BY <1>1, <1>2 DEF AnyFeed!NonePassedOver, AnyFeedTypes
  <2> QED
    BY <2>1, <2>2, <2>3
<1>3. CASE AnyFeed!Report(f)
  <2>1. PICK n \in 1..sent'[f] :
            /\ n > AnyFeed!Last(got[f])
            /\ n = AnyFeed!Last(got[f]) + 1 \/ lossy'[f]
            /\ got' = [got EXCEPT ![f] = Append(@, n)]
    BY <1>3 DEF AnyFeed!Report
  <2>2. n \in Nat /\ got[f] \in Seq(Nat) /\ Len(got[f]) \in Nat
    BY <1>1, <2>1 DEF AnyFeedTypes
  <2>3. /\ got'[f] = Append(got[f], n)
        /\ \A g \in Feeds \ {f} : got'[g] = got[g]
    BY <2>1 DEF AnyFeedTypes
  <2>4. AnyFeedTypes'
    <3>1. Append(got[f], n) \in Seq(Nat)
      BY <2>2
    <3> QED
      BY <1>1, <2>1, <3>1 DEF AnyFeedTypes
  <2>5. ASSUME NEW j \in 1..Len(got[f])
        PROVE  got[f][j] < n
    <3>1. /\ got[f] # <<>>
          /\ AnyFeed!Last(got[f]) = got[f][Len(got[f])]
      BY <2>2 DEF AnyFeed!Last
    <3>2. got[f][j] \in Nat /\ AnyFeed!Last(got[f]) \in Nat
      BY <2>2, <3>1
    <3>3. j < Len(got[f]) => got[f][j] < AnyFeed!Last(got[f])
      BY <2>2, <3>1 DEF AnyFeed!OnceInOrder
    <3> QED
      BY <2>1, <2>2, <3>1, <3>2, <3>3
  <2>6. /\ Len(got'[f]) = Len(got[f]) + 1
        /\ got'[f][Len(got[f]) + 1] = n
        /\ \A j \in 1..Len(got[f]) : got'[f][j] = got[f][j]
    BY <2>2, <2>3
  <2>7. AnyFeed!OnceInOrder'
    <3>1. ASSUME NEW g \in Feeds, g # f
          PROVE  \A i \in 1..Len(got'[g]) :
                    /\ got'[g][i] \in 1..sent'[g]
                    /\ \A j \in 1..(i - 1) : got'[g][j] < got'[g][i]
      <4>1. got'[g] = got[g]
        BY <2>3, <3>1
      <4>2. sent[g] \in Nat /\ sent'[g] \in Nat /\ sent'[g] >= sent[g]
        BY <1>1 DEF AnyFeedTypes
      <4>3. \A i \in 1..Len(got[g]) : got[g][i] \in 1..sent'[g]
        BY <4>2 DEF AnyFeed!OnceInOrder
      <4> QED
        BY <4>1, <4>3 DEF AnyFeed!OnceInOrder
    <3>2. ASSUME NEW i \in 1..Len(got'[f])
          PROVE  /\ got'[f][i] \in 1..sent'[f]
                 /\ \A j \in 1..(i - 1) : got'[f][j] < got'[f][i]
      <4>1. CASE i = Len(got[f]) + 1
        BY <2>1, <2>2, <2>5, <2>6, <4>1
      <4>2. CASE i \in 1..Len(got[f])
        <5>1. /\ got[f][i] \in 1..sent[f]
              /\ \A j \in 1..(i - 1) : got[f][j] < got[f][i]
          BY <4>2 DEF AnyFeed!OnceInOrder
        <5>2. sent[f] \in Nat /\ sent'[f] \in Nat /\ sent'[f] >= sent[f]
          BY <1>1 DEF AnyFeedTypes
        <5>3. got'[f][i] \in 1..sent'[f]
          BY <2>6, <4>2, <5>1, <5>2
        <5>4. ASSUME NEW j \in 1..(i - 1)
              PROVE  got'[f][j] < got'[f][i]
          <6>1. j \in 1..Len(got[f])
            BY <2>2, <4>2
          <6> QED
            BY <2>6, <4>2, <5>1, <6>1
        <5> QED
          BY <5>3, <5>4
      <4> QED
        BY <2>2, <2>6, <4>1, <4>2
    <3> QED
      BY <3>1, <3>2 DEF AnyFeed!OnceInOrder
  <2>8. AnyFeed!NonePassedOver'
    <3>1. ASSUME NEW g \in Feeds, g # f, ~lossy'[g]
          PROVE  \A i \in 1..Len(got'[g]) : got'[g][i] = i
      BY <1>1, <2>3, <3>1 DEF AnyFeed!NonePassedOver
    <3>2. ASSUME ~lossy'[f]
          PROVE  \A i \in 1..Len(got'[f]) : got'[f][i] = i
      <4>1. \A i \in 1..Len(got[f]) : got[f][i] = i
        BY <1>1, <3>2 DEF AnyFeed!NonePassedOver
      <4>2. AnyFeed!Last(got[f]) = Len(got[f])
        BY <2>2, <4>1 DEF AnyFeed!Last
      <4>3. n = Len(got[f]) + 1
        BY <2>1, <3>2, <4>2
      <4> QED
        BY <2>2, <2>6, <4>1, <4>3
    <3> QED
      BY <3>1, <3>2 DEF AnyFeed!NonePassedOver
  <2> QED
    BY <2>4, <2>7, <2>8
<1> QED
  BY <1>2, <1>3 DEF AnyFeed!Data

\* The thread's messages carry numbers of tokens that arrived, through every chunk
\* and every rebuild of the parser.
THEOREM FeedInvHolds == AnyFeed!Spec => []FeedInv
<1>1. AnyFeed!Init => FeedInv
  BY FreshIsFine DEF AnyFeed!Init
<1>2. FeedInv /\ [AnyFeed!Next]_AnyFeed!vars => FeedInv'
  <2> SUFFICES ASSUME FeedInv, [AnyFeed!Next]_AnyFeed!vars
               PROVE  FeedInv'
    OBVIOUS
  <2>1. CASE UNCHANGED AnyFeed!vars
    BY <2>1 DEF AnyFeed!vars, FeedInv, AnyFeedTypes, AnyFeed!OnceInOrder, AnyFeed!NonePassedOver
  <2>2. CASE AnyFeed!Reread
    BY <2>2, FreshIsFine, PTL DEF AnyFeed!Reread
  <2>3. ASSUME NEW f \in Feeds, AnyFeed!Data(f)
        PROVE  FeedInv'
    BY <2>3, DataKeeps
  <2> QED
    BY <2>1, <2>2, <2>3 DEF AnyFeed!Next
<1> QED
  BY <1>1, <1>2, PTL DEF AnyFeed!Spec

\* Reports are of tokens that arrived, each once, in the order they were sent.
THEOREM OnceInOrderHolds == AnyFeed!Spec => []AnyFeed!OnceInOrder
BY FeedInvHolds, PTL DEF FeedInv

\* A feed that gave nothing up has reported the first tokens, and no others.
THEOREM NonePassedOverHolds == AnyFeed!Spec => []AnyFeed!NonePassedOver
BY FeedInvHolds, PTL DEF FeedInv
==============================================================================
