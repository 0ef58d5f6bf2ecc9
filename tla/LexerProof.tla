----------------------------- MODULE LexerProof -----------------------------
(***************************************************************************)
(* For every source: the tokens of a source scanned without an error are   *)
(* its code, every scan advances, and only a comment that is never closed  *)
(* stops the lexer.                                                        *)
(***************************************************************************)
EXTENDS Lexer, NaturalFacts

(* Repeating a step that never goes back.                                   *)
ReachedBy(f, step) ==
    f = [i \in DOMAIN step |-> IF step[i] = i THEN i ELSE f[step[i]]]

Forward(step, N) == step \in [1 .. N -> 1 .. N] /\ \A i \in 1 .. N : step[i] >= i

SolvedFrom(f, step, N, m) ==
    /\ f = [i \in 1 .. N |-> f[i]]
    /\ \A i \in 1 .. N : i >= m => f[i] = IF step[i] = i THEN i ELSE f[step[i]]

LEMMA ReachedExists ==
    ASSUME NEW N \in Nat, NEW step, Forward(step, N)
    PROVE  \E f : ReachedBy(f, step)
  <1> DEFINE Solved == {n \in Nat : \E f : SolvedFrom(f, step, N, N + 1 - n)}
  <1>1. 0 \in Solved
    <2> DEFINE f == [i \in 1 .. N |-> i]
    <2>1. SolvedFrom(f, step, N, N + 1 - 0)
      BY DEF SolvedFrom
    <2> QED
      BY <2>1
  <1>2. ASSUME NEW n \in 0 .. N - 1, n \in Solved
        PROVE  n + 1 \in Solved
    <2>1. PICK f : SolvedFrom(f, step, N, N + 1 - n)
      BY <1>2
    <2> DEFINE m == N - n
               g == [i \in 1 .. N |-> IF i # m THEN f[i]
                                      ELSE IF step[m] = m THEN m ELSE f[step[m]]]
    <2>2. m \in 1 .. N /\ m = N + 1 - (n + 1)
      OBVIOUS
    <2>3. \A i \in 1 .. N : i >= m => g[i] = IF step[i] = i THEN i ELSE g[step[i]]
      <3> SUFFICES ASSUME NEW i \in 1 .. N, i >= m
                   PROVE  g[i] = IF step[i] = i THEN i ELSE g[step[i]]
        OBVIOUS
      <3>1. step[i] \in 1 .. N /\ step[i] >= i
        BY DEF Forward
      <3>2. CASE i = m
        BY <3>1, <3>2
      <3>3. CASE i > m
        <4>1. g[i] = f[i] /\ g[step[i]] = f[step[i]]
          BY <3>1, <3>3
        <4>2. i >= N + 1 - n
          BY <3>3
        <4> QED
          BY <4>1, <4>2, <2>1 DEF SolvedFrom
      <3> QED
        BY <3>2, <3>3
    <2>4. g = [i \in 1 .. N |-> g[i]]
      OBVIOUS
    <2> HIDE DEF g
    <2>5. SolvedFrom(g, step, N, N + 1 - (n + 1))
      BY <2>2, <2>3, <2>4 DEF SolvedFrom
    <2>6. n + 1 \in Nat
      OBVIOUS
    <2> QED
      BY <2>5, <2>6
  <1>3. 0 .. N \subseteq Solved
    <2> HIDE DEF Solved
    <2> QED
      BY <1>1, <1>2, Countup
  <1>4. PICK f : SolvedFrom(f, step, N, N + 1 - N)
    BY <1>3
  <1>5. DOMAIN step = 1 .. N
    BY DEF Forward
  <1>6. \A i \in 1 .. N : f[i] = IF step[i] = i THEN i ELSE f[step[i]]
    <2>1. \A i \in 1 .. N : i >= N + 1 - N
      OBVIOUS
    <2> QED
      BY <1>4, <2>1 DEF SolvedFrom
  <1>7. f = [i \in 1 .. N |-> IF step[i] = i THEN i ELSE f[step[i]]]
    BY <1>4, <1>6 DEF SolvedFrom
  <1> QED
    BY <1>5, <1>7 DEF ReachedBy

(* A step that stays in S leads to a place in S where it stays.             *)
LEMMA ReachedStays ==
    ASSUME NEW N \in Nat, NEW step, Forward(step, N), NEW S,
           \A j \in S : j \in 1 .. N => step[j] \in S,
           NEW i \in 1 .. N, i \in S
    PROVE  /\ Reached(step)[i] \in i .. N /\ Reached(step)[i] \in S
           /\ step[Reached(step)[i]] = Reached(step)[i]
  <1> DEFINE end == Reached(step)
  <1>1. ReachedBy(end, step)
    <2>1. end = CHOOSE f : ReachedBy(f, step)
      BY DEF Reached, ReachedBy
    <2> HIDE DEF end
    <2> QED
      BY <2>1, ReachedExists
  <1> HIDE DEF end
  <1>2. \A j \in 1 .. N : end[j] = IF step[j] = j THEN j ELSE end[step[j]]
    BY <1>1 DEF ReachedBy, Forward
  <1> DEFINE There(j) == end[j] \in j .. N /\ end[j] \in S /\ step[end[j]] = end[j]
             Good == {n \in Nat : \A j \in 1 .. N : j \in S /\ j >= N - n => There(j)}
  <1>3. 0 \in Good
    <2> SUFFICES ASSUME NEW j \in 1 .. N, j \in S, j >= N - 0 PROVE There(j)
      OBVIOUS
    <2>1. j = N /\ step[j] = j
      BY DEF Forward
    <2> QED
      BY <2>1, <1>2
  <1>4. ASSUME NEW n \in 0 .. N - 1, n \in Good
        PROVE  n + 1 \in Good
    <2> SUFFICES ASSUME NEW j \in 1 .. N, j \in S, j >= N - (n + 1) PROVE There(j)
      OBVIOUS
    <2>1. step[j] \in 1 .. N /\ step[j] >= j /\ step[j] \in S
      BY DEF Forward
    <2>2. CASE step[j] = j
      BY <2>2, <1>2
    <2>3. CASE step[j] # j
      <3>1. step[j] >= N - n /\ end[j] = end[step[j]]
        BY <2>1, <2>3, <1>2
      <3>2. There(step[j])
        BY <1>4, <2>1, <3>1
      <3> QED
        BY <2>1, <3>1, <3>2
    <2> QED
      BY <2>2, <2>3
  <1>5. 0 .. N \subseteq Good
    <2> HIDE DEF Good
    <2> QED
      BY <1>3, <1>4, Countup
  <1>6. There(i)
    BY <1>5
  <1> QED
    BY <1>6 DEF end

(* What a character is part of follows from the one before.                 *)
KindsTo(f, n) == f = [i \in 0 .. n |-> IF i = 0 THEN "blank" ELSE KindAfter(f[i - 1], i)]

KindSteps ==
    Len(source) \in Nat =>
        /\ Kind[0] = "blank"
        /\ \A i \in 1 .. Len(source) : Kind[i] = KindAfter(Kind[i - 1], i)

LEMMA KindFollows == KindSteps
  <1> SUFFICES ASSUME Len(source) \in Nat
               PROVE  /\ Kind[0] = "blank"
                      /\ \A i \in 1 .. Len(source) : Kind[i] = KindAfter(Kind[i - 1], i)
    BY DEF KindSteps
  <1> DEFINE Solved == {n \in Nat : \E f : KindsTo(f, n)}
  <1>1. 0 \in Solved
    <2> DEFINE f == [i \in 0 .. 0 |-> "blank"]
    <2>1. KindsTo(f, 0)
      BY DEF KindsTo
    <2> QED
      BY <2>1
  <1>2. ASSUME NEW n \in 0 .. Len(source) - 1, n \in Solved
        PROVE  n + 1 \in Solved
    <2>1. PICK f : KindsTo(f, n)
      BY <1>2
    <2> DEFINE g == [i \in 0 .. n + 1 |-> IF i = n + 1 THEN KindAfter(f[n], n + 1) ELSE f[i]]
    <2>2. \A i \in 0 .. n + 1 : g[i] = IF i = 0 THEN "blank" ELSE KindAfter(g[i - 1], i)
      <3> SUFFICES ASSUME NEW i \in 0 .. n + 1
                   PROVE  g[i] = IF i = 0 THEN "blank" ELSE KindAfter(g[i - 1], i)
        OBVIOUS
      <3>1. CASE i = n + 1
        <4>1. g[i] = KindAfter(f[n], n + 1) /\ i # 0 /\ i - 1 = n /\ g[n] = f[n]
          BY <3>1
        <4> QED
          BY <4>1, <3>1
      <3>2. CASE i \in 0 .. n
        <4>1. g[i] = f[i] /\ (i # 0 => g[i - 1] = f[i - 1])
          BY <3>2
        <4> QED
          BY <4>1, <3>2, <2>1 DEF KindsTo
      <3> QED
        BY <3>1, <3>2
    <2>3. g = [i \in 0 .. n + 1 |-> g[i]]
      OBVIOUS
    <2> HIDE DEF g
    <2>4. KindsTo(g, n + 1)
      BY <2>2, <2>3 DEF KindsTo
    <2> QED
      BY <2>4
  <1>3. \E f : KindsTo(f, Len(source))
    <2>1. 0 .. Len(source) \subseteq Solved
      <3> HIDE DEF Solved
      <3> QED
        BY <1>1, <1>2, Countup
    <2> QED
      BY <2>1
  <1>4. KindsTo(Kind, Len(source))
    <2>1. Kind = CHOOSE f : KindsTo(f, Len(source))
      BY DEF Kind, KindsTo
    <2> QED
      BY <2>1, <1>3
  <1>5. \A i \in 0 .. Len(source) :
           Kind[i] = IF i = 0 THEN "blank" ELSE KindAfter(Kind[i - 1], i)
    BY <1>4 DEF KindsTo
  <1> QED
    BY <1>5

-----------------------------------------------------------------------------
(* Positions in a source.                                                   *)
SourceTyped == source \in Seq(STRING)

(* No construct of several characters is open before position i.            *)
Clean(i) == i <= Len(source) => Kind[i] = Fresh(i)

LEMMA QuoteIsOther ==
    Quote \notin {"\\0", "/", "*", "#", "!", "\\", "\n", ".", "&", "=", "+", "-", "|", ":"} \union Blank \union Digit \union Alpha
  BY Zenon DEF Quote, Blank, Digit, Alpha

LEMMA SinglesAreNoQuotes == Quote \notin Singles
  BY Zenon DEF Quote, Singles

LEMMA SourceLength ==
    ASSUME SourceTyped
    PROVE  /\ Len(source) \in Nat /\ DOMAIN source = 1 .. Len(source)
           /\ \A i : Ch(i) = IF i \in 1 .. Len(source) THEN source[i] ELSE "\\0"
  BY DEF SourceTyped, Ch

LEMMA MinIsLeast ==
    ASSUME NEW S \in SUBSET Nat, S # {}
    PROVE  Min(S) \in S /\ \A n \in S : Min(S) <= n
  BY LeastNatural DEF Min

LEMMA PastRuns ==
    ASSUME SourceTyped, NEW i \in 1 .. Len(source) + 1, NEW S, "\\0" \notin S
    PROVE  /\ Past(i, S) \in i .. Len(source) + 1
           /\ \A k \in i .. Past(i, S) - 1 : Ch(k) \in S
           /\ Ch(Past(i, S)) \notin S
  <1> DEFINE ends == {j \in i .. Len(source) + 1 : Ch(j) \notin S}
  <1>1. Len(source) \in Nat /\ Ch(Len(source) + 1) = "\\0"
    BY SourceLength
  <1>2. ends \in SUBSET Nat /\ ends # {}
    BY <1>1
  <1>3. Past(i, S) = Min(ends)
    BY DEF Past
  <1>4. Min(ends) \in ends /\ \A n \in ends : Min(ends) <= n
    <2> HIDE DEF ends
    <2> QED
      BY <1>2, MinIsLeast
  <1> DEFINE m == Past(i, S)
  <1>5. m \in i .. Len(source) + 1 /\ Ch(m) \notin S /\ \A n \in ends : m <= n
    BY <1>3, <1>4
  <1> HIDE DEF m
  <1>6. ASSUME NEW k \in i .. m - 1 PROVE Ch(k) \in S
    <2>1. k \in i .. Len(source) + 1 /\ ~(m <= k)
      BY <1>1, <1>5
    <2> QED
      BY <2>1, <1>5
  <1> QED
    BY <1>5, <1>6 DEF m

LEMMA AfterLineEnds ==
    ASSUME SourceTyped, NEW i \in 1 .. Len(source)
    PROVE  /\ AfterLine(i) \in i + 1 .. Len(source) + 1
           /\ \A k \in i .. AfterLine(i) - 2 : Ch(k) # "\n"
           /\ AfterLine(i) <= Len(source) => Ch(AfterLine(i) - 1) = "\n"
  <1> DEFINE lines == {k \in i .. Len(source) : source[k] = "\n"}
             ends == {j + 1 : j \in lines} \union {Len(source) + 1}
  <1>1. Len(source) \in Nat /\ \A k \in 1 .. Len(source) : Ch(k) = source[k]
    BY SourceLength
  <1>2. ends \in SUBSET Nat /\ ends # {}
    BY <1>1
  <1>3. AfterLine(i) = Min(ends)
    BY DEF AfterLine
  <1>4. Min(ends) \in ends /\ \A n \in ends : Min(ends) <= n
    <2> HIDE DEF ends
    <2> QED
      BY <1>2, MinIsLeast
  <1> DEFINE m == AfterLine(i)
  <1>5. m \in ends /\ \A n \in ends : m <= n
    BY <1>3, <1>4
  <1> HIDE DEF m
  <1>6. m \in i + 1 .. Len(source) + 1
    BY <1>1, <1>5
  <1>7. ASSUME NEW k \in i .. m - 2 PROVE Ch(k) # "\n"
    <2>1. k \in i .. Len(source) /\ ~(m <= k + 1)
      BY <1>1, <1>6
    <2>2. k \notin lines
      BY <2>1, <1>5
    <2> QED
      BY <2>1, <2>2, <1>1
  <1>8. m <= Len(source) => Ch(m - 1) = "\n"
    <2> HAVE m <= Len(source)
    <2>1. PICK j \in lines : m = j + 1
      BY <1>1, <1>5, <1>6
    <2>2. m - 1 = j
      BY <2>1, <1>1
    <2> QED
      BY <2>1, <2>2, <1>1
  <1> QED
    BY <1>6, <1>7, <1>8 DEF m

LEMMA AfterBlockEnds ==
    ASSUME SourceTyped, NEW i \in 1 .. Len(source), AfterBlock(i) # Never
    PROVE  /\ AfterBlock(i) \in i + 4 .. Len(source) + 1
           /\ Ch(AfterBlock(i) - 2) = "*" /\ Ch(AfterBlock(i) - 1) = "/"
           /\ \A k \in i + 2 .. AfterBlock(i) - 3 : ~(Ch(k) = "*" /\ Ch(k + 1) = "/")
  <1> DEFINE closes == {j \in i + 2 .. Len(source) : Ch(j) = "*" /\ Ch(j + 1) = "/"}
             m == Min(closes)
  <1>1. Len(source) \in Nat /\ \A k : k \notin 1 .. Len(source) => Ch(k) = "\\0"
    BY SourceLength
  <1>2. closes # {} /\ AfterBlock(i) = m + 2
    BY DEF AfterBlock
  <1>3. closes \in SUBSET Nat
    BY <1>1
  <1>4. m \in closes /\ \A n \in closes : m <= n
    <2> HIDE DEF closes
    <2> QED
      BY <1>2, <1>3, MinIsLeast
  <1> HIDE DEF m
  <1>5. m \in i + 2 .. Len(source) /\ Ch(m) = "*" /\ Ch(m + 1) = "/"
    BY <1>4
  <1>6. m + 1 \in 1 .. Len(source)
    BY <1>5, <1>1
  <1>7. \A k \in i + 2 .. m - 1 : ~(Ch(k) = "*" /\ Ch(k + 1) = "/")
    <2> SUFFICES ASSUME NEW k \in i + 2 .. m - 1, k \in closes PROVE FALSE
      BY <1>1, <1>5
    <2> QED
      BY <1>1, <1>4, <1>5
  <1>8. (m + 2) - 2 = m /\ (m + 2) - 1 = m + 1 /\ (m + 2) - 3 = m - 1
        /\ m + 2 \in i + 4 .. Len(source) + 1
    BY <1>1, <1>5, <1>6
  <1> QED
    BY <1>2, <1>5, <1>7, <1>8

-----------------------------------------------------------------------------
(* The kinds of the characters that a construct consists of.                *)
LEMMA NextKind ==
    ASSUME SourceTyped, NEW i \in 1 .. Len(source) - 1
    PROVE  Kind[i + 1] = KindAfter(Kind[i], i + 1)
  <1>1. Len(source) \in Nat /\ i + 1 \in 1 .. Len(source) /\ (i + 1) - 1 = i
    BY SourceLength
  <1> QED
    BY <1>1, KindFollows DEF KindSteps

LEMMA CleanAfter ==
    ASSUME SourceTyped, NEW i \in 1 .. Len(source), Kind[i] \in {"blank", "code", "closed", "endquote"}
    PROVE  Clean(i + 1)
  <1> SUFFICES ASSUME i + 1 <= Len(source) PROVE Kind[i + 1] = Fresh(i + 1)
    BY DEF Clean
  <1>1. i \in 1 .. Len(source) - 1
    BY SourceLength
  <1>2. Kind[i + 1] = KindAfter(Kind[i], i + 1)
    BY <1>1, NextKind
  <1> QED
    BY <1>2 DEF KindAfter

LEMMA LineKinds ==
    ASSUME SourceTyped, NEW i \in 1 .. Len(source), Kind[i] = "line"
    PROVE  /\ \A k \in i .. AfterLine(i) - 1 : Kind[k] = "line"
           /\ Clean(AfterLine(i))
  <1> DEFINE m == AfterLine(i)
             Good == {n \in Nat : i + n <= m - 1 => Kind[i + n] = "line"}
  <1>1. /\ Len(source) \in Nat /\ m \in i + 1 .. Len(source) + 1
        /\ \A k \in i .. m - 2 : Ch(k) # "\n"
        /\ m <= Len(source) => Ch(m - 1) = "\n"
    BY SourceLength, AfterLineEnds
  <1> HIDE DEF m
  <1>2. 0 \in Good
    OBVIOUS
  <1>3. ASSUME NEW n \in 0 .. Len(source) - 1, n \in Good PROVE n + 1 \in Good
    <2> SUFFICES ASSUME i + (n + 1) <= m - 1 PROVE Kind[i + (n + 1)] = "line"
      OBVIOUS
    <2>1. /\ i + n \in i .. m - 2 /\ i + n \in 1 .. Len(source) - 1
          /\ i + (n + 1) = (i + n) + 1 /\ i + n <= m - 1 /\ (i + n) + 1 - 1 = i + n
      BY <1>1
    <2>2. Kind[i + n] = "line" /\ Ch(i + n) # "\n"
      BY <2>1, <1>1, <1>3
    <2>3. Kind[(i + n) + 1] = KindAfter("line", (i + n) + 1)
      BY <2>1, <2>2, NextKind
    <2> QED
      BY <2>1, <2>2, <2>3 DEF KindAfter
  <1>4. 0 .. Len(source) \subseteq Good
    <2> HIDE DEF Good
    <2> QED
      BY <1>1, <1>2, <1>3, Countup
  <1>5. ASSUME NEW k \in i .. m - 1 PROVE Kind[k] = "line"
    <2>1. k - i \in 0 .. Len(source) /\ i + (k - i) = k
      BY <1>1
    <2>2. k - i \in Good
      BY <2>1, <1>4
    <2> QED
      BY <2>1, <2>2
  <1>6. Clean(m)
    <2> SUFFICES ASSUME m <= Len(source) PROVE Kind[m] = Fresh(m)
      BY DEF Clean
    <2>1. m - 1 \in i .. m - 1 /\ m - 1 \in 1 .. Len(source) - 1 /\ (m - 1) + 1 = m
      BY <1>1
    <2>2. Kind[m] = KindAfter("line", m)
      BY <2>1, <1>5, NextKind
    <2> QED
      BY <2>2, <1>1 DEF KindAfter
  <1> QED
    BY <1>5, <1>6 DEF m

BlockKinds == {"open", "opened", "block", "close", "closed"}

LEMMA CommentKinds ==
    ASSUME SourceTyped, NEW i \in 1 .. Len(source), Kind[i] = "open", AfterBlock(i) # Never
    PROVE  /\ \A k \in i .. AfterBlock(i) - 1 : Kind[k] \in BlockKinds
           /\ Clean(AfterBlock(i))
  <1> DEFINE m == AfterBlock(i)
             Good == {n \in Nat : i + 1 + n <= m - 3 => Kind[i + 1 + n] \in {"opened", "block"}}
  <1>1. /\ Len(source) \in Nat /\ m \in i + 4 .. Len(source) + 1
        /\ Ch(m - 2) = "*" /\ Ch(m - 1) = "/"
        /\ \A k \in i + 2 .. m - 3 : ~(Ch(k) = "*" /\ Ch(k + 1) = "/")
    BY SourceLength, AfterBlockEnds
  <1> HIDE DEF m
  <1>2. Kind[i + 1] = "opened"
    <2>1. i \in 1 .. Len(source) - 1
      BY <1>1
    <2> QED
      BY <2>1, NextKind DEF KindAfter
  <1>3. 0 \in Good
    BY <1>2
  <1>4. ASSUME NEW n \in 0 .. Len(source) - 1, n \in Good PROVE n + 1 \in Good
    <2> SUFFICES ASSUME i + 1 + (n + 1) <= m - 3
                 PROVE  Kind[i + 1 + (n + 1)] \in {"opened", "block"}
      OBVIOUS
    <2> DEFINE k == i + 1 + n
    <2>1. /\ k \in 1 .. Len(source) - 1 /\ k + 1 \in i + 2 .. m - 3
          /\ i + 1 + (n + 1) = k + 1 /\ k <= m - 3
      BY <1>1
    <2>2. Kind[k] \in {"opened", "block"}
      BY <2>1, <1>4
    <2> HIDE DEF k
    <2>3. Kind[k + 1] = KindAfter(Kind[k], k + 1)
      BY <2>1, NextKind
    <2>4. ~(Ch(k + 1) = "*" /\ Ch((k + 1) + 1) = "/")
      BY <2>1, <1>1
    <2>5. Kind[k + 1] = "block"
      BY <2>2, <2>3, <2>4 DEF KindAfter
    <2> QED
      BY <2>1, <2>5
  <1>5. 0 .. Len(source) \subseteq Good
    <2> HIDE DEF Good
    <2> QED
      BY <1>1, <1>3, <1>4, Countup
  <1>6. ASSUME NEW k \in i + 1 .. m - 3 PROVE Kind[k] \in {"opened", "block"}
    <2>1. k - i - 1 \in 0 .. Len(source) /\ i + 1 + (k - i - 1) = k
      BY <1>1
    <2>2. k - i - 1 \in Good
      BY <2>1, <1>5
    <2> QED
      BY <2>1, <2>2
  <1>7. Kind[m - 2] = "close"
    <2>1. /\ m - 3 \in i + 1 .. m - 3 /\ m - 3 \in 1 .. Len(source) - 1
          /\ (m - 3) + 1 = m - 2 /\ (m - 2) + 1 = m - 1
      BY <1>1
    <2>2. Kind[m - 2] = KindAfter(Kind[m - 3], m - 2)
      BY <2>1, NextKind
    <2> QED
      BY <2>1, <2>2, <1>1, <1>6 DEF KindAfter
  <1>8. Kind[m - 1] = "closed"
    <2>1. m - 2 \in 1 .. Len(source) - 1 /\ (m - 2) + 1 = m - 1
      BY <1>1
    <2> QED
      BY <2>1, <1>7, NextKind DEF KindAfter
  <1>9. Clean(m)
    <2>1. m - 1 \in 1 .. Len(source) /\ (m - 1) + 1 = m
      BY <1>1
    <2> QED
      BY <2>1, <1>8, CleanAfter
  <1>10. \A k \in i .. m - 1 : k = i \/ k \in i + 1 .. m - 3 \/ k = m - 2 \/ k = m - 1
    BY <1>1
  <1> QED
    BY <1>6, <1>7, <1>8, <1>9, <1>10 DEF m, BlockKinds

LEMMA CodeRun ==
    ASSUME SourceTyped, NEW i \in 1 .. Len(source) + 1, NEW m \in i .. Len(source) + 1,
           Clean(i), \A k \in i .. m - 1 : Fresh(k) = "code"
    PROVE  Clean(m) /\ \A k \in i .. m - 1 : Kind[k] = "code"
  <1> DEFINE Good == {n \in Nat : i + n <= m => /\ Clean(i + n)
                                                /\ n > 0 => Kind[i + n - 1] = "code"}
  <1>1. Len(source) \in Nat
    BY SourceLength
  <1>2. 0 \in Good
    OBVIOUS
  <1>3. ASSUME NEW n \in 0 .. Len(source) - 1, n \in Good PROVE n + 1 \in Good
    <2> SUFFICES ASSUME i + (n + 1) <= m
                 PROVE  Clean(i + (n + 1)) /\ Kind[i + (n + 1) - 1] = "code"
      OBVIOUS
    <2> DEFINE k == i + n
    <2>1. /\ k \in i .. m - 1 /\ k \in 1 .. Len(source) /\ k <= m /\ k <= Len(source)
          /\ i + (n + 1) = k + 1 /\ i + (n + 1) - 1 = k
      BY <1>1
    <2>2. Clean(k)
      BY <2>1, <1>3
    <2> HIDE DEF k
    <2>3. Kind[k] = "code"
      BY <2>1, <2>2 DEF Clean
    <2>4. Clean(k + 1)
      BY <2>1, <2>3, CleanAfter
    <2> QED
      BY <2>1, <2>3, <2>4
  <1>4. 0 .. Len(source) \subseteq Good
    <2> HIDE DEF Good
    <2> QED
      BY <1>1, <1>2, <1>3, Countup
  <1>5. Clean(m)
    <2>1. m - i \in 0 .. Len(source) /\ i + (m - i) = m
      BY <1>1
    <2>2. m - i \in Good
      BY <2>1, <1>4
    <2> QED
      BY <2>1, <2>2
  <1>6. ASSUME NEW k \in i .. m - 1 PROVE Kind[k] = "code"
    <2>1. /\ k - i + 1 \in 0 .. Len(source) /\ k - i + 1 > 0
          /\ i + (k - i + 1) <= m /\ i + (k - i + 1) - 1 = k
      BY <1>1
    <2>2. k - i + 1 \in Good
      BY <2>1, <1>4
    <2> QED
      BY <2>1, <2>2
  <1> QED
    BY <1>5, <1>6

LEMMA InStringMoves ==
    ASSUME SourceTyped, NEW j \in 1 .. Len(source) + 1
    PROVE  /\ InString(j) \in j .. Len(source) + 1
           /\ InString(j) = j <=> AtEnd(j) \/ Ch(j) = Quote
           /\ ~AtEnd(j) /\ Ch(j) # Quote =>
                 /\ IsEscape(j) => InString(j) = j + 2 /\ j + 1 \in 1 .. Len(source)
                 /\ ~IsEscape(j) => InString(j) = j + 1
  <1>1. /\ Len(source) \in Nat
        /\ \A i : i \notin 1 .. Len(source) => Ch(i) = "\\0"
    BY SourceLength
  <1>2. CASE AtEnd(j) \/ Ch(j) = Quote
    <2>0. ~IsEscape(j)
      BY <1>1, <1>2, QuoteIsOther DEF IsEscape, AtEnd
    <2>1. InString(j) = j
      BY <1>2, <2>0 DEF InString
    <2> QED
      BY <2>1, <1>1, <1>2
  <1>3. CASE ~AtEnd(j) /\ Ch(j) # Quote /\ IsEscape(j)
    <2>1. InString(j) = j + 2
      BY <1>3 DEF InString
    <2>2. Ch(j + 1) # "\\0"
      BY <1>3, QuoteIsOther DEF IsEscape
    <2>3. j + 1 \in 1 .. Len(source)
      BY <2>2, <1>1
    <2> QED
      BY <2>1, <2>3, <1>1, <1>3
  <1>4. CASE ~AtEnd(j) /\ Ch(j) # Quote /\ ~IsEscape(j)
    <2>1. InString(j) = j + 1
      BY <1>4 DEF InString
    <2> QED
      BY <2>1, <1>1, <1>4 DEF AtEnd
  <1> QED
    BY <1>2, <1>3, <1>4

LEMMA StringEndMoves ==
    ASSUME SourceTyped, NEW i \in 1 .. Len(source) + 1
    PROVE  StringEnd(i) \in i .. Len(source) + 1
  <1> DEFINE N == Len(source) + 1
             step == [j \in 1 .. Len(source) + 1 |-> InString(j)]
             stop == Reached(step)[i]
  <1>1. Len(source) \in Nat /\ N \in Nat /\ i \in 1 .. N
    BY SourceLength
  <1>2. Forward(step, N)
    <2>1. \A j \in 1 .. N : step[j] \in j .. N
      BY InStringMoves
    <2>2. \A j \in 1 .. N : step[j] \in 1 .. N /\ step[j] >= j
      BY <1>1, <2>1
    <2>3. step = [j \in 1 .. N |-> step[j]]
      OBVIOUS
    <2> HIDE DEF step, N
    <2> QED
      BY <2>2, <2>3 DEF Forward
  <1>3. \A j \in 1 .. N : step[j] \in 1 .. N
    BY <1>2 DEF Forward
  <1>4. stop \in i .. N
    <2> HIDE DEF N, step
    <2> QED
      BY <1>1, <1>2, <1>3, ReachedStays
  <1>5. StringEnd(i) = Next1(stop)
    BY DEF StringEnd
  <1> HIDE DEF stop
  <1> QED
    BY <1>1, <1>4, <1>5 DEF Next1, AtEnd

LEMMA StringKinds ==
    ASSUME SourceTyped, NEW at \in 1 .. Len(source), Kind[at] = "quote",
           ~AtEnd(StringEnd(at + 1))
    PROVE  /\ StringEnd(at + 1) \in at + 1 .. Len(source)
           /\ \A k \in at .. StringEnd(at + 1) - 1 : Kind[k] \in CodeKinds
           /\ Clean(StringEnd(at + 1))
  <1> DEFINE N == Len(source) + 1
             step == [j \in 1 .. Len(source) + 1 |-> InString(j)]
             S == {j \in at + 1 .. N : /\ Kind[j - 1] \in {"quote", "string", "escaped"}
                                       /\ \A k \in at .. j - 1 : Kind[k] \in CodeKinds}
             stop == Reached(step)[at + 1]
  <1>1. /\ Len(source) \in Nat /\ N \in Nat /\ at + 1 \in 1 .. N
        /\ \A i : i \notin 1 .. Len(source) => Ch(i) = "\\0"
    BY SourceLength
  <1>2. \A j \in 1 .. N : InString(j) \in j .. N
    BY InStringMoves
  <1>3. Forward(step, N)
    <2>1. \A j \in 1 .. N : step[j] \in j .. N
      BY <1>2
    <2>2. \A j \in 1 .. N : step[j] \in 1 .. N /\ step[j] >= j
      BY <1>1, <2>1
    <2>3. step = [j \in 1 .. N |-> step[j]]
      OBVIOUS
    <2> HIDE DEF step, N
    <2> QED
      BY <2>2, <2>3 DEF Forward
  <1>4. at + 1 \in S
    <2>1. (at + 1) - 1 = at /\ \A k \in at .. at : k = at
      BY <1>1
    <2> QED
      BY <1>1, <2>1 DEF CodeKinds
  <1>5. ASSUME NEW j \in S, j \in 1 .. N PROVE step[j] \in S
    <2>1. /\ j \in at + 1 .. N /\ Kind[j - 1] \in {"quote", "string", "escaped"}
          /\ \A k \in at .. j - 1 : Kind[k] \in CodeKinds
      OBVIOUS
    <2>2. step[j] = InString(j)
      BY <1>5
    <2> HIDE DEF step
    <2>3. CASE AtEnd(j) \/ Ch(j) = Quote
      BY <2>2, <2>3, <1>5, InStringMoves
    <2>4. CASE ~AtEnd(j) /\ Ch(j) # Quote
      <3>1. j \in 1 .. Len(source) /\ j - 1 \in 1 .. Len(source) - 1 /\ (j - 1) + 1 = j
        BY <2>1, <2>4, <1>1 DEF AtEnd
      <3>2. Kind[j] = KindAfter(Kind[j - 1], j)
        BY <3>1, NextKind
      <3>3. CASE IsEscape(j)
        <4>1. Kind[j] = "escape"
          BY <3>2, <3>3, <2>1, <2>4 DEF KindAfter
        <4>2. InString(j) = j + 2 /\ j + 1 \in 1 .. Len(source)
          BY <1>5, <2>4, <3>3, InStringMoves
        <4>3. Kind[j + 1] = "escaped"
          <5>1. j \in 1 .. Len(source) - 1
            BY <1>1, <3>1, <4>2
          <5>2. Kind[j + 1] = KindAfter("escape", j + 1)
            BY <4>1, <5>1, NextKind
          <5> QED
            BY <5>2 DEF KindAfter
        <4>4. \A k \in at .. (j + 2) - 1 : k \in at .. j - 1 \/ k = j \/ k = j + 1
          BY <2>1, <1>1
        <4>5. j + 2 \in at + 1 .. N /\ (j + 2) - 1 = j + 1
          BY <2>1, <4>2, <1>1
        <4>6. \A k \in at .. (j + 2) - 1 : Kind[k] \in CodeKinds
          BY <2>1, <4>1, <4>3, <4>4 DEF CodeKinds
        <4>7. j + 2 \in S
          BY <4>3, <4>5, <4>6
        <4> QED
          BY <2>2, <4>2, <4>7
      <3>4. CASE ~IsEscape(j)
        <4>1. Kind[j] = "string"
          BY <3>2, <3>4, <2>1, <2>4 DEF KindAfter
        <4>2. InString(j) = j + 1
          BY <1>5, <2>4, <3>4, InStringMoves
        <4>4. \A k \in at .. (j + 1) - 1 : k \in at .. j - 1 \/ k = j
          BY <2>1, <1>1
        <4>5. j + 1 \in at + 1 .. N /\ (j + 1) - 1 = j
          BY <2>1, <3>1, <1>1
        <4>6. \A k \in at .. (j + 1) - 1 : Kind[k] \in CodeKinds
          BY <2>1, <4>1, <4>4 DEF CodeKinds
        <4>7. j + 1 \in S
          BY <4>1, <4>5, <4>6
        <4> QED
          BY <2>2, <4>2, <4>7
      <3> QED
        BY <3>3, <3>4
    <2> QED
      BY <2>3, <2>4
  <1>6. stop \in at + 1 .. N /\ stop \in S /\ step[stop] = stop
    <2> HIDE DEF N, step, S
    <2> QED
      BY <1>1, <1>3, <1>4, <1>5, ReachedStays
  <1>7. StringEnd(at + 1) = Next1(stop)
    BY DEF StringEnd
  <1> HIDE DEF stop
  <1>8. /\ stop \in at + 1 .. N /\ Kind[stop - 1] \in {"quote", "string", "escaped"}
        /\ \A k \in at .. stop - 1 : Kind[k] \in CodeKinds
        /\ InString(stop) = stop
    BY <1>1, <1>6
  <1>9. ~AtEnd(stop) /\ StringEnd(at + 1) = stop + 1 /\ stop + 1 <= Len(source)
    BY <1>1, <1>7, <1>8 DEF Next1, AtEnd
  <1>10. stop \in 1 .. Len(source) /\ stop - 1 \in 1 .. Len(source) - 1 /\ (stop - 1) + 1 = stop
    BY <1>1, <1>8, <1>9
  <1>11. Ch(stop) = Quote
    <2>1. stop \in 1 .. Len(source) + 1
      BY <1>10
    <2> QED
      BY <2>1, <1>8, <1>9, InStringMoves
  <1>12. Kind[stop] = "endquote"
    <2>1. Kind[stop] = KindAfter(Kind[stop - 1], stop)
      BY <1>10, NextKind
    <2> QED
      BY <2>1, <1>8, <1>11, QuoteIsOther DEF KindAfter, IsEscape
  <1>13. Clean(stop + 1)
    BY <1>10, <1>12, CleanAfter
  <1>14. \A k \in at .. (stop + 1) - 1 : k \in at .. stop - 1 \/ k = stop
    BY <1>1, <1>8
  <1>15. \A k \in at .. (stop + 1) - 1 : Kind[k] \in CodeKinds
    BY <1>8, <1>12, <1>14 DEF CodeKinds
  <1>16. stop + 1 \in at + 1 .. Len(source)
    BY <1>1, <1>8, <1>9
  <1> QED
    BY <1>9, <1>13, <1>15, <1>16

-----------------------------------------------------------------------------
(* Blanks and comments.                                                     *)
LEMMA SkipOneMoves ==
    ASSUME SourceTyped, NEW i \in 1 .. Never
    PROVE  /\ SkipOne(i) \in i .. Never
           /\ i <= Len(source) + 1 /\ SkipOne(i) = Never => UnclosedComment
           /\ i <= Len(source) + 1 /\ SkipOne(i) # Never => SkipOne(i) <= Len(source) + 1
  <1>1. /\ Len(source) \in Nat /\ Never = Len(source) + 2
        /\ \A k : k \notin 1 .. Len(source) => Ch(k) = "\\0"
        /\ DOMAIN source = 1 .. Len(source)
    BY SourceLength DEF Never
  <1>2. CASE i \notin 1 .. Len(source)
    <2>1. Ch(i) = "\\0"
      BY <1>1, <1>2
    <2>2. SkipOne(i) = i
      BY <2>1 DEF SkipOne, Blank
    <2> QED
      BY <2>2, <1>1
  <1>3. CASE i \in 1 .. Len(source)
    <2>1. AfterLine(i) \in i + 1 .. Len(source) + 1
      BY <1>3, AfterLineEnds
    <2>2. AfterBlock(i) # Never => AfterBlock(i) \in i + 4 .. Len(source) + 1
      BY <1>3, AfterBlockEnds
    <2>3. CASE SkipOne(i) \in {i, i + 1, AfterLine(i)}
      BY <2>1, <2>3, <1>1, <1>3
    <2>4. CASE ~(SkipOne(i) \in {i, i + 1, AfterLine(i)})
      <3>1. SkipOne(i) = AfterBlock(i) /\ Ch(i) = "/" /\ Ch(i + 1) = "*"
        BY <2>4 DEF SkipOne
      <3>2. AfterBlock(i) = Never => UnclosedComment
        <4> HAVE AfterBlock(i) = Never
        <4> DEFINE closes == {j \in i + 2 .. Len(source) : Ch(j) = "*" /\ Ch(j + 1) = "/"}
        <4>1. ASSUME closes # {} PROVE FALSE
          <5>1. closes \in SUBSET Nat /\ \A j \in closes : j <= Len(source) /\ Ch(j + 1) = "/"
            BY <1>1, <1>3
          <5>2. Min(closes) \in closes
            <6> HIDE DEF closes
            <6> QED
              BY <4>1, <5>1, MinIsLeast
          <5>3. AfterBlock(i) = Min(closes) + 2
            BY <4>1 DEF AfterBlock
          <5> DEFINE m == Min(closes)
          <5>4. m \in Nat /\ Ch(m + 1) = "/" /\ m + 2 = Len(source) + 2
            BY <5>1, <5>2, <5>3, <1>1
          <5> HIDE DEF m
          <5>5. m + 1 \in 1 .. Len(source)
            BY <5>4, <1>1
          <5> QED
            BY <5>4, <5>5, <1>1
        <4>2. \A j \in i + 2 .. Len(source) : ~(Ch(j) = "*" /\ Ch(j + 1) = "/")
          BY <4>1
        <4> QED
          BY <3>1, <4>2, <1>1, <1>3 DEF UnclosedComment
      <3> QED
        BY <3>1, <3>2, <2>2, <1>1, <1>3
    <2> QED
      BY <2>3, <2>4
  <1> QED
    BY <1>2, <1>3

(* What is skipped is no code.                                              *)
LEMMA SkipOneKinds ==
    ASSUME SourceTyped, ~LateShebang, NEW i \in 1 .. Len(source) + 1, Clean(i),
           start = 1 \/ i # 1, SkipOne(i) # Never
    PROVE  /\ Clean(SkipOne(i))
           /\ \A k \in i .. SkipOne(i) - 1 : Kind[k] \notin CodeKinds
  <1>1. /\ Len(source) \in Nat
        /\ \A k : k \notin 1 .. Len(source) => Ch(k) = "\\0"
    BY SourceLength
  <1>2. CASE SkipOne(i) = i
    <2>1. i .. i - 1 = {}
      BY <1>1
    <2> QED
      BY <1>2, <2>1
  <1>3. CASE SkipOne(i) # i
    <2>1. Ch(i) # "\\0"
      BY <1>3 DEF SkipOne, Blank
    <2>2. i \in 1 .. Len(source)
      BY <2>1, <1>1
    <2>3. Kind[i] = Fresh(i)
      BY <2>2 DEF Clean
    <2>4. CASE Ch(i) \in Blank
      <3>1. Kind[i] = "blank"
        BY <2>3, <2>4, QuoteIsOther DEF Fresh, Blank
      <3>2. SkipOne(i) = i + 1
        BY <2>4 DEF SkipOne, Blank
      <3>3. Clean(i + 1)
        BY <3>1, <2>2, CleanAfter
      <3>4. \A k \in i .. (i + 1) - 1 : k = i
        BY <1>1
      <3> QED
        BY <3>1, <3>2, <3>3, <3>4 DEF CodeKinds
    <2>5. CASE Ch(i) = "#" /\ start = 1 /\ Ch(i + 1) = "!"
      <3>1. i + 1 \in 1 .. Len(source)
        BY <2>5, <1>1
      <3>2. i = 1
        BY <2>2, <2>5, <3>1, <1>1 DEF LateShebang
      <3>3. Kind[i] = "line"
        BY <2>3, <2>5, <3>2, QuoteIsOther DEF Fresh, Blank
      <3>4. SkipOne(i) = AfterLine(i)
        BY <2>5 DEF SkipOne, Blank
      <3> QED
        BY <3>3, <3>4, <2>2, LineKinds DEF CodeKinds
    <2>6. CASE Ch(i) = "/" /\ Ch(i + 1) = "/"
      <3>1. Kind[i] = "line"
        BY <2>3, <2>6, QuoteIsOther DEF Fresh, Blank
      <3>2. SkipOne(i) = AfterLine(i)
        BY <2>6 DEF SkipOne, Blank
      <3> QED
        BY <3>1, <3>2, <2>2, LineKinds DEF CodeKinds
    <2>7. CASE Ch(i) = "/" /\ Ch(i + 1) = "*"
      <3>1. Kind[i] = "open"
        BY <2>3, <2>7, QuoteIsOther DEF Fresh, Blank
      <3>2. SkipOne(i) = AfterBlock(i)
        BY <2>7 DEF SkipOne, Blank
      <3>3. \A k \in i .. AfterBlock(i) - 1 : Kind[k] \in BlockKinds
        BY <3>1, <3>2, <2>2, CommentKinds
      <3>4. \A kind \in BlockKinds : kind \notin CodeKinds
        BY DEF BlockKinds, CodeKinds
      <3> QED
        BY <3>1, <3>2, <3>3, <3>4, <2>2, CommentKinds
    <2> QED
      BY <1>3, <2>4, <2>5, <2>6, <2>7 DEF SkipOne
  <1> QED
    BY <1>2, <1>3

LEMMA EatWhitespaceMoves ==
    ASSUME SourceTyped, NEW i \in 1 .. Len(source) + 1
    PROVE  /\ EatWhitespace(i) \in i .. Never
           /\ SkipOne(EatWhitespace(i)) = EatWhitespace(i)
           /\ EatWhitespace(i) = Never => UnclosedComment
           /\ /\ ~LateShebang /\ Clean(i) /\ (start = 1 \/ i # 1)
              /\ EatWhitespace(i) # Never
              => /\ Clean(EatWhitespace(i))
                 /\ \A k \in i .. EatWhitespace(i) - 1 : Kind[k] \notin CodeKinds
  <1> DEFINE step == [j \in 1 .. Never |-> SkipOne(j)]
             e == EatWhitespace(i)
  <1>1. Len(source) \in Nat /\ Never = Len(source) + 2 /\ Never \in Nat /\ i \in 1 .. Never
    BY SourceLength DEF Never
  <1>2. Forward(step, Never)
    <2>1. \A j \in 1 .. Never : step[j] \in j .. Never
      BY SkipOneMoves
    <2>2. \A j \in 1 .. Never : step[j] \in 1 .. Never /\ step[j] >= j
      BY <1>1, <2>1
    <2>3. step = [j \in 1 .. Never |-> step[j]]
      OBVIOUS
    <2> HIDE DEF step
    <2> QED
      BY <2>2, <2>3 DEF Forward
  <1>3. e = Reached(step)[i]
    BY DEF EatWhitespace
  <1>4. \A j \in 1 .. Never : step[j] = SkipOne(j)
    OBVIOUS
  <1> HIDE DEF step, e
  <1>5. e \in i .. Never /\ SkipOne(e) = e /\ (e = Never => UnclosedComment)
    <2> DEFINE S == {j \in 1 .. Never : j = Never => UnclosedComment}
    <2>1. i \in S
      BY <1>1
    <2>2. ASSUME NEW j \in S, j \in 1 .. Never PROVE step[j] \in S
      <3>1. SkipOne(j) \in 1 .. Never
        BY <1>1, SkipOneMoves
      <3>2. CASE j = Never
        BY <3>1, <3>2, <1>4
      <3>3. CASE j # Never
        <4>1. j <= Len(source) + 1
          BY <3>3, <1>1
        <4> QED
          BY <4>1, <3>1, <1>4, SkipOneMoves
      <3> QED
        BY <3>2, <3>3
    <2>3. e \in i .. Never /\ e \in S /\ step[e] = e
      <3> HIDE DEF S
      <3> QED
        BY <1>1, <1>2, <1>3, <2>1, <2>2, ReachedStays
    <2> QED
      BY <2>3, <1>1, <1>4
  <1>6. ASSUME ~LateShebang, Clean(i), start = 1 \/ i # 1, e # Never
        PROVE  Clean(e) /\ \A k \in i .. e - 1 : Kind[k] \notin CodeKinds
    <2> DEFINE S == {j \in i .. Never : j # Never =>
                        Clean(j) /\ \A k \in i .. j - 1 : Kind[k] \notin CodeKinds}
    <2>1. i \in S
      <3>1. i .. i - 1 = {}
        BY <1>1
      <3> QED
        BY <1>1, <1>6, <3>1
    <2>2. ASSUME NEW j \in S, j \in 1 .. Never PROVE step[j] \in S
      <3>1. SkipOne(j) \in j .. Never /\ j \in i .. Never
        BY SkipOneMoves, <2>2
      <3>2. SkipOne(j) \in i .. Never
        BY <3>1, <1>1
      <3>3. ASSUME SkipOne(j) # Never
            PROVE  /\ Clean(SkipOne(j))
                   /\ \A k \in i .. SkipOne(j) - 1 : Kind[k] \notin CodeKinds
        <4>1. j \in 1 .. Len(source) + 1 /\ j # Never
          BY <3>1, <3>3, <1>1
        <4>2. Clean(j) /\ \A k \in i .. j - 1 : Kind[k] \notin CodeKinds
          BY <4>1
        <4>3. start = 1 \/ j # 1
          BY <1>6, <3>1, <1>1
        <4>4. /\ Clean(SkipOne(j))
              /\ \A k \in j .. SkipOne(j) - 1 : Kind[k] \notin CodeKinds
          BY <4>1, <4>2, <4>3, <1>6, <3>3, SkipOneKinds
        <4>5. \A k \in i .. SkipOne(j) - 1 : k \in i .. j - 1 \/ k \in j .. SkipOne(j) - 1
          BY <3>1, <1>1
        <4> QED
          BY <4>2, <4>4, <4>5
      <3>4. SkipOne(j) \in S
        BY <3>2, <3>3
      <3> QED
        BY <3>4, <1>4, <2>2
    <2>3. e \in S
      <3> HIDE DEF S
      <3> QED
        BY <1>1, <1>2, <1>3, <2>1, <2>2, ReachedStays
    <2> QED
      BY <2>3, <1>6
  <1> QED
    BY <1>5, <1>6 DEF e

-----------------------------------------------------------------------------
(* The token at a position where no blank and no comment begins.            *)
LEMMA PlainIsCode ==
    ASSUME NEW k, Ch(k) \in Digit \union Alpha \union {".", "&", "=", "+", "-", "|", ":"}
    PROVE  Fresh(k) = "code"
  <1>1. Ch(k) # Quote
    BY QuoteIsOther
  <1>2. Ch(k) # "/" /\ Ch(k) # "#" /\ Ch(k) \notin Blank
    BY DEF Digit, Alpha, Blank
  <1> QED
    BY <1>1, <1>2 DEF Fresh

TokenTypes ==
    {"eof", "error", "integer", "float", "sized", "string", "keyword", "identifier", "mark"}

\* token covers the characters from i on, with nothing but code in it.
Covers(token, i) ==
    /\ Clean(token.end)
    /\ \A k \in i .. token.end - 1 : Kind[k] \in CodeKinds

IsToken(token, i) ==
    /\ token.type \in TokenTypes
    /\ token.end \in i .. Len(source) + 1
    /\ i <= Len(source) => token.end > i /\ token.type # "eof"
    /\ i > Len(source) => token.type = "eof"
    /\ Clean(i) /\ token.type # "error" => Covers(token, i)

LEMMA PlainToken ==
    ASSUME SourceTyped, NEW i \in 1 .. Len(source), NEW m \in i + 1 .. Len(source) + 1,
           \A k \in i .. m - 1 : Fresh(k) = "code", NEW type \in TokenTypes, type # "eof"
    PROVE  IsToken(Token(type, m), i)
  <1>1. /\ Len(source) \in Nat /\ i \in 1 .. Len(source) + 1
        /\ m \in i .. Len(source) + 1 /\ m > i /\ i <= Len(source)
    BY SourceLength
  <1>2. Clean(i) => Clean(m) /\ \A k \in i .. m - 1 : Kind[k] = "code"
    BY <1>1, CodeRun
  <1>3. "code" \in CodeKinds
    BY DEF CodeKinds
  <1> QED
    BY <1>1, <1>2, <1>3 DEF IsToken, Covers, Token, TokenTypes

LEMMA ErrorToken ==
    ASSUME SourceTyped, NEW i \in 1 .. Len(source), NEW m \in i + 1 .. Len(source) + 1
    PROVE  IsToken(Error(m), i)
  <1>1. Len(source) \in Nat /\ m \in i .. Len(source) + 1 /\ m > i /\ i <= Len(source)
    BY SourceLength
  <1> QED
    BY <1>1 DEF IsToken, Error, Token, TokenTypes

LEMMA NumberToken ==
    ASSUME SourceTyped, NEW i \in 1 .. Len(source), Ch(i) \in Digit
    PROVE  IsToken(IntegerOrFloat(i), i)
  <1> DEFINE body == Digit \union {"_"}
             whole == Past(i, body)
             isFloat == Ch(whole) = "." /\ Ch(whole + 1) \in Digit
             suffixAt == IF isFloat THEN Past(whole + 1, body) ELSE whole
             suffix == Ch(suffixAt)
             end == Past(suffixAt + 1, Digit)
  <1>1. /\ Len(source) \in Nat /\ i \in 1 .. Len(source) + 1
        /\ \A k : k \notin 1 .. Len(source) => Ch(k) = "\\0"
    BY SourceLength
  <1>2. "\\0" \notin body /\ "\\0" \notin Digit /\ Ch(i) \in body
    BY DEF Digit
  <1>3. /\ whole \in i + 1 .. Len(source) + 1
        /\ \A k \in i .. whole - 1 : Ch(k) \in body
    <2> HIDE DEF body
    <2>1. /\ whole \in i .. Len(source) + 1 /\ Ch(whole) \notin body
          /\ \A k \in i .. whole - 1 : Ch(k) \in body
      BY <1>1, <1>2, PastRuns
    <2>2. whole # i
      BY <1>2, <2>1
    <2> QED
      BY <1>1, <2>1, <2>2
  <1>b. body \subseteq Digit \union Alpha
    BY DEF Alpha
  <1> HIDE DEF whole, body
  <1>4. /\ suffixAt \in i + 1 .. Len(source) + 1
        /\ \A k \in i .. suffixAt - 1 : Ch(k) \in body \union {"."}
    <2>1. CASE isFloat
      <3>1. whole + 1 \in 1 .. Len(source) + 1 /\ whole \in 1 .. Len(source)
        <4>1. Ch(whole + 1) # "\\0"
          BY <2>1, <1>2
        <4>2. whole + 1 \in 1 .. Len(source)
          BY <4>1, <1>1
        <4> QED
          BY <4>2, <1>1, <1>3
      <3> DEFINE p == Past(whole + 1, body)
      <3>2. /\ p \in whole + 1 .. Len(source) + 1
            /\ \A k \in whole + 1 .. p - 1 : Ch(k) \in body
        <4> HIDE DEF body
        <4> QED
          BY <3>1, <1>2, PastRuns
      <3>3. suffixAt = p
        BY <2>1
      <3> HIDE DEF p, suffixAt
      <3>4. \A k \in i .. p - 1 : k \in i .. whole - 1 \/ k = whole \/ k \in whole + 1 .. p - 1
        BY <1>1, <1>3, <3>2
      <3>5. p \in i + 1 .. Len(source) + 1
        BY <1>1, <1>3, <3>2
      <3> QED
        BY <2>1, <1>3, <3>2, <3>3, <3>4, <3>5
    <2>2. CASE ~isFloat
      <3>1. suffixAt = whole
        BY <2>2
      <3> QED
        BY <3>1, <1>3
    <2> QED
      BY <2>1, <2>2
  <1>5. CASE suffix \notin {"i", "u", "f"}
    <2> DEFINE type == IF isFloat THEN "float" ELSE "integer"
    <2>1. IntegerOrFloat(i) = Token(type, suffixAt)
      BY <1>5 DEF IntegerOrFloat, whole, body
    <2>2. type \in TokenTypes /\ type # "eof"
      BY DEF TokenTypes
    <2> HIDE DEF type, suffixAt
    <2>3. \A k \in i .. suffixAt - 1 : Fresh(k) = "code"
      BY <1>4, <1>b, PlainIsCode
    <2> QED
      BY <2>1, <2>2, <2>3, <1>4, PlainToken
  <1>6. CASE suffix = "f" /\ ~isFloat
    <2>1. IntegerOrFloat(i) = Error(suffixAt)
      BY <1>6 DEF IntegerOrFloat, whole, body
    <2> HIDE DEF suffixAt
    <2> QED
      BY <2>1, <1>4, ErrorToken
  <1>7. CASE suffix \in {"i", "u", "f"} /\ ~(suffix = "f" /\ ~isFloat)
    <2>1. IntegerOrFloat(i) \in {Token("sized", end), Error(end)}
      BY <1>7 DEF IntegerOrFloat, whole, body
    <2>2. suffix # "\\0" /\ suffix \in Alpha
      BY <1>7 DEF Alpha
    <2> HIDE DEF suffixAt
    <2>3. suffixAt \in 1 .. Len(source) /\ suffixAt + 1 \in 1 .. Len(source) + 1
      BY <2>2, <1>1, <1>4
    <2>4. /\ end \in suffixAt + 1 .. Len(source) + 1
          /\ \A k \in suffixAt + 1 .. end - 1 : Ch(k) \in Digit
      BY <2>3, <1>2, PastRuns
    <2> HIDE DEF end
    <2>5. end \in i + 1 .. Len(source) + 1
      BY <1>1, <1>4, <2>4
    <2>6. \A k \in i .. end - 1 :
             k \in i .. suffixAt - 1 \/ k = suffixAt \/ k \in suffixAt + 1 .. end - 1
      BY <1>1, <1>4, <2>4
    <2>7. \A k \in i .. end - 1 : Ch(k) \in Digit \union Alpha \union {"."}
      <3>1. "_" \in Alpha
        BY DEF Alpha
      <3> QED
        BY <3>1, <1>4, <1>b, <2>2, <2>4, <2>6
    <2>8. \A k \in i .. end - 1 : Fresh(k) = "code"
      BY <2>7, PlainIsCode
    <2>9. IsToken(Token("sized", end), i)
      BY <2>5, <2>8, PlainToken DEF TokenTypes
    <2>10. IsToken(Error(end), i)
      BY <2>5, ErrorToken
    <2> QED
      BY <2>1, <2>9, <2>10
  <1> QED
    BY <1>5, <1>6, <1>7

LEMMA WordToken ==
    ASSUME SourceTyped, NEW i \in 1 .. Len(source), Ch(i) \in Alpha
    PROVE  IsToken(KeywordOrIdentifier(i), i)
  <1> DEFINE word == Alpha \union Digit
             end == Past(i + 1, word)
  <1>1. Len(source) \in Nat /\ i + 1 \in 1 .. Len(source) + 1
    BY SourceLength
  <1>2. "\\0" \notin word
    BY DEF Alpha, Digit
  <1>3. /\ end \in i + 1 .. Len(source) + 1
        /\ \A k \in i + 1 .. end - 1 : Ch(k) \in word
    <2> HIDE DEF word
    <2> QED
      BY <1>1, <1>2, PastRuns
  <1>4. KeywordOrIdentifier(i) \in {Token("keyword", end), Token("identifier", end)}
    BY DEF KeywordOrIdentifier
  <1> HIDE DEF end
  <1>5. \A k \in i .. end - 1 : k = i \/ k \in i + 1 .. end - 1
    BY <1>1, <1>3
  <1>6. \A k \in i .. end - 1 : Fresh(k) = "code"
    BY <1>3, <1>5, PlainIsCode
  <1>7. IsToken(Token("keyword", end), i) /\ IsToken(Token("identifier", end), i)
    BY <1>3, <1>6, PlainToken DEF TokenTypes
  <1> QED
    BY <1>4, <1>7

LEMMA StringToken ==
    ASSUME SourceTyped, NEW i \in 1 .. Len(source), Ch(i) = Quote
    PROVE  IsToken(MakeString(i), i)
  <1> DEFINE end == StringEnd(i + 1)
  <1>1. Len(source) \in Nat /\ i <= Len(source) /\ i + 1 \in 1 .. Len(source) + 1
    BY SourceLength
  <1>2. CASE AtEnd(end)
    <2>1. MakeString(i) = Error(end)
      BY <1>2 DEF MakeString
    <2>2. end \in i + 1 .. Len(source) + 1
      BY <1>1, StringEndMoves
    <2> QED
      BY <2>1, <2>2, ErrorToken
  <1>3. CASE ~AtEnd(end)
    <2>1. MakeString(i) = Token("string", end)
      BY <1>3 DEF MakeString
    <2>2. Clean(i) => Kind[i] = "quote"
      BY <1>1, QuoteIsOther DEF Clean, Fresh
    <2>3. end \in i + 1 .. Len(source) + 1
      BY <1>1, StringEndMoves
    <2>4. Clean(i) => Covers(Token("string", end), i)
      BY <2>2, <1>3, StringKinds DEF Covers, Token
    <2> HIDE DEF end
    <2> QED
      BY <1>1, <2>1, <2>3, <2>4 DEF IsToken, Token, TokenTypes
  <1> QED
    BY <1>2, <1>3

LEMMA MarkToken ==
    ASSUME SourceTyped, NEW i \in 1 .. Len(source), SkipOne(i) = i
    PROVE  IsToken(Punctuation(i), i)
  <1>1. /\ Len(source) \in Nat
        /\ \A k : k \notin 1 .. Len(source) => Ch(k) = "\\0"
    BY SourceLength
  <1>2. IsToken(Error(i + 1), i)
    BY <1>1, ErrorToken
  <1>3. CASE Ch(i) = "&"
    <2>1. CASE Ch(i + 1) = "&"
      <3>1. Punctuation(i) = Token("mark", i + 2)
        BY <1>3, <2>1 DEF Punctuation, Singles
      <3>2. i + 1 \in 1 .. Len(source)
        BY <2>1, <1>1
      <3>3. i + 2 \in i + 1 .. Len(source) + 1 /\ \A k \in i .. (i + 2) - 1 : k = i \/ k = i + 1
        BY <3>2, <1>1
      <3>4. \A k \in i .. (i + 2) - 1 : Fresh(k) = "code"
        BY <1>3, <2>1, <3>3, PlainIsCode
      <3> QED
        BY <3>1, <3>3, <3>4, PlainToken DEF TokenTypes
    <2>2. CASE Ch(i + 1) # "&"
      <3>1. Punctuation(i) = Error(Next1(i + 1))
        BY <1>3, <2>2 DEF Punctuation, Singles
      <3>2. Next1(i + 1) \in i + 1 .. Len(source) + 1
        BY <1>1 DEF Next1, AtEnd
      <3> QED
        BY <3>1, <3>2, ErrorToken
    <2> QED
      BY <2>1, <2>2
  <1>4. CASE Ch(i) \in Singles
    <2> DEFINE length == CASE Ch(i) = "." /\ Ch(i + 1) = "." /\ Ch(i + 2) = "." -> 3
                           [] <<Ch(i), Ch(i + 1)>> \in Doubles -> 2
                           [] OTHER -> 1
    <2>1. Punctuation(i) = Token("mark", i + length)
      BY <1>4 DEF Punctuation, Singles
    <2>2. Fresh(i) = "code"
      <3>1. Ch(i) = "/" => ~(Ch(i + 1) = "/") /\ ~(Ch(i + 1) = "*")
        <4>1. AfterLine(i) # i
          BY <1>1, AfterLineEnds
        <4>2. AfterBlock(i) # i
          BY <1>1, AfterBlockEnds DEF Never
        <4> QED
          BY <4>1, <4>2 DEF SkipOne, Blank
      <3>2. Ch(i) \notin Blank /\ Ch(i) # "#" /\ Ch(i) # Quote
        <4>1. Ch(i) # Quote
          BY <1>4, SinglesAreNoQuotes
        <4> QED
          BY <4>1, <1>4 DEF Singles, Blank
      <3> QED
        BY <3>1, <3>2 DEF Fresh
    <2>3. /\ length \in {1, 2, 3}
          /\ length >= 2 => Ch(i + 1) \in {".", "&", "=", "+", "-", "|", ":"}
          /\ length = 3 => Ch(i + 2) = "."
      BY DEF Doubles
    <2> HIDE DEF length
    <2>4. /\ length >= 2 => i + 1 \in 1 .. Len(source) /\ Fresh(i + 1) = "code"
          /\ length = 3 => i + 2 \in 1 .. Len(source) /\ Fresh(i + 2) = "code"
      <3>1. Ch(i + 1) \in {".", "&", "=", "+", "-", "|", ":"} =>
               i + 1 \in 1 .. Len(source) /\ Fresh(i + 1) = "code"
        BY <1>1, PlainIsCode
      <3>2. Ch(i + 2) = "." => i + 2 \in 1 .. Len(source) /\ Fresh(i + 2) = "code"
        BY <1>1, PlainIsCode
      <3> QED
        BY <2>3, <3>1, <3>2
    <2>5. i + length \in i + 1 .. Len(source) + 1
      BY <1>1, <2>3, <2>4
    <2>6. ASSUME NEW k \in i .. (i + length) - 1 PROVE Fresh(k) = "code"
      <3>1. k = i \/ (k = i + 1 /\ length >= 2) \/ (k = i + 2 /\ length = 3)
        BY <1>1, <2>3
      <3> QED
        BY <3>1, <2>2, <2>4
    <2> QED
      BY <2>1, <2>5, <2>6, PlainToken DEF TokenTypes
  <1>5. CASE Ch(i) # "&" /\ Ch(i) \notin Singles
    <2>1. Punctuation(i) = Error(i + 1)
      BY <1>5 DEF Punctuation
    <2> QED
      BY <2>1, <1>2
  <1> QED
    BY <1>3, <1>4, <1>5

LEMMA TokenAtPosition ==
    ASSUME SourceTyped, NEW i \in 1 .. Len(source) + 1, SkipOne(i) = i
    PROVE  IsToken(TokenAt(i), i)
  <1>1. Len(source) \in Nat /\ \A k : k \notin 1 .. Len(source) => Ch(k) = "\\0"
    BY SourceLength
  <1>2. CASE AtEnd(i)
    <2>1. TokenAt(i) = Token("eof", i)
      <3>1. Ch(i) = "\\0"
        BY <1>1, <1>2 DEF AtEnd
      <3>2. Ch(i) \notin Digit /\ Ch(i) \notin Alpha /\ Ch(i) # Quote
        BY <3>1, QuoteIsOther DEF Digit, Alpha
      <3> QED
        BY <1>2, <3>2 DEF TokenAt
    <2>2. i .. i - 1 = {}
      BY <1>1
    <2> QED
      BY <2>1, <2>2, <1>1, <1>2 DEF IsToken, Covers, Token, AtEnd, TokenTypes
  <1>3. CASE ~AtEnd(i)
    <2>1. i \in 1 .. Len(source)
      BY <1>1, <1>3 DEF AtEnd
    <2>2. CASE Ch(i) \in Digit
      <3>1. TokenAt(i) = IntegerOrFloat(i)
        BY <1>3, <2>2, QuoteIsOther DEF TokenAt, Digit, Alpha
      <3> QED
        BY <3>1, <2>1, <2>2, NumberToken
    <2>3. CASE Ch(i) \in Alpha
      <3>1. TokenAt(i) = KeywordOrIdentifier(i)
        BY <1>3, <2>3, QuoteIsOther DEF TokenAt, Digit, Alpha
      <3> QED
        BY <3>1, <2>1, <2>3, WordToken
    <2>4. CASE Ch(i) = Quote
      <3>1. TokenAt(i) = MakeString(i)
        BY <1>3, <2>4, QuoteIsOther DEF TokenAt
      <3> QED
        BY <3>1, <2>1, <2>4, StringToken
    <2>5. CASE Ch(i) \notin Digit /\ Ch(i) \notin Alpha /\ Ch(i) # Quote
      <3>1. TokenAt(i) = Punctuation(i)
        BY <1>3, <2>5 DEF TokenAt
      <3> QED
        BY <3>1, <2>1, MarkToken
    <2> QED
      BY <2>2, <2>3, <2>4, <2>5
  <1> QED
    BY <1>2, <1>3

-----------------------------------------------------------------------------
(* What holds between two calls: no construct is open at current, and the   *)
(* tokens so far cover the code before it.                                  *)
TokenRecord == [type : TokenTypes, start : Nat, end : Nat]

NoErrors == \A t \in ToSet(tokens) : t.type # "error"

TypedLexer ==
    /\ SourceTyped
    /\ current \in 1 .. Len(source) + 1 /\ start \in 1 .. current
    /\ tokens \in Seq(TokenRecord)
    /\ scanning \in {"on", "done", "hung"}

CoveredSoFar ==
    ~LateShebang /\ NoErrors =>
        /\ \A m : m = current => Clean(m)
        /\ \A i \in 1 .. current - 1 : InToken(i) <=> Kind[i] \in CodeKinds

LexerIInv ==
    /\ TypedLexer
    /\ scanning = "done" => current = Len(source) + 1
    /\ scanning = "hung" => UnclosedComment
    /\ \A t \in ToSet(tokens) : t.end <= current
    /\ CoveredSoFar

LEMMA AppendedSet ==
    ASSUME NEW S, NEW s \in Seq(S), NEW x \in S
    PROVE  ToSet(Append(s, x)) = ToSet(s) \union {x}
  <1>1. /\ Len(s) \in Nat /\ DOMAIN s = 1 .. Len(s)
        /\ DOMAIN Append(s, x) = 1 .. Len(s) + 1
        /\ \A k \in 1 .. Len(s) : Append(s, x)[k] = s[k]
        /\ Append(s, x)[Len(s) + 1] = x
    OBVIOUS
  <1>2. 1 .. Len(s) + 1 = (1 .. Len(s)) \union {Len(s) + 1}
    BY <1>1
  <1> QED
    BY <1>1, <1>2 DEF ToSet

(* The second reading is of the source alone.                               *)
LEMMA SourceStays ==
    ASSUME SourceTyped, source' = source
    PROVE  /\ \A i : Ch(i)' = Ch(i) /\ Fresh(i)' = Fresh(i)
           /\ LateShebang' = LateShebang /\ UnclosedComment' = UnclosedComment
           /\ \A n \in 0 .. Len(source) : Kind'[n] = Kind[n]
  <1>1. \A i : Ch(i)' = Ch(i)
    BY DEF Ch
  <1>2. \A i : Fresh(i)' = Fresh(i)
    BY <1>1 DEF Fresh
  <1>3. \A before, i : KindAfter(before, i)' = KindAfter(before, i)
    BY <1>1, <1>2 DEF KindAfter, IsEscape
  <1>4. LateShebang' = LateShebang /\ UnclosedComment' = UnclosedComment
    BY <1>1 DEF LateShebang, UnclosedComment
  <1>5. Len(source) \in Nat
    BY SourceLength
  <1>6. KindSteps'
    BY KindFollows, PTL
  <1>7. Kind'[0] = "blank" /\ \A i \in 1 .. Len(source) : Kind'[i] = KindAfter(Kind'[i - 1], i)
    BY <1>3, <1>5, <1>6 DEF KindSteps
  <1>8. Kind[0] = "blank" /\ \A i \in 1 .. Len(source) : Kind[i] = KindAfter(Kind[i - 1], i)
    BY <1>5, KindFollows DEF KindSteps
  <1> DEFINE Same == {n \in Nat : Kind'[n] = Kind[n]}
  <1>9. 0 \in Same
    BY <1>7, <1>8
  <1>10. ASSUME NEW n \in 0 .. Len(source) - 1, n \in Same
         PROVE  n + 1 \in Same
    <2>1. n + 1 \in 1 .. Len(source) /\ (n + 1) - 1 = n
      BY <1>5
    <2>2. Kind'[n + 1] = KindAfter(Kind'[n], n + 1) /\ Kind[n + 1] = KindAfter(Kind[n], n + 1)
      BY <2>1, <1>7, <1>8
    <2> QED
      BY <2>2, <1>10
  <1>11. 0 .. Len(source) \subseteq Same
    <2> HIDE DEF Same
    <2> QED
      BY <1>5, <1>9, <1>10, Countup
  <1> QED
    BY <1>1, <1>2, <1>4, <1>11

LEMMA LexerStarts == LexerInit => LexerIInv
  <1> SUFFICES ASSUME LexerInit PROVE LexerIInv
    OBVIOUS
  <1>1. SourceTyped
    BY SourcesAssumption DEF LexerInit, SourceTyped
  <1>2. Len(source) \in Nat
    BY <1>1, SourceLength
  <1>3. TypedLexer /\ scanning = "on"
    BY <1>1, <1>2 DEF LexerInit, TypedLexer
  <1>4. ToSet(tokens) = {}
    BY DEF LexerInit, ToSet
  <1>5. ASSUME NEW m, m = current PROVE Clean(m)
    <2> SUFFICES ASSUME m <= Len(source) PROVE Kind[m] = Fresh(m)
      BY DEF Clean
    <2>1. m = 1 /\ 1 \in 1 .. Len(source) /\ 1 - 1 = 0
      BY <1>2, <1>5 DEF LexerInit
    <2>2. Kind[1] = KindAfter("blank", 1)
      BY <2>1, <1>2, KindFollows DEF KindSteps
    <2> QED
      BY <2>1, <2>2 DEF KindAfter
  <1>6. 1 .. current - 1 = {}
    BY DEF LexerInit
  <1> QED
    BY <1>3, <1>4, <1>5, <1>6 DEF LexerIInv, CoveredSoFar

(* What a call does to a lexer in which no construct is open.               *)
LEMMA ScanMoves ==
    ASSUME LexerIInv, ScanLexer
    PROVE  LET at == EatWhitespace(current)
               token == TokenAt(at)
           IN  /\ at \in current .. Len(source) + 1 /\ IsToken(token, at)
               /\ ~LateShebang /\ NoErrors =>
                     /\ Clean(at)
                     /\ \A k \in current .. at - 1 : Kind[k] \notin CodeKinds
  <1> DEFINE at == EatWhitespace(current)
             token == TokenAt(at)
  <1>1. /\ SourceTyped /\ current \in 1 .. Len(source) + 1 /\ start \in 1 .. current
        /\ CoveredSoFar
    BY DEF LexerIInv, TypedLexer
  <1>2. Len(source) \in Nat /\ Never = Len(source) + 2
    BY <1>1, SourceLength DEF Never
  <1>3. start = 1 \/ current # 1
    BY <1>1
  <1>4. /\ at \in current .. Never /\ SkipOne(at) = at /\ at # Never
        /\ /\ ~LateShebang /\ Clean(current)
           => /\ Clean(at)
              /\ \A k \in current .. at - 1 : Kind[k] \notin CodeKinds
    BY <1>1, <1>3, EatWhitespaceMoves DEF ScanLexer
  <1> HIDE DEF at
  <1>5. at \in current .. Len(source) + 1 /\ at \in 1 .. Len(source) + 1
    BY <1>1, <1>2, <1>4
  <1>6. IsToken(token, at)
    BY <1>1, <1>4, <1>5, TokenAtPosition
  <1>7. ~LateShebang /\ NoErrors => Clean(current)
    BY <1>1 DEF CoveredSoFar
  <1> QED
    BY <1>4, <1>5, <1>6, <1>7 DEF at

LEMMA ScanKeeps ==
    ASSUME LexerIInv, ScanLexer
    PROVE  LexerIInv'
  <1> DEFINE at == EatWhitespace(current)
             token == TokenAt(at)
             record == [type |-> token.type, start |-> at, end |-> token.end]
  <1>1. /\ SourceTyped /\ current \in 1 .. Len(source) + 1 /\ tokens \in Seq(TokenRecord)
        /\ CoveredSoFar /\ \A t \in ToSet(tokens) : t.end <= current
    BY DEF LexerIInv, TypedLexer
  <1>2. Len(source) \in Nat
    BY <1>1, SourceLength
  <1>3. /\ at \in current .. Len(source) + 1 /\ IsToken(token, at)
        /\ ~LateShebang /\ NoErrors =>
              /\ Clean(at)
              /\ \A k \in current .. at - 1 : Kind[k] \notin CodeKinds
    BY ScanMoves
  <1>4. /\ start' = at /\ current' = token.end /\ tokens' = Append(tokens, record)
        /\ scanning' = IF token.type = "eof" THEN "done" ELSE "on"
        /\ source' = source
    BY DEF ScanLexer
  <1> HIDE DEF at, token
  <1>5. /\ token.type \in TokenTypes /\ token.end \in at .. Len(source) + 1
        /\ token.type = "eof" => token.end = Len(source) + 1
        /\ Clean(at) /\ token.type # "error" => Covers(token, at)
    BY <1>2, <1>3 DEF IsToken
  <1>6. record \in TokenRecord
    BY <1>1, <1>2, <1>3, <1>5 DEF TokenRecord
  <1>7. ToSet(tokens') = ToSet(tokens) \union {record}
    <2> HIDE DEF record
    <2> QED
      BY <1>1, <1>4, <1>6, AppendedSet
  <1>8. TypedLexer'
    <2>1. tokens' \in Seq(TokenRecord)
      <3> HIDE DEF record
      <3> QED
        BY <1>1, <1>4, <1>6
    <2>2. SourceTyped'
      BY <1>1, <1>4 DEF SourceTyped
    <2>3. token.end \in 1 .. Len(source) + 1 /\ at \in 1 .. token.end
      BY <1>1, <1>2, <1>3, <1>5
    <2>4. scanning' \in {"on", "done", "hung"}
      BY <1>4
    <2> QED
      BY <2>1, <2>2, <2>3, <2>4, <1>4 DEF TypedLexer
  <1>9. (scanning = "done" => current = Len(source) + 1)'
    BY <1>4, <1>5
  <1>10. (scanning = "hung" => UnclosedComment)'
    BY <1>4
  <1>11. (\A t \in ToSet(tokens) : t.end <= current)'
    <2> SUFFICES ASSUME NEW t \in ToSet(tokens) \union {record} PROVE t.end <= token.end
      BY <1>4, <1>7
    <2>1. CASE t \in ToSet(tokens)
      <3>1. t.end <= current
        BY <2>1, <1>1
      <3>2. t.end \in Nat
        <4>1. ToSet(tokens) \subseteq TokenRecord
          BY <1>1 DEF ToSet
        <4> QED
          BY <2>1, <4>1 DEF TokenRecord
      <3> QED
        BY <3>1, <3>2, <1>1, <1>2, <1>3, <1>5
    <2>2. CASE t = record
      BY <2>2, <1>2, <1>3, <1>5
    <2> QED
      BY <2>1, <2>2
  <1>12. CoveredSoFar'
    <2> SUFFICES ASSUME (~LateShebang)', NoErrors'
                 PROVE  /\ (\A m : m = current => Clean(m))'
                        /\ (\A i \in 1 .. current - 1 : InToken(i) <=> Kind[i] \in CodeKinds)'
      BY DEF CoveredSoFar
    <2>1. /\ \A i : Fresh(i)' = Fresh(i)
          /\ LateShebang' = LateShebang
          /\ \A n \in 0 .. Len(source) : Kind'[n] = Kind[n]
      BY <1>1, <1>4, SourceStays
    <2>2. NoErrors /\ token.type # "error"
      <3>1. \A t \in ToSet(tokens) \union {record} : t.type # "error"
        BY <1>7 DEF NoErrors
      <3>2. record.type # "error"
        <4> HIDE DEF record
        <4> QED
          BY <3>1
      <3>3. token.type # "error"
        BY <3>2
      <3> QED
        BY <3>1, <3>3 DEF NoErrors
    <2>3. /\ Clean(at) /\ Covers(token, at)
          /\ \A k \in current .. at - 1 : Kind[k] \notin CodeKinds
      BY <2>1, <2>2, <1>3, <1>5
    <2>4. \A i \in 1 .. current - 1 : InToken(i) <=> Kind[i] \in CodeKinds
      BY <2>1, <2>2, <1>1 DEF CoveredSoFar
    <2>5. ASSUME NEW m, m = token.end PROVE Clean(m)'
      <3>1. Clean(m)
        BY <2>3, <2>5 DEF Covers
      <3>2. m \in 0 .. Len(source) + 1
        BY <2>5, <1>1, <1>2, <1>3, <1>5
      <3>3. m <= Len(source) => Kind'[m] = Kind[m]
        BY <3>2, <2>1, <1>2
      <3> QED
        BY <3>1, <3>3, <2>1, <1>4 DEF Clean
    <2>6. ASSUME NEW i \in 1 .. token.end - 1
          PROVE  InToken(i)' <=> Kind'[i] \in CodeKinds
      <3>1. Kind'[i] = Kind[i]
        <4>1. i \in 0 .. Len(source)
          BY <1>1, <1>2, <1>3, <1>5
        <4> QED
          BY <4>1, <2>1
      <3>2. InToken(i)' <=> InToken(i) \/ (at <= i /\ i < token.end)
        <4>1. InToken(i)' <=> \E t \in ToSet(tokens) \union {record} : t.start <= i /\ i < t.end
          BY <1>7 DEF InToken
        <4>2. record.start = at /\ record.end = token.end
          OBVIOUS
        <4> HIDE DEF record
        <4> QED
          BY <4>1, <4>2 DEF InToken
      <3>3. CASE i < current
        <4>1. i \in 1 .. current - 1 /\ ~(at <= i)
          BY <3>3, <1>1, <1>2, <1>3
        <4> QED
          BY <4>1, <3>1, <3>2, <2>4
      <3>4. CASE i >= current
        <4>1. ~InToken(i)
          <5> SUFFICES ASSUME NEW t \in ToSet(tokens), i < t.end PROVE FALSE
            BY DEF InToken
          <5>1. ToSet(tokens) \subseteq TokenRecord
            BY <1>1 DEF ToSet
          <5>2. t.end \in Nat /\ t.end <= current
            BY <5>1, <1>1 DEF TokenRecord
          <5> QED
            BY <5>2, <3>4, <1>1, <1>2
        <4>2. CASE i < at
          <5>1. i \in current .. at - 1 /\ ~(at <= i)
            BY <4>2, <3>4, <1>1, <1>2, <1>3
          <5> QED
            BY <5>1, <4>1, <3>1, <3>2, <2>3
        <4>3. CASE at <= i
          <5>1. i \in at .. token.end - 1 /\ i < token.end
            BY <4>3, <1>1, <1>2, <1>3, <1>5
          <5>2. Kind[i] \in CodeKinds
            BY <5>1, <2>3 DEF Covers
          <5> QED
            BY <5>1, <5>2, <4>3, <3>1, <3>2
        <4>4. i < at \/ at <= i
          BY <1>1, <1>2, <1>3
        <4> QED
          BY <4>2, <4>3, <4>4
      <3>5. i < current \/ i >= current
        BY <1>1
      <3> QED
        BY <3>3, <3>4, <3>5
    <2>7. CodeKinds' = CodeKinds
      BY DEF CodeKinds
    <2> QED
      BY <2>5, <2>6, <2>7, <1>4
  <1> QED
    BY <1>8, <1>9, <1>10, <1>11, <1>12 DEF LexerIInv

LEMMA LexerStutters ==
    ASSUME LexerIInv, source' = source, UNCHANGED <<current, start, tokens>>,
           scanning' = scanning \/ (scanning' = "hung" /\ UnclosedComment)
    PROVE  LexerIInv'
  <1>1. /\ SourceTyped /\ current \in 1 .. Len(source) + 1
        /\ CoveredSoFar
    BY DEF LexerIInv, TypedLexer
  <1>2. Len(source) \in Nat
    BY <1>1, SourceLength
  <1>3. /\ \A i : Fresh(i)' = Fresh(i)
        /\ LateShebang' = LateShebang /\ UnclosedComment' = UnclosedComment
        /\ \A n \in 0 .. Len(source) : Kind'[n] = Kind[n]
    BY <1>1, SourceStays
  <1>4. TypedLexer'
    BY DEF LexerIInv, TypedLexer, SourceTyped
  <1>5. ToSet(tokens') = ToSet(tokens)
    OBVIOUS
  <1>6. (scanning = "done" => current = Len(source) + 1)' /\ (scanning = "hung" => UnclosedComment)'
    BY <1>3 DEF LexerIInv
  <1>7. (\A t \in ToSet(tokens) : t.end <= current)'
    BY <1>5 DEF LexerIInv
  <1>8. CoveredSoFar'
    <2> SUFFICES ASSUME (~LateShebang)', NoErrors'
                 PROVE  /\ (\A m : m = current => Clean(m))'
                        /\ (\A i \in 1 .. current - 1 : InToken(i) <=> Kind[i] \in CodeKinds)'
      BY DEF CoveredSoFar
    <2>1. NoErrors
      BY <1>5 DEF NoErrors
    <2>2. /\ Clean(current)
          /\ \A i \in 1 .. current - 1 : InToken(i) <=> Kind[i] \in CodeKinds
      BY <2>1, <1>1, <1>3 DEF CoveredSoFar
    <2>3. ASSUME NEW m, m = current PROVE Clean(m)'
      <3>1. Clean(m) /\ m \in 1 .. Len(source) + 1
        BY <2>2, <2>3, <1>1
      <3>2. m <= Len(source) => Kind'[m] = Kind[m]
        BY <3>1, <1>2, <1>3
      <3> QED
        BY <3>1, <3>2, <1>3 DEF Clean
    <2>4. ASSUME NEW i \in 1 .. current - 1
          PROVE  InToken(i)' <=> Kind'[i] \in CodeKinds
      <3>1. InToken(i)' <=> InToken(i)
        BY <1>5 DEF InToken
      <3>2. Kind'[i] = Kind[i]
        BY <1>1, <1>2, <1>3
      <3> QED
        BY <3>1, <3>2, <2>2
    <2>5. CodeKinds' = CodeKinds
      BY DEF CodeKinds
    <2> QED
      BY <2>3, <2>4, <2>5
  <1> QED
    BY <1>4, <1>6, <1>7, <1>8 DEF LexerIInv

LEMMA LexerSteps == LexerIInv /\ [LexerNext]_lexer => LexerIInv'
  <1> SUFFICES ASSUME LexerIInv, [LexerNext]_lexer PROVE LexerIInv'
    OBVIOUS
  <1>1. CASE ScanLexer
    BY <1>1, ScanKeeps
  <1>2. CASE HangInComment
    <2>1. SourceTyped /\ current \in 1 .. Len(source) + 1
      BY DEF LexerIInv, TypedLexer
    <2>2. UnclosedComment
      BY <2>1, <1>2, EatWhitespaceMoves DEF HangInComment
    <2>3. scanning' = "hung" /\ source' = source /\ UNCHANGED <<current, start, tokens>>
      BY <1>2 DEF HangInComment
    <2> QED
      BY <2>2, <2>3, LexerStutters
  <1>3. CASE UNCHANGED lexer
    BY <1>3, LexerStutters DEF lexer
  <1> QED
    BY <1>1, <1>2, <1>3 DEF LexerNext

LEMMA LexerInvariant == LexerSpec => []LexerIInv
  BY LexerStarts, LexerSteps, PTL DEF LexerSpec

-----------------------------------------------------------------------------
\* Whatever the source, no text is skipped and no comment is read as code: once it is scanned without
\* an error, a character is in one of the tokens exactly when it is neither blank nor in a comment
\* (eatWhitespace, makeString, makeIntegerOrFloat, makeKeywordOrIdentifier).
THEOREM TokensCorrect == LexerSpec => []TokensAreTheCode
  <1>1. LexerIInv => TokensAreTheCode
    <2> SUFFICES ASSUME LexerIInv, scanning = "done", ~LateShebang, NoErrors,
                        NEW i \in DOMAIN source
                 PROVE  InToken(i) <=> Kind[i] \in CodeKinds
      BY DEF TokensAreTheCode, NoErrors
    <2>1. SourceTyped /\ current = Len(source) + 1 /\ CoveredSoFar
      BY DEF LexerIInv, TypedLexer
    <2>2. i \in 1 .. current - 1
      BY <2>1, SourceLength
    <2> QED
      BY <2>1, <2>2 DEF CoveredSoFar
  <1> QED
    BY <1>1, LexerInvariant, PTL

\* Every call of Xvr_private_scanLexer that returns takes at least one character of the source, or it
\* returns the end of the file: the loop of the compiler that calls it ends.
THEOREM LexerAdvances ==
    LexerSpec => [][ScanLexer => current' > current \/ scanning' = "done"]_lexer
  <1>1. ASSUME LexerIInv, [LexerNext]_lexer
        PROVE  [ScanLexer => current' > current \/ scanning' = "done"]_lexer
    <2> SUFFICES ASSUME ScanLexer PROVE current' > current \/ scanning' = "done"
      OBVIOUS
    <2> DEFINE at == EatWhitespace(current)
               token == TokenAt(at)
    <2>1. at \in current .. Len(source) + 1 /\ IsToken(token, at)
      BY <1>1, ScanMoves
    <2>2. current' = token.end /\ scanning' = IF token.type = "eof" THEN "done" ELSE "on"
      BY DEF ScanLexer
    <2>3. Len(source) \in Nat /\ current \in 1 .. Len(source) + 1
      BY <1>1, SourceLength DEF LexerIInv, TypedLexer
    <2> HIDE DEF at, token
    <2>4. CASE at <= Len(source)
      BY <2>1, <2>2, <2>3, <2>4 DEF IsToken
    <2>5. CASE at > Len(source)
      BY <2>1, <2>2, <2>3, <2>5 DEF IsToken
    <2> QED
      BY <2>1, <2>3, <2>4, <2>5
  <1> QED
    BY <1>1, LexerInvariant, PTL DEF LexerSpec

\* The loop of eatWhitespace that has no test for the end of the source runs for ever only in a
\* comment that is never closed, in whatever state the lexer came to it.
THEOREM HangsOnlyInComment == LexerSpec => [](scanning = "hung" => UnclosedComment)
  <1>1. LexerIInv => (scanning = "hung" => UnclosedComment)
    BY DEF LexerIInv
  <1> QED
    BY <1>1, LexerInvariant, PTL
=============================================================================
