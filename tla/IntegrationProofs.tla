------------------------ MODULE IntegrationProofs ------------------------
(***************************************************************************)
(* Theorems about Integration, for any well-formed repositories of which   *)
(* no file calls a tracer twice: the types; that no sequence of commands   *)
(* and edits makes a file call a tracer twice; that what exit code 0 says  *)
(* of a written repository is so; and, for repositories whose tasks name   *)
(* their pipelines, that a command which writes ends with a report, and    *)
(* that verify agrees with integrate about what was written.               *)
(* Most of the lemmas are about one carried-out plan: what the scanner's   *)
(* evidence says, what an adapter anchors in, what two edits by line       *)
(* number make of a file, and what the scanner and the verifiers see in    *)
(* the file after them.                                                    *)
(***************************************************************************)
EXTENDS Integration, FiniteSetTheorems, WellFoundedInduction, TLAPS

-----------------------------------------------------------------------------
(* Edits by line number                                                    *)

\* C is A followed by B.
Joined(S, A, B, C) ==
  /\ C \in Seq(S)
  /\ Len(C) = Len(A) + Len(B)
  /\ \A i \in 1..Len(A) : C[i] = A[i]
  /\ \A i \in 1..Len(B) : C[Len(A) + i] = B[i]

\* Concatenation, line by line.
LEMMA ConcatIs ==
  ASSUME NEW S, NEW A \in Seq(S), NEW B \in Seq(S), NEW C, C = A \o B
  PROVE  Joined(S, A, B, C)
<1>1. C \in Seq(S)
  OBVIOUS
<1>2. Len(C) = Len(A) + Len(B)
  OBVIOUS
<1>3. \A i \in 1..Len(A) : C[i] = A[i]
  OBVIOUS
<1>4. \A i \in 1..Len(B) : C[Len(A) + i] = B[i]
  OBVIOUS
<1> QED BY <1>1, <1>2, <1>3, <1>4 DEF Joined

\* A part of a sequence, line by line.
LEMMA SubSeqIs ==
  ASSUME NEW S, NEW A \in Seq(S), NEW m \in 1..(Len(A) + 1), NEW k \in (m - 1)..Len(A),
         NEW B, B = SubSeq(A, m, k)
  PROVE  /\ B \in Seq(S)
         /\ Len(B) = k + 1 - m
         /\ \A i \in 1..(k + 1 - m) : B[i] = A[m - 1 + i]
<1>1. B \in Seq(S)
  OBVIOUS
<1>2. Len(B) = k + 1 - m
  OBVIOUS
<1>3. \A i \in 1..(k + 1 - m) : B[i] = A[m - 1 + i]
  OBVIOUS
<1> QED BY <1>1, <1>2, <1>3

\* out is code with its lines s..t replaced by L.
Spliced(S, code, s, t, L, out) ==
  /\ out \in Seq(S)
  /\ Len(out) = Len(code) + Len(L) - (t + 1 - s)
  /\ \A i \in 1..(s - 1) : out[i] = code[i]
  /\ \A k \in 1..Len(L) : out[s - 1 + k] = L[k]
  /\ \A i \in (t + 1)..Len(code) : out[i + Len(L) - (t + 1 - s)] = code[i]

\* One edit, an insertion (t = s - 1) or the replacement of one line (t = s),
\* leaves what is above it, puts its lines there, and moves what is below.
LEMMA SpliceIs ==
  ASSUME NEW S, NEW code \in Seq(S), NEW L \in Seq(S), NEW s \in 1..(Len(code) + 1),
         NEW t \in {s - 1, s}, t <= Len(code),
         NEW out, out = Splice(code, Edit(s, t, L))
  PROVE  Spliced(S, code, s, t, L, out)
<1> DEFINE A == SubSeq(code, 1, s - 1)
           B == SubSeq(code, t + 1, Len(code))
           C == A \o L
           N == Len(code)
           l == Len(L)
<1>1. out = C \o B
  BY DEF Splice, Edit
<1>2. N \in Nat /\ l \in Nat /\ s \in 1..(N + 1) /\ t \in (s - 1)..s /\ t <= N
  OBVIOUS
<1>3. A \in Seq(S) /\ Len(A) = s - 1 /\ \A i \in 1..(s - 1) : A[i] = code[i]
  <2>1. 1 \in 1..(Len(code) + 1) /\ s - 1 \in 0..Len(code)
    BY <1>2
  <2> QED BY <2>1, SubSeqIs
<1>4. B \in Seq(S) /\ Len(B) = N - t /\ \A i \in 1..(N - t) : B[i] = code[t + i]
  <2>1. t + 1 \in 1..(Len(code) + 1) /\ Len(code) \in t..Len(code)
    BY <1>2
  <2> QED BY <2>1, SubSeqIs
<1> HIDE DEF A, B
<1>5. /\ C \in Seq(S) /\ Len(C) = s - 1 + l
      /\ \A i \in 1..(s - 1) : C[i] = A[i]
      /\ \A k \in 1..l : C[s - 1 + k] = L[k]
  <2>1. /\ C \in Seq(S) /\ Len(C) = Len(A) + Len(L)
        /\ \A i \in 1..Len(A) : C[i] = A[i]
        /\ \A i \in 1..Len(L) : C[Len(A) + i] = L[i]
    <3>1. Joined(S, A, L, C)
      BY <1>3, ConcatIs
    <3> HIDE DEF C
    <3> QED BY <3>1 DEF Joined
  <2> HIDE DEF C
  <2> QED BY <2>1, <1>3
<1> HIDE DEF C
<1>6. /\ out \in Seq(S) /\ Len(out) = s - 1 + l + (N - t)
      /\ \A i \in 1..(s - 1 + l) : out[i] = C[i]
      /\ \A i \in 1..(N - t) : out[s - 1 + l + i] = B[i]
  <2>1. /\ out \in Seq(S) /\ Len(out) = Len(C) + Len(B)
        /\ \A i \in 1..Len(C) : out[i] = C[i]
        /\ \A i \in 1..Len(B) : out[Len(C) + i] = B[i]
    <3>1. Joined(S, C, B, out)
      BY <1>1, <1>4, <1>5, ConcatIs
    <3> QED BY <3>1 DEF Joined
  <2> QED BY <2>1, <1>4, <1>5
<1> HIDE DEF N, l
<1>7. \A i \in 1..(s - 1) : out[i] = code[i]
  BY <1>2, <1>3, <1>5, <1>6
<1>8. \A k \in 1..l : out[s - 1 + k] = L[k]
  BY <1>2, <1>5, <1>6
<1>9. ASSUME NEW i \in (t + 1)..N PROVE out[i + l - (t + 1 - s)] = code[i]
  <2> DEFINE k == i - t
  <2>1. k \in 1..(N - t) /\ s - 1 + l + k = i + l - (t + 1 - s) /\ t + k = i
    BY <1>2
  <2> HIDE DEF k
  <2> QED BY <2>1, <1>4, <1>6
<1>10. s - 1 + l + (N - t) = N + l - (t + 1 - s)
  BY <1>2
<1> QED BY <1>6, <1>7, <1>8, <1>9, <1>10 DEF N, l, Spliced

\* Where lines end up: positions old of 1..N, head of the h lines put in before
\* line n, new of the l lines before line at (d = 0) or in its place (d = 1).
Placed(N, h, l, n, at, d, old, head, new) ==
  /\ old \in [1..N -> 1..(N + h + l - d)]
  /\ head \in [1..h -> 1..(N + h + l - d)]
  /\ new \in [1..l -> 1..(N + h + l - d)]
  /\ \A j \in 1..(N + h + l - d) : \/ \E i \in 1..N : j = old[i] /\ (d = 0 \/ i # at)
                                   \/ \E k \in 1..h : j = head[k]
                                   \/ \E k \in 1..l : j = new[k]
  /\ \A i, j \in 1..N : i < j => old[i] < old[j]
  /\ \A i, j \in 1..h : i < j => head[i] < head[j]
  /\ \A i, j \in 1..l : i < j => new[i] < new[j]
  /\ \A i \in 1..N, k \in 1..h : i < n => old[i] < head[k]
  /\ \A i \in 1..N, k \in 1..h : n <= i => head[k] < old[i]
  /\ \A i \in 1..N, k \in 1..l : at + d <= i => new[k] < old[i]

\* The header lies above the edited line.
LEMMA PlacedBelow ==
  ASSUME NEW N \in Nat, NEW h \in Nat, NEW l \in Nat, NEW n \in 1..(N + 1), NEW at \in 1..N,
         NEW d \in {0, 1}, NEW a \in Nat, d = 1 => a \in 1..l, n < at \/ (n = at /\ d = 1),
         NEW old, old = [i \in 1..N |-> IF i < n THEN i ELSE IF i < at THEN i + h
                            ELSE IF d = 1 /\ i = at THEN at - 1 + a + h ELSE i + h + l - d],
         NEW head, head = [k \in 1..h |-> n - 1 + k],
         NEW new, new = [k \in 1..l |-> at - 1 + k + h]
  PROVE  Placed(N, h, l, n, at, d, old, head, new)
<1>1. /\ \A i \in 1..N : i < n => old[i] = i
      /\ \A i \in 1..N : n <= i /\ i < at => old[i] = i + h
      /\ \A i \in 1..N : i = at /\ d = 1 => old[i] = at - 1 + a + h
      /\ \A i \in 1..N : i = at /\ d = 0 => old[i] = at + h + l
      /\ \A i \in 1..N : at < i => old[i] = i + h + l - d
      /\ \A k \in 1..h : head[k] = n - 1 + k
      /\ \A k \in 1..l : new[k] = at - 1 + k + h
  OBVIOUS
<1>2. n <= at /\ at <= N /\ 1 <= n /\ (d = 1 => l >= 1) /\ d <= at
  OBVIOUS
<1>3. \A i \in 1..N : old[i] \in 1..(N + h + l - d)
  <2> TAKE i \in 1..N
  <2>1. CASE i < n BY <2>1, <1>1, <1>2
  <2>2. CASE n <= i /\ i < at BY <2>2, <1>1, <1>2
  <2>3. CASE i = at /\ d = 1 BY <2>3, <1>1, <1>2
  <2>4. CASE i = at /\ d = 0 BY <2>4, <1>1, <1>2
  <2>5. CASE at < i BY <2>5, <1>1, <1>2
  <2> QED BY <2>1, <2>2, <2>3, <2>4, <2>5
<1>4. /\ \A k \in 1..h : head[k] \in 1..(N + h + l - d)
      /\ \A k \in 1..l : new[k] \in 1..(N + h + l - d)
  BY <1>1, <1>2
<1>5. ASSUME NEW j \in 1..(N + h + l - d)
      PROVE  \/ \E i \in 1..N : j = old[i] /\ (d = 0 \/ i # at)
             \/ \E k \in 1..h : j = head[k]
             \/ \E k \in 1..l : j = new[k]
  <2>1. CASE j < n
    <3>1. j \in 1..N /\ j # at BY <2>1, <1>2
    <3> QED BY <3>1, <2>1, <1>1
  <2>2. CASE n <= j /\ j < n + h
    <3>1. j - (n - 1) \in 1..h /\ n - 1 + (j - (n - 1)) = j BY <2>2
    <3> QED BY <3>1, <1>1
  <2>3. CASE n + h <= j /\ j < at + h
    <3> DEFINE i == j - h
    <3>1. i \in 1..N /\ n <= i /\ i < at /\ i + h = j BY <2>3
    <3> HIDE DEF i
    <3>2. old[i] = j /\ i # at BY <3>1, <1>1
    <3> QED BY <3>1, <3>2
  <2>4. CASE at + h <= j /\ j < at + h + l
    <3> DEFINE k == j - (at - 1 + h)
    <3>1. k \in 1..l /\ at - 1 + k + h = j BY <2>4
    <3>2. new[k] = j BY <3>1, <1>1
    <3> QED BY <3>1, <3>2
  <2>5. CASE at + h + l <= j
    <3> DEFINE i == j - (h + l - d)
    <3>1. i \in 1..N /\ (d = 1 => at < i) /\ at <= i /\ i + h + l - d = j BY <2>5
    <3> HIDE DEF i
    <3>2. old[i] = j /\ (d = 0 \/ i # at) BY <3>1, <1>1
    <3> QED BY <3>1, <3>2
  <2> QED BY <2>1, <2>2, <2>3, <2>4, <2>5, <1>2
<1>6. ASSUME NEW i \in 1..N, NEW j \in 1..N, i < j PROVE old[i] < old[j]
  <2>1. \/ i < n \/ (n <= i /\ i < at) \/ (i = at /\ d = 1) \/ (i = at /\ d = 0) \/ at < i BY <1>2
  <2>2. \/ j < n \/ (n <= j /\ j < at) \/ (j = at /\ d = 1) \/ (j = at /\ d = 0) \/ at < j BY <1>2
  <2>3. /\ i < n => old[i] = i
        /\ n <= i /\ i < at => old[i] = i + h
        /\ i = at /\ d = 1 => old[i] = at - 1 + a + h
        /\ i = at /\ d = 0 => old[i] = at + h + l
        /\ at < i => old[i] = i + h + l - d
    BY <1>1
  <2>4. /\ j < n => old[j] = j
        /\ n <= j /\ j < at => old[j] = j + h
        /\ j = at /\ d = 1 => old[j] = at - 1 + a + h
        /\ j = at /\ d = 0 => old[j] = at + h + l
        /\ at < j => old[j] = j + h + l - d
    BY <1>1
  <2> QED BY <2>1, <2>2, <2>3, <2>4, <1>6, <1>2
<1>7. \A i \in 1..N, k \in 1..h : i < n => old[i] < head[k]
  BY <1>1
<1>8. /\ \A i, j \in 1..h : i < j => head[i] < head[j]
      /\ \A i, j \in 1..l : i < j => new[i] < new[j]
  BY <1>1
<1>9. old \in [1..N -> 1..(N + h + l - d)] /\ head \in [1..h -> 1..(N + h + l - d)]
        /\ new \in [1..l -> 1..(N + h + l - d)]
  BY <1>3, <1>4
<1>10. ASSUME NEW i \in 1..N, NEW k \in 1..l, at + d <= i PROVE new[k] < old[i]
  <2>1. new[k] = at - 1 + k + h /\ old[i] = i + h + l - d
    BY <1>1, <1>10
  <2> QED BY <2>1, <1>10
<1>11. ASSUME NEW i \in 1..N, NEW k \in 1..h, n <= i PROVE head[k] < old[i]
  <2>1. head[k] = n - 1 + k BY <1>1
  <2>2. CASE i < at BY <2>1, <2>2, <1>1, <1>2, <1>11
  <2>3. CASE i = at /\ d = 1 BY <2>1, <2>3, <1>1, <1>2
  <2>4. CASE i = at /\ d = 0 BY <2>1, <2>4, <1>1, <1>2
  <2>5. CASE at < i BY <2>1, <2>5, <1>1, <1>2
  <2> QED BY <2>2, <2>3, <2>4, <2>5
<1> QED BY <1>5, <1>6, <1>7, <1>8, <1>9, <1>10, <1>11 DEF Placed

\* The header lies below the edited line.
LEMMA PlacedAbove ==
  ASSUME NEW N \in Nat, NEW h \in Nat, NEW l \in Nat, NEW n \in 1..(N + 1), NEW at \in 1..N,
         NEW d \in {0, 1}, NEW a \in Nat, d = 1 => a \in 1..l, at < n \/ (n = at /\ d = 0),
         NEW old, old = [i \in 1..N |-> IF i < at THEN i
                            ELSE IF d = 1 /\ i = at THEN at - 1 + a
                            ELSE IF i < n THEN i + l - d ELSE i + h + l - d],
         NEW head, head = [k \in 1..h |-> n - 1 + k + l - d],
         NEW new, new = [k \in 1..l |-> at - 1 + k]
  PROVE  Placed(N, h, l, n, at, d, old, head, new)
<1>1. /\ \A i \in 1..N : i < at => old[i] = i
      /\ \A i \in 1..N : i = at /\ d = 1 => old[i] = at - 1 + a
      /\ \A i \in 1..N : at + d <= i /\ i < n => old[i] = i + l - d
      /\ \A i \in 1..N : at + d <= i /\ n <= i => old[i] = i + h + l - d
      /\ \A k \in 1..h : head[k] = n - 1 + k + l - d
      /\ \A k \in 1..l : new[k] = at - 1 + k
  OBVIOUS
<1>2. at + d <= n /\ at <= N /\ n <= N + 1 /\ 1 <= at /\ (d = 1 => l >= 1)
  OBVIOUS
<1>3. \A i \in 1..N : old[i] \in 1..(N + h + l - d)
  <2> TAKE i \in 1..N
  <2>1. CASE i < at BY <2>1, <1>1, <1>2
  <2>2. CASE i = at /\ d = 1 BY <2>2, <1>1, <1>2
  <2>3. CASE at + d <= i /\ i < n BY <2>3, <1>1, <1>2
  <2>4. CASE at + d <= i /\ n <= i BY <2>4, <1>1, <1>2
  <2> QED BY <2>1, <2>2, <2>3, <2>4
<1>4. /\ \A k \in 1..h : head[k] \in 1..(N + h + l - d)
      /\ \A k \in 1..l : new[k] \in 1..(N + h + l - d)
  BY <1>1, <1>2
<1>5. ASSUME NEW j \in 1..(N + h + l - d)
      PROVE  \/ \E i \in 1..N : j = old[i] /\ (d = 0 \/ i # at)
             \/ \E k \in 1..h : j = head[k]
             \/ \E k \in 1..l : j = new[k]
  <2>1. CASE j < at
    <3>1. j \in 1..N /\ j # at BY <2>1, <1>2
    <3> QED BY <3>1, <2>1, <1>1
  <2>2. CASE at <= j /\ j < at + l
    <3>1. j - (at - 1) \in 1..l /\ at - 1 + (j - (at - 1)) = j BY <2>2
    <3> QED BY <3>1, <1>1
  <2>3. CASE at + l <= j /\ j < n + l - d
    <3> DEFINE i == j - (l - d)
    <3>1. i \in 1..N /\ at + d <= i /\ i < n /\ i + l - d = j BY <2>3
    <3>2. old[i] = j /\ (d = 0 \/ i # at) BY <3>1, <1>1
    <3> QED BY <3>1, <3>2
  <2>4. CASE n + l - d <= j /\ j < n + l - d + h
    <3> DEFINE k == j - (n - 1 + l - d)
    <3>1. k \in 1..h /\ n - 1 + k + l - d = j BY <2>4
    <3>2. head[k] = j BY <3>1, <1>1
    <3> QED BY <3>1, <3>2
  <2>5. CASE n + l - d + h <= j
    <3> DEFINE i == j - (h + l - d)
    <3>1. i \in 1..N /\ at + d <= i /\ n <= i /\ i + h + l - d = j BY <2>5
    <3>2. old[i] = j /\ (d = 0 \/ i # at) BY <3>1, <1>1
    <3> QED BY <3>1, <3>2
  <2> QED BY <2>1, <2>2, <2>3, <2>4, <2>5, <1>2
<1>6. ASSUME NEW i \in 1..N, NEW j \in 1..N, i < j PROVE old[i] < old[j]
  <2>1. \/ i < at \/ (i = at /\ d = 1) \/ (at + d <= i /\ i < n) \/ (at + d <= i /\ n <= i) BY <1>2
  <2>2. \/ j < at \/ (j = at /\ d = 1) \/ (at + d <= j /\ j < n) \/ (at + d <= j /\ n <= j) BY <1>2
  <2>3. /\ i < at => old[i] = i
        /\ i = at /\ d = 1 => old[i] = at - 1 + a
        /\ at + d <= i /\ i < n => old[i] = i + l - d
        /\ at + d <= i /\ n <= i => old[i] = i + h + l - d
    BY <1>1
  <2>4. /\ j < at => old[j] = j
        /\ j = at /\ d = 1 => old[j] = at - 1 + a
        /\ at + d <= j /\ j < n => old[j] = j + l - d
        /\ at + d <= j /\ n <= j => old[j] = j + h + l - d
    BY <1>1
  <2> QED BY <2>1, <2>2, <2>3, <2>4, <1>6, <1>2
<1>7. ASSUME NEW i \in 1..N, NEW k \in 1..h, i < n PROVE old[i] < head[k]
  <2>1. head[k] = n - 1 + k + l - d BY <1>1
  <2>2. CASE i < at BY <2>1, <2>2, <1>1, <1>2
  <2>3. CASE i = at /\ d = 1 BY <2>1, <2>3, <1>1, <1>2
  <2>4. CASE at + d <= i BY <2>1, <2>4, <1>1, <1>2, <1>7
  <2> QED BY <2>2, <2>3, <2>4
<1>8. /\ \A i, j \in 1..h : i < j => head[i] < head[j]
      /\ \A i, j \in 1..l : i < j => new[i] < new[j]
  BY <1>1
<1>9. old \in [1..N -> 1..(N + h + l - d)] /\ head \in [1..h -> 1..(N + h + l - d)]
        /\ new \in [1..l -> 1..(N + h + l - d)]
  BY <1>3, <1>4
<1>10. ASSUME NEW i \in 1..N, NEW k \in 1..l, at + d <= i PROVE new[k] < old[i]
  <2>1. new[k] = at - 1 + k BY <1>1
  <2>2. CASE i < n BY <2>1, <2>2, <1>1, <1>10
  <2>3. CASE n <= i BY <2>1, <2>3, <1>1, <1>10
  <2> QED BY <2>2, <2>3
<1>11. ASSUME NEW i \in 1..N, NEW k \in 1..h, n <= i PROVE head[k] < old[i]
  <2>1. head[k] = n - 1 + k + l - d /\ old[i] = i + h + l - d
    BY <1>1, <1>2, <1>11
  <2> QED BY <2>1, <1>11
<1> QED BY <1>5, <1>6, <1>7, <1>8, <1>9, <1>10, <1>11 DEF Placed

\* What the adapters make of a file: its lines, in their order, with the lines H
\* put in before line n and the lines L before line at (d = 0) or in its place
\* (d = 1); old, head and new say where they all are.
Edited(code, out, n, H, at, d, L, old, head, new) ==
  /\ out \in Seq(Lines)
  /\ Len(out) = Len(code) + Len(H) + Len(L) - d
  /\ Placed(Len(code), Len(H), Len(L), n, at, d, old, head, new)
  /\ \A i \in 1..Len(code) : d = 0 \/ i # at => out[old[i]] = code[i]
  /\ \A k \in 1..Len(H) : out[head[k]] = H[k]
  /\ \A k \in 1..Len(L) : out[new[k]] = L[k]

\* What both edits make, in the order in which they are carried out.
LEMMA TwoEdits ==
  ASSUME NEW code \in Seq(Lines), NEW H \in Seq(Lines), NEW L \in Seq(Lines),
         NEW n \in 1..(Len(code) + 1), NEW at \in 1..Len(code), NEW d \in {0, 1},
         NEW a \in Nat, d = 1 => a \in 1..Len(L), NEW t, t = at - 1 + d,
         NEW out, out = ApplyLineEdits(code, Insert(n, H), Edit(at, t, L))
  PROVE  \E old, head, new : /\ Edited(code, out, n, H, at, d, L, old, head, new)
                             /\ d = 1 => old[at] = new[a]
<1> DEFINE N == Len(code)
           h == Len(H)
           l == Len(L)
           below == n < at \/ (n = at /\ d = 1)
<1>1. N \in Nat /\ h \in Nat /\ l \in Nat /\ n \in 1..(N + 1) /\ at \in 1..N /\ (d = 1 => a \in 1..l)
  OBVIOUS
<1>2. Lower(Edit(at, t, L), Insert(n, H)) <=> below
  BY DEF Lower, Edit, Insert
<1>3. /\ t \in {at - 1, at} /\ t <= N /\ at \in 1..(N + 1) /\ t + 1 - at = d
      /\ n - 1 \in {n - 1, n} /\ n - 1 <= N /\ n - 1 + 1 - n = 0 /\ n - 1 + 1 = n
  OBVIOUS
<1>4. CASE below
  <2> DEFINE mid == Splice(code, Edit(at, t, L))
             old == [i \in 1..N |-> IF i < n THEN i ELSE IF i < at THEN i + h
                            ELSE IF d = 1 /\ i = at THEN at - 1 + a + h ELSE i + h + l - d]
             head == [k \in 1..h |-> n - 1 + k]
             new == [k \in 1..l |-> at - 1 + k + h]
  <2>1. out = Splice(mid, Edit(n, n - 1, H))
    BY <1>2, <1>4 DEF ApplyLineEdits, Insert
  <2>2. /\ mid \in Seq(Lines) /\ Len(mid) = N + l - d
        /\ \A i \in 1..(at - 1) : mid[i] = code[i]
        /\ \A k \in 1..l : mid[at - 1 + k] = L[k]
        /\ \A i \in (t + 1)..N : mid[i + l - d] = code[i]
    <3>1. Spliced(Lines, code, at, t, L, mid)
      BY <1>3, SpliceIs
    <3> HIDE DEF mid
    <3> QED BY <3>1, <1>3 DEF Spliced
  <2> HIDE DEF mid
  <2>3. n \in 1..(Len(mid) + 1) /\ n - 1 <= Len(mid)
    BY <1>1, <2>2, <1>4
  <2>4. /\ out \in Seq(Lines) /\ Len(out) = Len(mid) + h - (n - 1 + 1 - n)
        /\ \A i \in 1..(n - 1) : out[i] = mid[i]
        /\ \A k \in 1..h : out[n - 1 + k] = H[k]
        /\ \A i \in (n - 1 + 1)..Len(mid) : out[i + h - (n - 1 + 1 - n)] = mid[i]
    <3>1. Spliced(Lines, mid, n, n - 1, H, out)
      BY <1>3, <2>1, <2>2, <2>3, SpliceIs
    <3> QED BY <3>1 DEF Spliced
  <2> HIDE DEF N, h, l
  <2>5. /\ Len(out) = N + h + l - d
        /\ \A i \in n..(N + l - d) : out[i + h] = mid[i]
    <3>1. Len(out) = N + h + l - d
      BY <1>1, <1>3, <2>2, <2>4
    <3>2. ASSUME NEW i \in n..(N + l - d) PROVE out[i + h] = mid[i]
      <4>1. i \in (n - 1 + 1)..Len(mid) /\ i + h - (n - 1 + 1 - n) = i + h
        BY <1>1, <2>2
      <4> QED BY <4>1, <2>4
    <3> QED BY <3>1, <3>2
  <2>6. Placed(N, h, l, n, at, d, old, head, new)
    BY <1>1, <1>4, PlacedBelow
  <2>7. ASSUME NEW i \in 1..N, d = 0 \/ i # at PROVE out[old[i]] = code[i]
    <3>1. CASE i < n
      <4>1. old[i] = i /\ i \in 1..(n - 1) /\ i \in 1..(at - 1)
        BY <1>1, <1>4, <3>1
      <4> QED BY <4>1, <2>2, <2>4
    <3>2. CASE n <= i /\ i < at
      <4>1. old[i] = i + h /\ i \in n..(N + l - d) /\ i \in 1..(at - 1)
        BY <1>1, <1>4, <3>2
      <4> QED BY <4>1, <2>2, <2>5
    <3>3. CASE at <= i
      <4> DEFINE j == i + l - d
      <4>1. old[i] = j + h /\ j \in n..(N + l - d) /\ i \in (t + 1)..N
        BY <1>1, <1>4, <2>7, <3>3
      <4>2. mid[j] = code[i]
        BY <4>1, <2>2
      <4> HIDE DEF j
      <4> QED BY <4>1, <4>2, <2>5
    <3> QED BY <3>1, <3>2, <3>3, <1>1
  <2>8. ASSUME NEW k \in 1..l PROVE out[new[k]] = L[k]
    <3> DEFINE j == at - 1 + k
    <3>1. new[k] = j + h /\ j \in n..(N + l - d) /\ mid[j] = L[k]
      BY <1>1, <1>4, <2>2
    <3> HIDE DEF j, new
    <3> QED BY <3>1, <2>5
  <2>9. \A k \in 1..h : out[head[k]] = H[k]
    BY <2>4
  <2>10. d = 1 => old[at] = new[a]
    BY <1>1, <1>4
  <2> HIDE DEF old, head, new
  <2>11. Edited(code, out, n, H, at, d, L, old, head, new)
    BY <2>4, <2>5, <2>6, <2>7, <2>8, <2>9 DEF Edited, N, h, l
  <2> QED BY <2>10, <2>11
<1>5. CASE ~below
  <2> DEFINE mid == Splice(code, Edit(n, n - 1, H))
             old == [i \in 1..N |-> IF i < at THEN i
                            ELSE IF d = 1 /\ i = at THEN at - 1 + a
                            ELSE IF i < n THEN i + l - d ELSE i + h + l - d]
             head == [k \in 1..h |-> n - 1 + k + l - d]
             new == [k \in 1..l |-> at - 1 + k]
  <2>1. out = Splice(mid, Edit(at, t, L))
    BY <1>2, <1>5 DEF ApplyLineEdits, Insert
  <2>2. /\ mid \in Seq(Lines) /\ Len(mid) = N + h - (n - 1 + 1 - n)
        /\ \A i \in 1..(n - 1) : mid[i] = code[i]
        /\ \A k \in 1..h : mid[n - 1 + k] = H[k]
        /\ \A i \in (n - 1 + 1)..N : mid[i + h - (n - 1 + 1 - n)] = code[i]
    <3>1. Spliced(Lines, code, n, n - 1, H, mid)
      BY <1>3, SpliceIs
    <3> HIDE DEF mid
    <3> QED BY <3>1 DEF Spliced
  <2> HIDE DEF mid
  <2>3. at \in 1..(Len(mid) + 1) /\ t <= Len(mid) /\ Len(mid) = N + h /\ (at < n \/ (n = at /\ d = 0))
    BY <1>1, <1>3, <2>2, <1>5
  <2>4. /\ out \in Seq(Lines) /\ Len(out) = Len(mid) + l - (t + 1 - at)
        /\ \A i \in 1..(at - 1) : out[i] = mid[i]
        /\ \A k \in 1..l : out[at - 1 + k] = L[k]
        /\ \A i \in (t + 1)..Len(mid) : out[i + l - (t + 1 - at)] = mid[i]
    <3>1. Spliced(Lines, mid, at, t, L, out)
      BY <1>3, <2>1, <2>2, <2>3, SpliceIs
    <3> QED BY <3>1 DEF Spliced
  <2> HIDE DEF N, h, l
  <2>5. /\ Len(out) = N + h + l - d
        /\ \A i \in (at + d)..(N + h) : out[i + l - d] = mid[i]
        /\ \A i \in n..N : mid[i + h] = code[i]
    BY <1>1, <1>3, <2>2, <2>3, <2>4
  <2>6. Placed(N, h, l, n, at, d, old, head, new)
    BY <1>1, <2>3, PlacedAbove
  <2>7. ASSUME NEW i \in 1..N, d = 0 \/ i # at PROVE out[old[i]] = code[i]
    <3>1. CASE i < at
      <4>1. old[i] = i /\ i \in 1..(n - 1) /\ i \in 1..(at - 1)
        BY <1>1, <2>3, <3>1
      <4> QED BY <4>1, <2>2, <2>4
    <3>2. CASE at <= i /\ i < n
      <4>1. old[i] = i + l - d /\ i \in (at + d)..(N + h) /\ i \in 1..(n - 1)
        BY <1>1, <2>3, <2>7, <3>2
      <4> QED BY <4>1, <2>2, <2>5
    <3>3. CASE at <= i /\ n <= i
      <4> DEFINE j == i + h
      <4>1. old[i] = j + l - d /\ j \in (at + d)..(N + h) /\ i \in n..N
        BY <1>1, <2>3, <2>7, <3>3
      <4>2. mid[j] = code[i]
        BY <4>1, <2>5
      <4> HIDE DEF j
      <4> QED BY <4>1, <4>2, <2>5
    <3> QED BY <3>1, <3>2, <3>3, <1>1
  <2>8. ASSUME NEW k \in 1..h PROVE out[head[k]] = H[k]
    <3> DEFINE j == n - 1 + k
    <3>1. head[k] = j + l - d /\ j \in (at + d)..(N + h) /\ mid[j] = H[k]
      BY <1>1, <2>3, <2>2
    <3> HIDE DEF j, head
    <3> QED BY <3>1, <2>5
  <2>9. \A k \in 1..l : out[new[k]] = L[k]
    BY <2>4
  <2>10. d = 1 => old[at] = new[a]
    BY <1>1, <2>3
  <2> HIDE DEF old, head, new
  <2>11. Edited(code, out, n, H, at, d, L, old, head, new)
    BY <2>4, <2>5, <2>6, <2>7, <2>8, <2>9 DEF Edited, N, h, l
  <2> QED BY <2>10, <2>11
<1> QED BY <1>4, <1>5

-----------------------------------------------------------------------------
(* Files, and the evidence in them                                         *)

\* A file as the scanner may meet it.
CodeOk(code) ==
  /\ code \in Seq(Lines)
  /\ \A i \in DOMAIN code : code[i].scope \subseteq Functions_(code)

\* Where a line is: functions around it are finitely many.
LEMMA ScopesAreFinite ==
  ASSUME NEW code, CodeOk(code)
  PROVE  /\ \A i \in DOMAIN code : IsFiniteSet(code[i].scope) /\ Cardinality(code[i].scope) \in Nat
         /\ \E b \in Nat : \A i \in DOMAIN code : Cardinality(code[i].scope) <= b
<1>1. IsFiniteSet(DOMAIN code)
  <2>1. DOMAIN code = 1..Len(code) /\ Len(code) \in Nat
    BY DEF CodeOk
  <2> QED BY <2>1, FS_Interval
<1>2. IsFiniteSet(Where(code, {"def"}))
  BY <1>1, FS_Subset DEF Where
<1>3. IsFiniteSet({code[i].name : i \in Where(code, {"def"})})
  <2> DEFINE D == Where(code, {"def"})
             F == [i \in D |-> code[i].name]
             G == {code[i].name : i \in D}
  <2>1. F \in Surjection(D, G)
    BY DEF Surjection
  <2> HIDE DEF D, F, G
  <2>2. IsFiniteSet(G)
    BY <2>1, <1>2, FS_Surjection DEF D
  <2> QED BY <2>2 DEF G, D
<1>4. IsFiniteSet(Functions_(code))
  BY <1>3 DEF Functions_
<1>5. \A i \in DOMAIN code : /\ IsFiniteSet(code[i].scope) /\ Cardinality(code[i].scope) \in Nat
                              /\ Cardinality(code[i].scope) <= Cardinality(Functions_(code))
  BY <1>4, FS_Subset, FS_CardinalityType DEF CodeOk
<1>6. Cardinality(Functions_(code)) \in Nat
  BY <1>4, FS_CardinalityType
<1> QED BY <1>5, <1>6

\* Some number of a set of natural numbers is its least.
LEMMA LeastOf ==
  ASSUME NEW T \in SUBSET Nat, T # {}
  PROVE  \E m \in T : \A k \in T : m <= k
<1>1. PICK R : IsWellFoundedOn(R, Nat) /\ \A k, m \in Nat : k < m => <<k, m>> \in R
  <2>1. IsWellFoundedOn(OpToRel(<, Nat), Nat)
    BY NatLessThanWellFounded
  <2>2. \A k, m \in Nat : k < m => <<k, m>> \in OpToRel(<, Nat)
    BY DEF OpToRel
  <2>3. QED
    BY <2>1, <2>2, Zenon
<1>2. IsWellFoundedOn(R, Nat) /\ T \subseteq Nat
  BY <1>1
<1>3. PICK m \in T : \A k \in T : ~(<<k, m>> \in R)
  BY <1>2, WFMin, Zenon
<1>4. \A k \in T : ~(k < m)
  BY <1>1, <1>3
<1> QED BY <1>3, <1>4

\* And some number its greatest, if there is a bound.
LEMMA GreatestOf ==
  ASSUME NEW T \in SUBSET Nat, T # {}, NEW b \in Nat, \A k \in T : k <= b
  PROVE  \E m \in T : \A k \in T : k <= m
<1> DEFINE U == {c \in Nat : \A k \in T : k <= c}
<1>1. U \in SUBSET Nat /\ U # {}
  OBVIOUS
<1>2. PICK m \in U : \A c \in U : m <= c
  <2> HIDE DEF U
  <2> QED BY <1>1, LeastOf
<1>3. SUFFICES ASSUME m \notin T PROVE FALSE
  BY <1>2
<1>4. \A k \in T : k < m
  BY <1>2, <1>3
<1>5. PICK k \in T : k < m
  BY <1>4
<1>6. m - 1 \in Nat /\ \A c \in T : c <= m - 1
  BY <1>2, <1>4, <1>5
<1> QED BY <1>2, <1>6

\* The first of some lines, as ast.walk meets them, exists.
LEMMA FirstWalkedIs ==
  ASSUME NEW code, CodeOk(code), NEW S \in SUBSET DOMAIN code, S # {}
  PROVE  FirstWalked(code, S) \in S /\ \A j \in S \ {FirstWalked(code, S)} : WalkedBefore(code, FirstWalked(code, S), j)
<1> DEFINE depth(i) == Cardinality(code[i].scope)
           T == {depth(i) : i \in S}
<1>1. \A i \in S : depth(i) \in Nat
  BY ScopesAreFinite
<1>2. S \subseteq Nat
  BY DEF CodeOk
<1>3. T \in SUBSET Nat /\ T # {}
  BY <1>1
<1>4. PICK c \in T : \A k \in T : c <= k
  <2> HIDE DEF T
  <2> QED BY <1>3, LeastOf
<1> DEFINE U == {i \in S : depth(i) = c}
<1>5. U \in SUBSET Nat /\ U # {}
  BY <1>2
<1>6. PICK m \in U : \A k \in U : m <= k
  <2> HIDE DEF U
  <2> QED BY <1>5, LeastOf
<1>7. m \in S /\ \A j \in S \ {m} : WalkedBefore(code, m, j)
  <2>1. m \in S /\ depth(m) = c
    OBVIOUS
  <2>2. ASSUME NEW j \in S \ {m} PROVE WalkedBefore(code, m, j)
    <3>1. c <= depth(j) /\ depth(j) \in Nat /\ c \in Nat /\ m \in Nat /\ j \in Nat
      BY <1>1, <1>2, <1>3, <1>4
    <3>2. CASE c < depth(j)
      BY <3>2, <2>1 DEF WalkedBefore
    <3>3. CASE c = depth(j)
      <4>1. j \in U
        BY <3>3
      <4>2. m < j
        BY <4>1, <1>6, <3>1
      <4> QED BY <4>2, <3>3, <2>1 DEF WalkedBefore
    <3> QED BY <3>1, <3>2, <3>3
  <2> QED BY <2>1, <2>2
<1> HIDE DEF depth, T, U
<1> QED BY <1>7 DEF FirstWalked

\* So does the last.
LEMMA LastWalkedIs ==
  ASSUME NEW code, CodeOk(code), NEW S \in SUBSET DOMAIN code, S # {}
  PROVE  LastWalked(code, S) \in S /\ \A j \in S \ {LastWalked(code, S)} : WalkedBefore(code, j, LastWalked(code, S))
<1> DEFINE depth(i) == Cardinality(code[i].scope)
           T == {depth(i) : i \in S}
<1>1. \A i \in S : depth(i) \in Nat
  BY ScopesAreFinite
<1>2. S \subseteq Nat /\ Len(code) \in Nat /\ \A i \in S : i <= Len(code)
  BY DEF CodeOk
<1>3. T \in SUBSET Nat /\ T # {}
  BY <1>1
<1>4. PICK c \in T : \A k \in T : k <= c
  <2>1. PICK b \in Nat : \A i \in DOMAIN code : Cardinality(code[i].scope) <= b
    BY ScopesAreFinite
  <2>2. \A k \in T : k <= b
    BY <2>1
  <2> HIDE DEF T
  <2> QED BY <1>3, <2>2, GreatestOf
<1> DEFINE U == {i \in S : depth(i) = c}
<1>5. U \in SUBSET Nat /\ U # {} /\ \A i \in U : i <= Len(code)
  BY <1>2
<1>6. PICK m \in U : \A k \in U : k <= m
  <2> HIDE DEF U
  <2> QED BY <1>2, <1>5, GreatestOf
<1>7. m \in S /\ \A j \in S \ {m} : WalkedBefore(code, j, m)
  <2>1. m \in S /\ depth(m) = c
    OBVIOUS
  <2>2. ASSUME NEW j \in S \ {m} PROVE WalkedBefore(code, j, m)
    <3>1. depth(j) <= c /\ depth(j) \in Nat /\ c \in Nat /\ m \in Nat /\ j \in Nat
      BY <1>1, <1>2, <1>3, <1>4
    <3>2. CASE depth(j) < c
      BY <3>2, <2>1 DEF WalkedBefore
    <3>3. CASE c = depth(j)
      <4>1. j \in U
        BY <3>3
      <4>2. j < m
        BY <4>1, <1>6, <3>1
      <4> QED BY <4>2, <3>3, <2>1 DEF WalkedBefore
    <3> QED BY <3>1, <3>2, <3>3
  <2> QED BY <2>1, <2>2
<1> HIDE DEF depth, T, U
<1> QED BY <1>7 DEF LastWalked

\* Evidence of each kind.
StartEv(e, file, i, f) == e = Ev("session_start", file, i, f, "")
TaskEv(e, file, i, f) == e = Ev("pipeline_task", file, i, f, "")
CallEv(e, file, i, f) == e = Ev("existing_cekura", file, i, f, "")
LibraryEv(e, file, i) == e = Ev("existing_cekura", file, i, "", "")
LiveKitEv(e, file, i, f) == e = Ev("entrypoint", file, i, f, "livekit")
PipecatEv(e, file, i, f) == e = Ev("entrypoint", file, i, f, "pipecat")
ImportEv(e, file, i, fw) == e = Ev("framework_import", file, i, "", fw)
DirectEv(e, file, i) == e = Ev("direct_observe", file, i, "", "")
DependencyEv(e, file) == e = Ev("dependency", file, 1, "", "")

\* The constructors of evidence differ by kind, and keep their fields.
LEMMA EvIs ==
  ASSUME NEW e
  PROVE  /\ \A file, i, f : StartEv(e, file, i, f) =>
               e.kind = "session_start" /\ e.file = file /\ e.line = i /\ e.fn = f /\ e.framework = ""
         /\ \A file, i, f : TaskEv(e, file, i, f) =>
               e.kind = "pipeline_task" /\ e.file = file /\ e.line = i /\ e.fn = f /\ e.framework = ""
         /\ \A file, i, f : CallEv(e, file, i, f) =>
               e.kind = "existing_cekura" /\ e.file = file /\ e.line = i /\ e.fn = f /\ e.framework = ""
         /\ \A file, i : LibraryEv(e, file, i) =>
               e.kind = "existing_cekura" /\ e.file = file /\ e.line = i /\ e.fn = "" /\ e.framework = ""
         /\ \A file, i, f : LiveKitEv(e, file, i, f) =>
               e.kind = "entrypoint" /\ e.file = file /\ e.line = i /\ e.fn = f /\ e.framework = "livekit"
         /\ \A file, i, f : PipecatEv(e, file, i, f) =>
               e.kind = "entrypoint" /\ e.file = file /\ e.line = i /\ e.fn = f /\ e.framework = "pipecat"
         /\ \A file, i, fw : ImportEv(e, file, i, fw) =>
               e.kind = "framework_import" /\ e.file = file /\ e.line = i /\ e.fn = "" /\ e.framework = fw
         /\ \A file, i : DirectEv(e, file, i) =>
               e.kind = "direct_observe" /\ e.file = file /\ e.line = i /\ e.fn = "" /\ e.framework = ""
         /\ \A file : DependencyEv(e, file) =>
               e.kind = "dependency" /\ e.file = file /\ e.line = 1 /\ e.fn = "" /\ e.framework = ""
<1>1. ASSUME NEW file, NEW i, NEW f, StartEv(e, file, i, f)
      PROVE  e.kind = "session_start" /\ e.file = file /\ e.line = i /\ e.fn = f /\ e.framework = ""
  BY <1>1 DEF StartEv, Ev
<1>2. ASSUME NEW file, NEW i, NEW f, TaskEv(e, file, i, f)
      PROVE  e.kind = "pipeline_task" /\ e.file = file /\ e.line = i /\ e.fn = f /\ e.framework = ""
  BY <1>2 DEF TaskEv, Ev
<1>3. ASSUME NEW file, NEW i, NEW f, CallEv(e, file, i, f)
      PROVE  e.kind = "existing_cekura" /\ e.file = file /\ e.line = i /\ e.fn = f /\ e.framework = ""
  BY <1>3 DEF CallEv, Ev
<1>4. ASSUME NEW file, NEW i, LibraryEv(e, file, i)
      PROVE  e.kind = "existing_cekura" /\ e.file = file /\ e.line = i /\ e.fn = "" /\ e.framework = ""
  BY <1>4 DEF LibraryEv, Ev
<1>5. ASSUME NEW file, NEW i, NEW f, LiveKitEv(e, file, i, f)
      PROVE  e.kind = "entrypoint" /\ e.file = file /\ e.line = i /\ e.fn = f /\ e.framework = "livekit"
  BY <1>5 DEF LiveKitEv, Ev
<1>6. ASSUME NEW file, NEW i, NEW f, PipecatEv(e, file, i, f)
      PROVE  e.kind = "entrypoint" /\ e.file = file /\ e.line = i /\ e.fn = f /\ e.framework = "pipecat"
  BY <1>6 DEF PipecatEv, Ev
<1>7. ASSUME NEW file, NEW i, NEW fw, ImportEv(e, file, i, fw)
      PROVE  e.kind = "framework_import" /\ e.file = file /\ e.line = i /\ e.fn = "" /\ e.framework = fw
  BY <1>7 DEF ImportEv, Ev
<1>8. ASSUME NEW file, NEW i, DirectEv(e, file, i)
      PROVE  e.kind = "direct_observe" /\ e.file = file /\ e.line = i /\ e.fn = "" /\ e.framework = ""
  BY <1>8 DEF DirectEv, Ev
<1>9. ASSUME NEW file, DependencyEv(e, file)
      PROVE  e.kind = "dependency" /\ e.file = file /\ e.line = 1 /\ e.fn = "" /\ e.framework = ""
  BY <1>9 DEF DependencyEv, Ev
<1> QED BY <1>1, <1>2, <1>3, <1>4, <1>5, <1>6, <1>7, <1>8, <1>9

\* The evidence of one function, written out as a union.
LEMMA FunctionEvidenceIs ==
  ASSUME NEW code, NEW file, NEW f, NEW e
  PROVE  e \in FunctionEvidence(code, file, f) <=>
           \/ \E i \in StartsIn(code, f) : StartEv(e, file, i, f)
           \/ \E i \in TasksIn(code, f) : TaskEv(e, file, i, f)
           \/ \E i \in InBody(code, f, TracerCalls \cup {"tracer"}) : CallEv(e, file, i, f)
BY DEF FunctionEvidence, StartEv, TaskEv, CallEv

\* The evidence of one file, written out as a union.
LEMMA FileEvidenceIs ==
  ASSUME NEW code, NEW file, NEW e
  PROVE  e \in FileEvidence(code, file) <=>
           (\/ \E f \in Functions_(code) : e \in FunctionEvidence(code, file, f)
            \/ \E i \in Where(code, {"def"}) :
                 IsLiveKitEntry(code, i) /\ LiveKitEv(e, file, i, code[i].name)
            \/ \E i \in Where(code, {"def"}) :
                 TasksIn(code, code[i].name) # {} /\ PipecatEv(e, file, i, code[i].name)
            \/ \E i \in Where(code, {"import"}) :
                 code[i].name \in {"livekit", "pipecat"} /\ ImportEv(e, file, i, code[i].name)
            \/ \E i \in Where(code, {"import"}) :
                 code[i].name \in Tracers \cup {"cekura"} /\ LibraryEv(e, file, i)
            \/ \E i \in Where(code, {"direct_observe"}) : DirectEv(e, file, i))
<1> DEFINE A == UNION {FunctionEvidence(code, file, code[i].name) : i \in Where(code, {"def"})}
           B == {Ev("entrypoint", file, i, code[i].name, "livekit") :
                i \in {j \in Where(code, {"def"}) : IsLiveKitEntry(code, j)}}
           C == {Ev("entrypoint", file, i, code[i].name, "pipecat") :
                i \in {j \in Where(code, {"def"}) : TasksIn(code, code[j].name) # {}}}
           D == {Ev("framework_import", file, i, "", code[i].name) :
                i \in {j \in Where(code, {"import"}) : code[j].name \in {"livekit", "pipecat"}}}
           E == {Ev("existing_cekura", file, i, "", "") :
                i \in {j \in Where(code, {"import"}) : code[j].name \in Tracers \cup {"cekura"}}}
           F == {Ev("direct_observe", file, i, "", "") : i \in Where(code, {"direct_observe"})}
<1>1. FileEvidence(code, file) = A \cup B \cup C \cup D \cup E \cup F
  BY DEF FileEvidence
<1>2. e \in A <=> \E f \in Functions_(code) : e \in FunctionEvidence(code, file, f)
  BY DEF Functions_
<1>3. e \in B <=> \E i \in Where(code, {"def"}) :
                 IsLiveKitEntry(code, i) /\ LiveKitEv(e, file, i, code[i].name)
  BY DEF LiveKitEv
<1>4. e \in C <=> \E i \in Where(code, {"def"}) :
                 TasksIn(code, code[i].name) # {} /\ PipecatEv(e, file, i, code[i].name)
  BY DEF PipecatEv
<1>5. e \in D <=> \E i \in Where(code, {"import"}) :
                 code[i].name \in {"livekit", "pipecat"} /\ ImportEv(e, file, i, code[i].name)
  BY DEF ImportEv
<1>6. e \in E <=> \E i \in Where(code, {"import"}) :
                 code[i].name \in Tracers \cup {"cekura"} /\ LibraryEv(e, file, i)
  BY DEF LibraryEv
<1>7. e \in F <=> \E i \in Where(code, {"direct_observe"}) : DirectEv(e, file, i)
  BY DEF DirectEv
<1> HIDE DEF A, B, C, D, E, F
<1> QED BY <1>1, <1>2, <1>3, <1>4, <1>5, <1>6, <1>7

\* The scanner sees a dependency in a manifest.
ManifestSays(r, m) ==
    TextOf(r, m) \cap {"framework", "cekura"} # {} /\ (m \in Tomls => "garbage" \notin TextOf(r, m))

\* The evidence of a repository: its files' and its manifests'.
LEMMA EvidenceIs ==
  ASSUME NEW r, NEW e
  PROVE  e \in Evidence(r) <=>
           \/ \E file \in DOMAIN r.code : Readable(r, file) /\ e \in FileEvidence(r.code[file], file)
           \/ \E m \in ToSet(Manifests) : ManifestSays(r, m) /\ DependencyEv(e, m)
<1>1. e \in ManifestEvidence(r) <=> \E m \in ToSet(Manifests) : ManifestSays(r, m) /\ DependencyEv(e, m)
  BY DEF ManifestEvidence, ManifestSays, DependencyEv
<1> QED BY <1>1 DEF Evidence

\* Evidence of a session start stands for a start call in a function.
LEMMA StartEvidence ==
  ASSUME NEW r, NEW e
  PROVE  e \in OfKind(r, "session_start") <=>
           \E file \in DOMAIN r.code : /\ Readable(r, file) /\ file \notin ScannerTests
             /\ \E f \in Functions_(r.code[file]) : \E i \in StartsIn(r.code[file], f) : StartEv(e, file, i, f)
<1> DEFINE Here(file) == \E f \in Functions_(r.code[file]) : \E i \in StartsIn(r.code[file], f) : StartEv(e, file, i, f)
<1>1. ASSUME NEW file PROVE e.kind = "session_start" =>
        (e \in FileEvidence(r.code[file], file) <=> Here(file))
  <2> SUFFICES ASSUME e.kind = "session_start"
               PROVE  e \in FileEvidence(r.code[file], file) <=> Here(file)
    OBVIOUS
  <2>1. \A i, f : ~(TaskEv(e, file, i, f) \/ CallEv(e, file, i, f) \/ LiveKitEv(e, file, i, f) \/ PipecatEv(e, file, i, f) \/ ImportEv(e, file, i, f) \/ LibraryEv(e, file, i) \/ DirectEv(e, file, i))
    BY EvIs
  <2>2. \A f : e \in FunctionEvidence(r.code[file], file, f) <=> \E i \in StartsIn(r.code[file], f) : StartEv(e, file, i, f)
    BY <2>1, FunctionEvidenceIs
  <2> QED BY <2>1, <2>2, FileEvidenceIs
<1>2. ASSUME NEW file, Here(file) PROVE e.kind = "session_start" /\ e.file = file
  BY <1>2, EvIs
<1>3. \A m : DependencyEv(e, m) => e.kind # "session_start"
  BY EvIs
<1> HIDE DEF Here
<1>4. e \in OfKind(r, "session_start") <=> \E file \in DOMAIN r.code : Readable(r, file) /\ file \notin ScannerTests /\ Here(file)
  BY <1>1, <1>2, <1>3, EvidenceIs DEF OfKind, Rejected
<1> QED BY <1>4 DEF Here

\* Evidence of a pipeline task stands for a task line in a function.
LEMMA TaskEvidence ==
  ASSUME NEW r, NEW e
  PROVE  e \in OfKind(r, "pipeline_task") <=>
           \E file \in DOMAIN r.code : /\ Readable(r, file) /\ file \notin ScannerTests
             /\ \E f \in Functions_(r.code[file]) : \E i \in TasksIn(r.code[file], f) : TaskEv(e, file, i, f)
<1> DEFINE Here(file) == \E f \in Functions_(r.code[file]) : \E i \in TasksIn(r.code[file], f) : TaskEv(e, file, i, f)
<1>1. ASSUME NEW file PROVE e.kind = "pipeline_task" =>
        (e \in FileEvidence(r.code[file], file) <=> Here(file))
  <2> SUFFICES ASSUME e.kind = "pipeline_task"
               PROVE  e \in FileEvidence(r.code[file], file) <=> Here(file)
    OBVIOUS
  <2>1. \A i, f : ~(StartEv(e, file, i, f) \/ CallEv(e, file, i, f) \/ LiveKitEv(e, file, i, f) \/ PipecatEv(e, file, i, f) \/ ImportEv(e, file, i, f) \/ LibraryEv(e, file, i) \/ DirectEv(e, file, i))
    BY EvIs
  <2>2. \A f : e \in FunctionEvidence(r.code[file], file, f) <=> \E i \in TasksIn(r.code[file], f) : TaskEv(e, file, i, f)
    BY <2>1, FunctionEvidenceIs
  <2> QED BY <2>1, <2>2, FileEvidenceIs
<1>2. ASSUME NEW file, Here(file) PROVE e.kind = "pipeline_task" /\ e.file = file
  BY <1>2, EvIs
<1>3. \A m : DependencyEv(e, m) => e.kind # "pipeline_task"
  BY EvIs
<1> HIDE DEF Here
<1>4. e \in OfKind(r, "pipeline_task") <=> \E file \in DOMAIN r.code : Readable(r, file) /\ file \notin ScannerTests /\ Here(file)
  BY <1>1, <1>2, <1>3, EvidenceIs DEF OfKind, Rejected
<1> QED BY <1>4 DEF Here

\* Evidence of an entrypoint stands for a walked entry line.
LEMMA EntryEvidence ==
  ASSUME NEW r, NEW e
  PROVE  e \in OfKind(r, "entrypoint") <=>
           \E file \in DOMAIN r.code : /\ Readable(r, file) /\ file \notin ScannerTests
             /\ \E i \in Where(r.code[file], {"def"}) :
                  (IsLiveKitEntry(r.code[file], i) /\ LiveKitEv(e, file, i, r.code[file][i].name))
                  \/ (TasksIn(r.code[file], r.code[file][i].name) # {} /\ PipecatEv(e, file, i, r.code[file][i].name))
<1> DEFINE Here(file) == \E i \in Where(r.code[file], {"def"}) :
                  (IsLiveKitEntry(r.code[file], i) /\ LiveKitEv(e, file, i, r.code[file][i].name))
                  \/ (TasksIn(r.code[file], r.code[file][i].name) # {} /\ PipecatEv(e, file, i, r.code[file][i].name))
<1>1. ASSUME NEW file PROVE e.kind = "entrypoint" =>
        (e \in FileEvidence(r.code[file], file) <=> Here(file))
  <2> SUFFICES ASSUME e.kind = "entrypoint"
               PROVE  e \in FileEvidence(r.code[file], file) <=> Here(file)
    OBVIOUS
  <2>1. \A i, f : ~(StartEv(e, file, i, f) \/ TaskEv(e, file, i, f) \/ CallEv(e, file, i, f) \/ ImportEv(e, file, i, f) \/ LibraryEv(e, file, i) \/ DirectEv(e, file, i))
    BY EvIs
  <2>2. \A f : e \notin FunctionEvidence(r.code[file], file, f)
    BY <2>1, FunctionEvidenceIs
  <2> QED BY <2>1, <2>2, FileEvidenceIs
<1>2. ASSUME NEW file, Here(file) PROVE e.kind = "entrypoint" /\ e.file = file
  <2>1. PICK i, f : LiveKitEv(e, file, i, f) \/ PipecatEv(e, file, i, f)
    BY <1>2
  <2>2. CASE LiveKitEv(e, file, i, f)
    BY <2>2, EvIs
  <2>3. CASE PipecatEv(e, file, i, f)
    BY <2>3, EvIs
  <2> QED BY <2>1, <2>2, <2>3
<1>3. \A m : DependencyEv(e, m) => e.kind # "entrypoint"
  BY EvIs
<1> HIDE DEF Here
<1>4. e \in OfKind(r, "entrypoint") <=> \E file \in DOMAIN r.code : Readable(r, file) /\ file \notin ScannerTests /\ Here(file)
  BY <1>1, <1>2, <1>3, EvidenceIs DEF OfKind, Rejected
<1> QED BY <1>4 DEF Here

\* Evidence of existing Cekura stands for a tracer call or its import.
LEMMA ExistingEvidence ==
  ASSUME NEW r, NEW e
  PROVE  e \in OfKind(r, "existing_cekura") <=>
           \E file \in DOMAIN r.code : /\ Readable(r, file)
             /\ ((\E f \in Functions_(r.code[file]) : \E i \in InBody(r.code[file], f, TracerCalls \cup {"tracer"}) : CallEv(e, file, i, f))
                 \/ (\E i \in Where(r.code[file], {"import"}) :
                      r.code[file][i].name \in Tracers \cup {"cekura"} /\ LibraryEv(e, file, i)))
<1> DEFINE Here(file) == ((\E f \in Functions_(r.code[file]) : \E i \in InBody(r.code[file], f, TracerCalls \cup {"tracer"}) : CallEv(e, file, i, f))
                 \/ (\E i \in Where(r.code[file], {"import"}) :
                      r.code[file][i].name \in Tracers \cup {"cekura"} /\ LibraryEv(e, file, i)))
<1>1. ASSUME NEW file PROVE e.kind = "existing_cekura" =>
        (e \in FileEvidence(r.code[file], file) <=> Here(file))
  <2> SUFFICES ASSUME e.kind = "existing_cekura"
               PROVE  e \in FileEvidence(r.code[file], file) <=> Here(file)
    OBVIOUS
  <2>1. \A i, f : ~(StartEv(e, file, i, f) \/ TaskEv(e, file, i, f) \/ LiveKitEv(e, file, i, f) \/ PipecatEv(e, file, i, f) \/ ImportEv(e, file, i, f) \/ DirectEv(e, file, i))
    BY EvIs
  <2>2. \A f : e \in FunctionEvidence(r.code[file], file, f) <=> \E i \in InBody(r.code[file], f, TracerCalls \cup {"tracer"}) : CallEv(e, file, i, f)
    BY <2>1, FunctionEvidenceIs
  <2> QED BY <2>1, <2>2, FileEvidenceIs
<1>2. ASSUME NEW file, Here(file) PROVE e.kind = "existing_cekura" /\ e.file = file
  BY <1>2, EvIs
<1>3. \A m : DependencyEv(e, m) => e.kind # "existing_cekura"
  BY EvIs
<1> HIDE DEF Here
<1>4. e \in OfKind(r, "existing_cekura") <=> \E file \in DOMAIN r.code : Readable(r, file) /\ Here(file)
  BY <1>1, <1>2, <1>3, EvidenceIs DEF OfKind, Rejected
<1> QED BY <1>4 DEF Here

\* Evidence of a framework stands for an import of it.
LEMMA ImportEvidence ==
  ASSUME NEW r, NEW e
  PROVE  e \in OfKind(r, "framework_import") <=>
           \E file \in DOMAIN r.code : /\ Readable(r, file)
             /\ \E i \in Where(r.code[file], {"import"}) :
                  r.code[file][i].name \in {"livekit", "pipecat"} /\ ImportEv(e, file, i, r.code[file][i].name)
<1> DEFINE Here(file) == \E i \in Where(r.code[file], {"import"}) :
                  r.code[file][i].name \in {"livekit", "pipecat"} /\ ImportEv(e, file, i, r.code[file][i].name)
<1>1. ASSUME NEW file PROVE e.kind = "framework_import" =>
        (e \in FileEvidence(r.code[file], file) <=> Here(file))
  <2> SUFFICES ASSUME e.kind = "framework_import"
               PROVE  e \in FileEvidence(r.code[file], file) <=> Here(file)
    OBVIOUS
  <2>1. \A i, f : ~(StartEv(e, file, i, f) \/ TaskEv(e, file, i, f) \/ CallEv(e, file, i, f) \/ LiveKitEv(e, file, i, f) \/ PipecatEv(e, file, i, f) \/ LibraryEv(e, file, i) \/ DirectEv(e, file, i))
    BY EvIs
  <2>2. \A f : e \notin FunctionEvidence(r.code[file], file, f)
    BY <2>1, FunctionEvidenceIs
  <2> QED BY <2>1, <2>2, FileEvidenceIs
<1>2. ASSUME NEW file, Here(file) PROVE e.kind = "framework_import" /\ e.file = file
  BY <1>2, EvIs
<1>3. \A m : DependencyEv(e, m) => e.kind # "framework_import"
  BY EvIs
<1> HIDE DEF Here
<1>4. e \in OfKind(r, "framework_import") <=> \E file \in DOMAIN r.code : Readable(r, file) /\ Here(file)
  BY <1>1, <1>2, <1>3, EvidenceIs DEF OfKind, Rejected
<1> QED BY <1>4 DEF Here

\* Evidence of direct observation stands for a line of that kind.
LEMMA DirectEvidence ==
  ASSUME NEW r, NEW e
  PROVE  e \in OfKind(r, "direct_observe") <=>
           \E file \in DOMAIN r.code : /\ Readable(r, file)
             /\ \E i \in Where(r.code[file], {"direct_observe"}) : DirectEv(e, file, i)
<1> DEFINE Here(file) == \E i \in Where(r.code[file], {"direct_observe"}) : DirectEv(e, file, i)
<1>1. ASSUME NEW file PROVE e.kind = "direct_observe" =>
        (e \in FileEvidence(r.code[file], file) <=> Here(file))
  <2> SUFFICES ASSUME e.kind = "direct_observe"
               PROVE  e \in FileEvidence(r.code[file], file) <=> Here(file)
    OBVIOUS
  <2>1. \A i, f : ~(StartEv(e, file, i, f) \/ TaskEv(e, file, i, f) \/ CallEv(e, file, i, f) \/ LiveKitEv(e, file, i, f) \/ PipecatEv(e, file, i, f) \/ ImportEv(e, file, i, f) \/ LibraryEv(e, file, i))
    BY EvIs
  <2>2. \A f : e \notin FunctionEvidence(r.code[file], file, f)
    BY <2>1, FunctionEvidenceIs
  <2> QED BY <2>1, <2>2, FileEvidenceIs
<1>2. ASSUME NEW file, Here(file) PROVE e.kind = "direct_observe" /\ e.file = file
  BY <1>2, EvIs
<1>3. \A m : DependencyEv(e, m) => e.kind # "direct_observe"
  BY EvIs
<1> HIDE DEF Here
<1>4. e \in OfKind(r, "direct_observe") <=> \E file \in DOMAIN r.code : Readable(r, file) /\ Here(file)
  BY <1>1, <1>2, <1>3, EvidenceIs DEF OfKind, Rejected
<1> QED BY <1>4 DEF Here

\* Evidence of a dependency stands for a manifest that declares it.
LEMMA DependencyEvidence ==
  ASSUME NEW r, NEW e, e \in OfKind(r, "dependency")
  PROVE  e.file \in ToSet(Manifests)
<1>1. ASSUME NEW file PROVE e \notin FileEvidence(r.code[file], file)
  <2>1. e.kind = "dependency"
    BY DEF OfKind
  <2>2. \A i, f : ~(StartEv(e, file, i, f) \/ TaskEv(e, file, i, f) \/ CallEv(e, file, i, f) \/ LiveKitEv(e, file, i, f) \/ PipecatEv(e, file, i, f) \/ ImportEv(e, file, i, f) \/ LibraryEv(e, file, i) \/ DirectEv(e, file, i))
    BY <2>1, EvIs
  <2>3. \A f : e \notin FunctionEvidence(r.code[file], file, f)
    BY <2>2, FunctionEvidenceIs
  <2> QED BY <2>2, <2>3, FileEvidenceIs
<1>2. \E m \in ToSet(Manifests) : DependencyEv(e, m)
  BY <1>1, EvidenceIs DEF OfKind
<1> QED BY <1>2, EvIs


-----------------------------------------------------------------------------
(* The gate                                                                *)

\* The framework that is seen, or none or both.
LEMMA FrameworkIs ==
  ASSUME NEW r
  PROVE  Framework(r) \in {"none", "both", "livekit", "pipecat"}
<1>1. \A e \in OfKind(r, "framework_import") : e.framework \in {"livekit", "pipecat"}
  <2> SUFFICES ASSUME NEW e \in OfKind(r, "framework_import") PROVE e.framework \in {"livekit", "pipecat"}
    OBVIOUS
  <2>1. PICK file \in DOMAIN r.code : \E i \in Where(r.code[file], {"import"}) :
          r.code[file][i].name \in {"livekit", "pipecat"} /\ ImportEv(e, file, i, r.code[file][i].name)
    BY ImportEvidence
  <2>2. PICK name : name \in {"livekit", "pipecat"} /\ \E i : ImportEv(e, file, i, name)
    BY <2>1
  <2>3. e.framework = name
    BY <2>2, EvIs
  <2> QED BY <2>2, <2>3
<1>2. Seen(r) \subseteq {"livekit", "pipecat"}
  BY <1>1 DEF Seen
<1>3. Seen(r) # {} => (CHOOSE fw \in Seen(r) : TRUE) \in Seen(r)
  OBVIOUS
<1> QED BY <1>2, <1>3 DEF Framework

\* What the capability matrix asks of the evidence of one framework.
SupportedFacts(r) ==
  LET fw == Framework(r)
      entries == Entries(r, fw)
      tasks == OfKind(r, "pipeline_task")
  IN  /\ fw \in {"livekit", "pipecat"}
      /\ entries # {} /\ ~(Cardinality(entries) > 1)
      /\ fw = "livekit" => \A e \in entries : StartsIn(r.code[e.file], e.fn) # {}
      /\ fw = "pipecat" => /\ \A e \in entries : PairInPipeline(r.code[e.file], e.fn)
                           /\ \E t \in tasks : LineOf(r, t).op # "pipeline_worker"
      /\ OfKind(r, "direct_observe") = {}

\* The first demotion that holds is the last of all if no other holds.
LEMMA FirstThatIsLast ==
  ASSUME NEW D, NEW n \in Nat \ {0}, DOMAIN D = 1..n, D[n][1], D[n][2] = "OK",
         \A i \in (1..n) \ {n} : D[i][2] # "OK"
  PROVE  FirstThat(D) = "OK" <=> \A i \in (1..n) \ {n} : ~D[i][1]
<1> DEFINE T == {i \in DOMAIN D : D[i][1]}
<1>1. n \in T /\ T \in SUBSET Nat /\ \A i : i \in T <=> i \in 1..n /\ D[i][1]
  OBVIOUS
<1> HIDE DEF T
<1>2. PICK m \in T : \A k \in T : m <= k
  BY <1>1, LeastOf
<1>3. Min(T) = m
  <2>1. Min(T) \in T /\ \A y \in T : Min(T) <= y
    BY <1>2 DEF Min
  <2>2. Min(T) \in Nat /\ m \in Nat /\ Min(T) <= m /\ m <= Min(T)
    BY <1>1, <1>2, <2>1
  <2> QED BY <2>2
<1>4. FirstThat(D) = D[m][2]
  BY <1>3 DEF FirstThat, T
<1>5. m \in 1..n /\ m \in Nat /\ D[m][1]
  BY <1>1, <1>2
<1>6. D[m][2] = "OK" <=> m = n
  BY <1>5
<1>7. m = n => \A i \in (1..n) \ {n} : ~D[i][1]
  <2> SUFFICES ASSUME m = n, NEW i \in (1..n) \ {n}, D[i][1] PROVE FALSE
    OBVIOUS
  <2>1. i \in T /\ i < m
    BY <1>1
  <2> QED BY <2>1, <1>2, <1>5
<1>8. m # n => ~\A i \in (1..n) \ {n} : ~D[i][1]
  BY <1>5
<1> QED BY <1>4, <1>6, <1>7, <1>8

\* A supported repository has exactly the evidence its row asks for.
LEMMA SupportedIs ==
  ASSUME NEW r
  PROVE  Supported(r) <=> SupportedFacts(r)
<1> DEFINE fw == Framework(r)
           entries == Entries(r, fw)
           single == fw \in {"livekit", "pipecat"}
           tasks == OfKind(r, "pipeline_task")
           d1 == fw = "none"
           d2 == fw = "both"
           d3 == single /\ entries = {}
           d4 == single /\ Cardinality(entries) > 1
           d5 == fw = "livekit" /\ \E e \in entries : StartsIn(r.code[e.file], e.fn) = {}
           d6 == fw = "pipecat" /\ \E e \in entries : ~PairInPipeline(r.code[e.file], e.fn)
           d7 == fw = "pipecat" /\ tasks = {}
           d8 == fw = "pipecat" /\ \A t \in tasks : LineOf(r, t).op = "pipeline_worker"
           d9 == OfKind(r, "direct_observe") # {}
<1>1. PICK D : D = Demotions(r)
  OBVIOUS
<1>2. /\ DOMAIN D = 1..10 /\ D[10][1] /\ D[10][2] = "OK"
      /\ \A i \in {1, 2, 3, 4, 5, 6, 7, 8, 9} : D[i][2] # "OK"
  BY <1>1 DEF Demotions
<1>3. Supported(r) <=> ~(d1 \/ d2 \/ d3 \/ d4 \/ d5 \/ d6 \/ d7 \/ d8 \/ d9)
  <2>1. /\ D[1][1] <=> d1
        /\ D[2][1] <=> d2
        /\ D[3][1] <=> d3
        /\ D[4][1] <=> d4
        /\ D[5][1] <=> d5
        /\ D[6][1] <=> d6
        /\ D[7][1] <=> d7
        /\ D[8][1] <=> d8
        /\ D[9][1] <=> d9
    BY <1>1 DEF Demotions
  <2> HIDE DEF d1, d2, d3, d4, d5, d6, d7, d8, d9
  <2>2. (1..10) \ {10} = {1, 2, 3, 4, 5, 6, 7, 8, 9}
    OBVIOUS
  <2>3. FirstThat(D) = "OK" <=> \A i \in (1..10) \ {10} : ~D[i][1]
    <3>1. 10 \in Nat \ {0}
      OBVIOUS
    <3>2. \A i \in (1..10) \ {10} : D[i][2] # "OK"
      BY <1>2, <2>2
    <3> HIDE <2>2
    <3> QED BY <1>2, <3>1, <3>2, FirstThatIsLast
  <2>4. FirstThat(D) = "OK" <=> \A i \in {1, 2, 3, 4, 5, 6, 7, 8, 9} : ~D[i][1]
    BY <2>2, <2>3
  <2>5. FirstThat(D) = "OK" <=> ~(d1 \/ d2 \/ d3 \/ d4 \/ d5 \/ d6 \/ d7 \/ d8 \/ d9)
    BY <2>1, <2>4
  <2> QED BY <1>1, <2>5 DEF Supported, Decision
<1>4. fw \in {"none", "both", "livekit", "pipecat"}
  BY FrameworkIs
<1> QED BY <1>3, <1>4 DEF SupportedFacts

-----------------------------------------------------------------------------
(* Entrypoints                                                             *)

\* Line i of the file is an entrypoint of the framework.
EntryAt(r, fw, file, i) ==
  /\ file \in DOMAIN r.code /\ file \notin ScannerTests /\ Readable(r, file)
  /\ i \in Where(r.code[file], {"def"})
  /\ \/ fw = "livekit" /\ IsLiveKitEntry(r.code[file], i)
     \/ fw = "pipecat" /\ TasksIn(r.code[file], r.code[file][i].name) # {}

\* An entry in the evidence is an entry line of a function.
LEMMA EntryIs ==
  ASSUME NEW r, NEW fw, NEW e \in Entries(r, fw)
  PROVE  /\ EntryAt(r, fw, e.file, e.line) /\ e.fn = r.code[e.file][e.line].name
         /\ fw = "livekit" => LiveKitEv(e, e.file, e.line, e.fn)
         /\ fw # "livekit" => PipecatEv(e, e.file, e.line, e.fn)
<1>1. e \in OfKind(r, "entrypoint") /\ e.framework = fw
  BY DEF Entries
<1>2. PICK file, i, f :
        /\ file \in DOMAIN r.code /\ i \in Where(r.code[file], {"def"})
        /\ Readable(r, file) /\ file \notin ScannerTests /\ f = r.code[file][i].name
        /\ (IsLiveKitEntry(r.code[file], i) /\ LiveKitEv(e, file, i, f))
           \/ (TasksIn(r.code[file], f) # {} /\ PipecatEv(e, file, i, f))
  BY <1>1, EntryEvidence
<1>3. CASE IsLiveKitEntry(r.code[file], i) /\ LiveKitEv(e, file, i, f)
  <2>1. e.file = file /\ e.line = i /\ e.fn = f /\ fw = "livekit"
    BY <1>1, <1>3, EvIs
  <2> QED BY <1>2, <1>3, <2>1 DEF EntryAt
<1>4. CASE TasksIn(r.code[file], f) # {} /\ PipecatEv(e, file, i, f)
  <2>1. e.file = file /\ e.line = i /\ e.fn = f /\ fw = "pipecat"
    BY <1>1, <1>4, EvIs
  <2> QED BY <1>2, <1>4, <2>1 DEF EntryAt
<1> QED BY <1>2, <1>3, <1>4

\* An entry line of a function is in the evidence.
LEMMA EntryIn ==
  ASSUME NEW r, NEW fw, NEW file, NEW i, EntryAt(r, fw, file, i)
  PROVE  \E e \in Entries(r, fw) : e.file = file /\ e.line = i /\ e.fn = r.code[file][i].name
<1> DEFINE f == r.code[file][i].name
<1>1. CASE fw = "livekit" /\ IsLiveKitEntry(r.code[file], i)
  <2>1. PICK e : LiveKitEv(e, file, i, f)
    BY DEF LiveKitEv
  <2>2. e \in OfKind(r, "entrypoint")
    BY <1>1, <2>1, EntryEvidence DEF EntryAt
  <2>3. e.file = file /\ e.line = i /\ e.fn = f /\ e.framework = "livekit"
    <3> HIDE DEF f
    <3> QED BY <2>1, EvIs
  <2> QED BY <1>1, <2>2, <2>3 DEF Entries
<1>2. CASE fw = "pipecat" /\ TasksIn(r.code[file], f) # {}
  <2>1. PICK e : PipecatEv(e, file, i, f)
    BY DEF PipecatEv
  <2>2. e \in OfKind(r, "entrypoint")
    BY <1>2, <2>1, EntryEvidence DEF EntryAt
  <2>3. e.file = file /\ e.line = i /\ e.fn = f /\ e.framework = "pipecat"
    <3> HIDE DEF f
    <3> QED BY <2>1, EvIs
  <2> QED BY <1>2, <2>2, <2>3 DEF Entries
<1> QED BY <1>1, <1>2 DEF EntryAt

\* Entrypoints are at different lines.
LEMMA EntriesDiffer ==
  ASSUME NEW r, NEW fw, NEW e \in Entries(r, fw), NEW d \in Entries(r, fw),
         e.file = d.file, e.line = d.line
  PROVE  e = d
<1>1. e.fn = d.fn
  BY EntryIs
<1>2. CASE fw = "livekit"
  <2>1. LiveKitEv(e, e.file, e.line, e.fn) /\ LiveKitEv(d, e.file, e.line, e.fn)
    BY <1>1, <1>2, EntryIs
  <2> QED BY <2>1 DEF LiveKitEv
<1>3. CASE fw # "livekit"
  <2>1. PipecatEv(e, e.file, e.line, e.fn) /\ PipecatEv(d, e.file, e.line, e.fn)
    BY <1>1, <1>3, EntryIs
  <2> QED BY <2>1 DEF PipecatEv
<1> QED BY <1>2, <1>3

\* The file of an entry is a file of the repository.
LEMMA FileIs ==
  ASSUME NEW r, WellFormed(r), NEW file \in DOMAIN r.code
  PROVE  CodeOk(r.code[file]) /\ IsFiniteSet(DOMAIN r.code[file])
<1>1. CodeOk(r.code[file])
  BY DEF WellFormed, CodeOk
<1>2. DOMAIN r.code[file] = 1..Len(r.code[file]) /\ Len(r.code[file]) \in Nat
  BY <1>1 DEF CodeOk
<1> QED BY <1>1, <1>2, FS_Interval

\* A repository has finitely many entries.
LEMMA EntriesAreFinite ==
  ASSUME NEW r, WellFormed(r), NEW fw
  PROVE  IsFiniteSet(Entries(r, fw))
<1> DEFINE here(file) == {e \in Entries(r, fw) : e.file = file}
           H == {here(file) : file \in DOMAIN r.code}
<1>1. ASSUME NEW file \in DOMAIN r.code PROVE IsFiniteSet(here(file))
  <2> DEFINE lineOf == [e \in here(file) |-> e.line]
  <2>1. \A e \in here(file) : e.line \in DOMAIN r.code[file]
    BY EntryIs DEF EntryAt, Where
  <2>2. lineOf \in Injection(here(file), DOMAIN r.code[file])
    <3>1. lineOf \in [here(file) -> DOMAIN r.code[file]]
      BY <2>1
    <3>2. \A e, d \in here(file) : lineOf[e] = lineOf[d] => e = d
      BY EntriesDiffer
    <3> QED BY <3>1, <3>2 DEF Injection, IsInjective
  <2> HIDE DEF lineOf, here
  <2> QED BY <2>2, <1>1, FileIs, FS_Injection
<1>2. IsFiniteSet(H)
  <2> DEFINE F == [file \in DOMAIN r.code |-> here(file)]
  <2>1. F \in Surjection(DOMAIN r.code, H)
    BY DEF Surjection
  <2>2. IsFiniteSet(DOMAIN r.code)
    BY DEF WellFormed
  <2> HIDE DEF F, H
  <2> QED BY <2>1, <2>2, FS_Surjection
<1>3. IsFiniteSet(UNION H)
  BY <1>1, <1>2, FS_UNION
<1>4. Entries(r, fw) \subseteq UNION H
  BY EntryIs DEF EntryAt
<1> QED BY <1>3, <1>4, FS_Subset

\* A supported repository has one entrypoint.
LEMMA OneEntry ==
  ASSUME NEW r, WellFormed(r), Supported(r)
  PROVE  \E e : Entries(r, Framework(r)) = {e}
<1> DEFINE E == Entries(r, Framework(r))
<1>1. E # {} /\ ~(Cardinality(E) > 1)
  BY SupportedIs DEF SupportedFacts
<1>2. IsFiniteSet(E)
  BY EntriesAreFinite
<1> HIDE DEF E
<1>3. Cardinality(E) \in Nat /\ Cardinality(E) # 0
  BY <1>1, <1>2, FS_CardinalityType, FS_EmptySet
<1>4. Cardinality(E) = 1
  BY <1>1, <1>3
<1>5. \E e : E = {e}
  BY <1>2, <1>4, FS_Singleton
<1> QED BY <1>5 DEF E

-----------------------------------------------------------------------------
(* The lines that adapters anchor in                                       *)

\* The first of a nonempty finite set of lines is in it, and least.
LEMMA FirstOfIs ==
  ASSUME NEW r, WellFormed(r), NEW file \in DOMAIN r.code, NEW S, S # {},
         \A e \in S : e.file = file /\ e.line \in DOMAIN r.code[file],
         \A e, d \in S : e.line = d.line => e = d
  PROVE  FirstOf(r, S) \in S /\ \A d \in S \ {FirstOf(r, S)} : WalkedBefore(r.code[file], FirstOf(r, S).line, d.line)
<1> DEFINE T == {e.line : e \in S}
           i == FirstWalked(r.code[file], T)
<1>1. T \in SUBSET DOMAIN r.code[file] /\ T # {}
  OBVIOUS
<1>2. i \in T /\ \A j \in T \ {i} : WalkedBefore(r.code[file], i, j)
  <2> HIDE DEF T
  <2> QED BY <1>1, FileIs, FirstWalkedIs
<1>3. PICK e \in S : e.line = i
  BY <1>2
<1>4. \A d \in S \ {e} : WalkedBefore(r.code[e.file], e.line, d.line)
  <2> TAKE d \in S \ {e}
  <2>1. d.line \in T \ {i}
    BY <1>3
  <2> HIDE DEF T, i
  <2> QED BY <1>2, <1>3, <2>1
<1> HIDE DEF T, i
<1>5. \E x \in S : \A d \in S \ {x} : WalkedBefore(r.code[x.file], x.line, d.line)
  BY <1>4
<1>6. FirstOf(r, S) \in S /\ \A d \in S \ {FirstOf(r, S)} : WalkedBefore(r.code[FirstOf(r, S).file], FirstOf(r, S).line, d.line)
  BY <1>5, Zenon DEF FirstOf
<1> QED BY <1>6

\* The session start that a LiveKit agent is traced at.
LiveKitAnchor(r, file, start, at) ==
  LET code == r.code[file]
  IN  /\ file \in DOMAIN r.code /\ file \notin ScannerTests /\ Readable(r, file)
      /\ start.file = file /\ start.fn \in Functions_(code) /\ start.line \in StartsIn(code, start.fn)
      /\ \E e \in Entries(r, "livekit") : e.file = file /\ e.fn = start.fn
      /\ at \in InBody(code, start.fn, {"start"}) /\ code[at].name = code[start.line].name
      /\ \A i \in InBody(code, start.fn, {"start"}) \ {at} :
            code[i].name = code[at].name => WalkedBefore(code, at, i)

\* The LiveKit adapter anchors at a session start of the entry's function.
LEMMA LiveKitAnchorIs ==
  ASSUME NEW r, WellFormed(r), Supported(r), Framework(r) = "livekit", NEW file, AnchorStarts(r, file) # {},
         NEW start, start = FirstOf(r, AnchorStarts(r, file)),
         NEW at, at = FirstWalked(r.code[file],
                        {i \in InBody(r.code[file], start.fn, {"start"}) : r.code[file][i].name = LineOf(r, start).name})
  PROVE  LiveKitAnchor(r, file, start, at) /\ start \in AnchorStarts(r, file)
<1> DEFINE S == AnchorStarts(r, file)
           code == r.code[file]
<1>1. PICK entry : Entries(r, "livekit") = {entry}
  BY OneEntry
<1>2. ASSUME NEW e \in S
      PROVE  /\ file \in DOMAIN r.code /\ file \notin ScannerTests /\ Readable(r, file)
             /\ e.file = file /\ entry.file = file /\ e.fn = entry.fn
             /\ e.fn \in Functions_(code) /\ e.line \in StartsIn(code, e.fn)
             /\ StartEv(e, file, e.line, e.fn)
  <2>1. e \in OfKind(r, "session_start") /\ e.file = file /\ entry.file = file /\ e.fn = entry.fn
    BY <1>1 DEF AnchorStarts, AnchorEntries
  <2>2. PICK g, f, i : /\ g \in DOMAIN r.code /\ Readable(r, g) /\ g \notin ScannerTests
                       /\ f \in Functions_(r.code[g]) /\ i \in StartsIn(r.code[g], f) /\ StartEv(e, g, i, f)
    BY <2>1, StartEvidence
  <2>3. e.file = g /\ e.line = i /\ e.fn = f
    BY <2>2, EvIs
  <2> QED BY <2>1, <2>2, <2>3
<1>3. \A e \in S : e.line \in DOMAIN code
  BY <1>2 DEF StartsIn, InBody, Where
<1>4. \A e, d \in S : e.line = d.line => e = d
  <2> SUFFICES ASSUME NEW e \in S, NEW d \in S, e.line = d.line PROVE e = d
    OBVIOUS
  <2>1. StartEv(e, file, e.line, e.fn) /\ StartEv(d, file, e.line, e.fn)
    <3> HIDE DEF S
    <3> QED BY <1>2
  <2> QED BY <2>1 DEF StartEv
<1> HIDE DEF S
<1>5. file \in DOMAIN r.code /\ start \in S
  BY <1>2, <1>3, <1>4, FirstOfIs DEF S
<1>6. /\ at \in InBody(code, start.fn, {"start"}) /\ code[at].name = code[start.line].name
      /\ \A i \in InBody(code, start.fn, {"start"}) \ {at} :
            code[i].name = code[at].name => WalkedBefore(code, at, i)
  <2> DEFINE U == {i \in InBody(code, start.fn, {"start"}) : code[i].name = code[start.line].name}
  <2>1. start.line \in U /\ U \in SUBSET DOMAIN code
    BY <1>2, <1>5 DEF StartsIn, InBody, Where
  <2>2. at = FirstWalked(code, U)
    BY <1>2, <1>5 DEF LineOf
  <2>3. at \in U /\ \A i \in U \ {at} : WalkedBefore(code, at, i)
    <3>1. U # {} /\ CodeOk(code)
      BY <2>1, <1>5, FileIs
    <3> HIDE DEF U, code
    <3>2. FirstWalked(code, U) \in U /\ \A j \in U \ {FirstWalked(code, U)} : WalkedBefore(code, FirstWalked(code, U), j)
      BY <2>1, <3>1, FirstWalkedIs
    <3> QED BY <2>2, <3>2, Zenon
  <2> QED BY <2>3
<1> QED BY <1>1, <1>2, <1>5, <1>6 DEF LiveKitAnchor, S

\* The task that a Pipecat agent is traced at.
PipecatAnchor(r, file, task, at) ==
  LET code == r.code[file]
  IN  /\ file \in DOMAIN r.code /\ file \notin ScannerTests /\ Readable(r, file)
      /\ task.file = file /\ task.line = at /\ task.fn \in Functions_(code) /\ at \in TasksIn(code, task.fn)
      /\ \E e \in Entries(r, "pipecat") : e.file = file /\ e.fn = task.fn

\* The Pipecat adapter anchors at a pipeline task of the entry's function.
LEMMA PipecatAnchorIs ==
  ASSUME NEW r, WellFormed(r), Supported(r), Framework(r) = "pipecat", NEW file, AnchorTasks(r, file) # {},
         NEW task, task = FirstOf(r, AnchorTasks(r, file))
  PROVE  PipecatAnchor(r, file, task, task.line) /\ task \in AnchorTasks(r, file)
<1> DEFINE S == AnchorTasks(r, file)
           code == r.code[file]
<1>1. PICK entry : Entries(r, "pipecat") = {entry}
  BY OneEntry
<1>2. ASSUME NEW e \in S
      PROVE  /\ file \in DOMAIN r.code /\ file \notin ScannerTests /\ Readable(r, file)
             /\ e.file = file /\ entry.file = file /\ e.fn = entry.fn
             /\ e.fn \in Functions_(code) /\ e.line \in TasksIn(code, e.fn)
             /\ TaskEv(e, file, e.line, e.fn)
  <2>1. e \in OfKind(r, "pipeline_task") /\ e.file = file
    BY DEF AnchorTasks
  <2>2. PICK g, f, i : /\ g \in DOMAIN r.code /\ Readable(r, g) /\ g \notin ScannerTests
                       /\ f \in Functions_(r.code[g]) /\ i \in TasksIn(r.code[g], f) /\ TaskEv(e, g, i, f)
    BY <2>1, TaskEvidence
  <2>3. e.file = g /\ e.line = i /\ e.fn = f
    BY <2>2, EvIs
  <2>4. PICK k \in Where(code, {"def"}) : code[k].name = f
    BY <2>1, <2>2, <2>3 DEF Functions_
  <2>5. EntryAt(r, "pipecat", file, k)
    BY <2>1, <2>2, <2>3, <2>4 DEF EntryAt
  <2>6. PICK d \in Entries(r, "pipecat") : d.file = file /\ d.fn = f
    BY <2>4, <2>5, EntryIn
  <2> QED BY <1>1, <2>1, <2>2, <2>3, <2>6
<1>3. \A e \in S : e.line \in DOMAIN code
  BY <1>2 DEF TasksIn, InBody, Where
<1>4. \A e, d \in S : e.line = d.line => e = d
  <2> SUFFICES ASSUME NEW e \in S, NEW d \in S, e.line = d.line PROVE e = d
    OBVIOUS
  <2>1. TaskEv(e, file, e.line, e.fn) /\ TaskEv(d, file, e.line, e.fn)
    <3> HIDE DEF S
    <3> QED BY <1>2
  <2> QED BY <2>1 DEF TaskEv
<1> HIDE DEF S
<1>5. file \in DOMAIN r.code /\ task \in S
  BY <1>2, <1>3, <1>4, FirstOfIs DEF S
<1> QED BY <1>1, <1>2, <1>5 DEF PipecatAnchor, S

-----------------------------------------------------------------------------
(* What the adapters write                                                 *)

\* A line built with Line has these fields.
LEMMA LineIs ==
  ASSUME NEW s, NEW o, NEW n, NEW h, NEW l, l = Line(s, o, n, h)
  PROVE  l.scope = s /\ l.op = o /\ l.name = n /\ l.has = h
BY DEF Line

\* A line built with Line is one of Lines.
LEMMA LineIn ==
  ASSUME NEW s \in SUBSET Names, NEW o \in Ops, NEW n \in Names, NEW h \in SUBSET Features,
         NEW l, l = Line(s, o, n, h)
  PROVE  l \in Lines
BY DEF Line, Lines

\* An import line the adapters may add for the tracer.
ImportFor(code, tracer, l) ==
  /\ l \in Lines /\ l.scope = {} /\ l.op = "import"
  /\ l.name \in {"os", tracer} /\ ~HasImport(code, l.name)

\* The header the adapters add: imports of os and of the tracer, if missing.
Imports(code, tracer, H) ==
  /\ H \in Seq(Lines)
  /\ \A k \in 1..Len(H) : ImportFor(code, tracer, H[k])
  /\ \A m \in {"os", tracer} : HasImport(code, m) \/ \E k \in 1..Len(H) : H[k].name = m

\* HeaderFor yields such a header.
LEMMA ImportsAre ==
  ASSUME NEW code, NEW tracer \in Tracers
  PROVE  Imports(code, tracer, MissingImports(code, tracer))
<1>0. PICK os : os = "os"
  OBVIOUS
<1>1. PICK x : x = Line({}, "import", "os", {})
  OBVIOUS
<1>2. PICK y : y = Line({}, "import", tracer, {})
  OBVIOUS
<1>3. x \in Lines /\ x.scope = {} /\ x.op = "import" /\ x.name = "os"
  <2>1. x.scope = {} /\ x.op = "import" /\ x.name = "os"
    BY <1>1 DEF Line
  <2>2. "os" \in Names /\ "import" \in Ops /\ {} \in SUBSET Names /\ {} \in SUBSET Features
    BY NamesAssumption DEF Ops
  <2>3. x \in Lines
    BY <1>1, <2>2, LineIn, Zenon
  <2> QED BY <2>1, <2>3
<1>4. y \in Lines /\ y.scope = {} /\ y.op = "import" /\ y.name = tracer
  <2>1. y.scope = {} /\ y.op = "import" /\ y.name = tracer
    BY <1>2 DEF Line
  <2>2. tracer \in Names /\ "import" \in Ops /\ {} \in SUBSET Names /\ {} \in SUBSET Features
    BY NamesAssumption DEF Ops
  <2>3. y \in Lines
    BY <1>2, <2>2, LineIn, Zenon
  <2> QED BY <2>1, <2>3
<1>5. MissingImports(code, tracer) =
        (IF HasImport(code, os) THEN <<>> ELSE <<x>>) \o (IF HasImport(code, tracer) THEN <<>> ELSE <<y>>)
  BY <1>0, <1>1, <1>2 DEF MissingImports
<1>6. PICK H : H = MissingImports(code, tracer)
  OBVIOUS
<1>11. /\ H \in Seq(Lines)
       /\ \A k \in 1..Len(H) : ImportFor(code, tracer, H[k])
       /\ \A m \in {os, tracer} : HasImport(code, m) \/ \E k \in 1..Len(H) : H[k].name = m
  <2>7. CASE HasImport(code, os) /\ HasImport(code, tracer)
    <3>1. H = <<>>
      BY <1>5, <1>6, <2>7
    <3> QED BY <1>0, <3>1, <2>7 DEF ImportFor
  <2>8. CASE HasImport(code, os) /\ ~HasImport(code, tracer)
    <3>1. H = <<y>>
      BY <1>5, <1>6, <2>8
    <3>2. H \in Seq(Lines) /\ Len(H) = 1 /\ H[1] = y
      BY <3>1, <1>4
    <3>3. \A k \in 1..Len(H) : k = 1
      BY <3>2
    <3> QED BY <1>0, <3>2, <3>3, <1>4, <1>6, <2>8 DEF ImportFor
  <2>9. CASE ~HasImport(code, os) /\ HasImport(code, tracer)
    <3>1. H = <<x>>
      BY <1>5, <1>6, <2>9
    <3>2. H \in Seq(Lines) /\ Len(H) = 1 /\ H[1] = x
      BY <3>1, <1>3
    <3>3. \A k \in 1..Len(H) : k = 1
      BY <3>2
    <3> QED BY <1>0, <3>2, <3>3, <1>3, <1>6, <2>9 DEF ImportFor
  <2>10. CASE ~HasImport(code, os) /\ ~HasImport(code, tracer)
    <3>1. H = <<x>> \o <<y>>
      BY <1>5, <1>6, <2>10
    <3>2. H \in Seq(Lines) /\ Len(H) = 2 /\ H[1] = x /\ H[2] = y
      <4>1. <<x>> \in Seq(Lines) /\ <<y>> \in Seq(Lines) /\ Len(<<x>>) = 1 /\ Len(<<y>>) = 1
        BY <1>3, <1>4
      <4>2. Joined(Lines, <<x>>, <<y>>, H)
        BY <4>1, <3>1, ConcatIs
      <4>3. 1 \in 1..1 /\ 1 + 1 = 2
        OBVIOUS
      <4> QED BY <4>1, <4>2, <4>3 DEF Joined
    <3>3. \A k \in 1..Len(H) : k = 1 \/ k = 2
      BY <3>2
    <3> QED BY <1>0, <3>2, <3>3, <1>3, <1>4, <1>6, <2>10 DEF ImportFor
  <2> QED BY <2>7, <2>8, <2>9, <2>10
<1>12. Imports(code, tracer, H)
  <2>1. \A m \in {"os", tracer} : HasImport(code, m) \/ \E k \in 1..Len(H) : H[k].name = m
    <3> SUFFICES ASSUME NEW m \in {"os", tracer}
                 PROVE  HasImport(code, m) \/ \E k \in 1..Len(H) : H[k].name = m
      OBVIOUS
    <3>1. m \in {os, tracer}
      BY <1>0
    <3>2. \A x1 \in {os, tracer} : HasImport(code, x1) \/ \E k \in 1..Len(H) : H[k].name = x1
      BY <1>11
    <3> QED BY <3>1, <3>2
  <2> QED BY <2>1, <1>11 DEF Imports
<1> QED BY <1>6, <1>12

\* Imports go below the last import of the module.
LEMMA InsertionLineIs ==
  ASSUME NEW code \in Seq(Lines), NEW n, n = ImportInsertionLine(code)
  PROVE  /\ n \in 1..(Len(code) + 1)
         /\ \A i \in Where(code, {"import"}) : code[i].scope = {} => i < n
         /\ n = 1 \/ \E i \in Where(code, {"import"}) : code[i].scope = {} /\ n = i + 1
<1> DEFINE N == Len(code)
           S == {0} \cup {i \in Where(code, {"import"}) : code[i].scope = {}}
           T == {N - i : i \in S}
<1>1. N \in Nat /\ S \subseteq 0..N /\ 0 \in S
  BY DEF Where
<1>2. T \in SUBSET Nat /\ T # {}
  BY <1>1
<1>3. PICK m \in T : \A k \in T : m <= k
  <2> HIDE DEF T
  <2> QED BY <1>2, LeastOf
<1>4. N - m \in S /\ m \in Nat /\ N - m \in 0..N
  BY <1>1, <1>3
<1>5. \A y \in S : N - m >= y
  <2> TAKE y \in S
  <2>1. N - y \in T /\ y \in 0..N
    BY <1>1
  <2>2. m <= N - y
    BY <2>1, <1>3
  <2> QED BY <2>1, <2>2, <1>1, <1>4
<1> HIDE DEF S, T
<1>6. Max(S) \in S /\ \A y \in S : Max(S) >= y
  BY <1>4, <1>5 DEF Max
<1>7. n = 1 + Max(S) /\ Max(S) \in 0..N
  BY <1>1, <1>6 DEF ImportInsertionLine, S
<1>8. \A i \in Where(code, {"import"}) : code[i].scope = {} => i \in S
  BY DEF S
<1>9. \A i \in S : i < n
  <2> TAKE i \in S
  <2>1. i \in 0..N /\ Max(S) >= i
    BY <1>1, <1>6
  <2> QED BY <2>1, <1>7
<1> HIDE DEF N
<1>10. n \in 1..(N + 1)
  BY <1>7, <1>1
<1>11. n = 1 \/ \E i \in Where(code, {"import"}) : code[i].scope = {} /\ n = i + 1
  <2>1. PICK m_ : m_ = Max(S)
    OBVIOUS
  <2>2. m_ = 0 \/ (m_ \in Where(code, {"import"}) /\ code[m_].scope = {})
    BY <1>6, <2>1 DEF S
  <2>3. n = 1 + m_ /\ m_ \in Nat
    BY <1>1, <1>7, <2>1
  <2> QED BY <2>2, <2>3
<1> QED BY <1>8, <1>9, <1>10, <1>11 DEF N

\* Inserting L, then the header.
LEMMA TwoInsertions ==
  ASSUME NEW code \in Seq(Lines), NEW H \in Seq(Lines), NEW L \in Seq(Lines),
         NEW n \in 1..(Len(code) + 1), NEW at \in 1..Len(code), NEW d, d = 0, NEW t, t = at - 1,
         NEW out, out = ApplyLineEdits(code, Insert(n, H), Edit(at, t, L))
  PROVE  \E old, head, new : Edited(code, out, n, H, at, d, L, old, head, new)
<1>1. t = at - 1 + d /\ d \in {0, 1} /\ d \in Nat /\ ~(d = 1)
  OBVIOUS
<1> QED BY <1>1, TwoEdits

\* What the LiveKit adapter inserts, and the header it adds.
LiveKitLines(code, at, type, H, L) ==
  /\ H \in Seq(Lines) /\ L \in Seq(Lines) /\ Len(L) = 1 /\ Len(H) # 0
  /\ \A k \in 1..(Len(H) - 1) : ImportFor(code, "LiveKitTracer", H[k])
  /\ \A m \in {"os", "LiveKitTracer"} : HasImport(code, m) \/ \E k \in 1..(Len(H) - 1) : H[k].name = m
  /\ H[Len(H)].scope = {} /\ H[Len(H)].op = "tracer" /\ H[Len(H)].name = "LiveKitTracer"
  /\ H[Len(H)].has = {}
  /\ L[1].scope = code[at].scope /\ L[1].name = code[at].name
  /\ IF type = "insert_track_session" THEN L[1].op = "track_session" /\ L[1].has = {"agent"}
                                      ELSE L[1].op = "observe_session" /\ L[1].has = {}

\* An accepted LiveKit plan is carried out by inserting those lines.
LEMMA LiveKitWrites ==
  ASSUME NEW r, WellFormed(r), Supported(r), Framework(r) = "livekit", NEW a, AnchorStarts(r, a.file) # {},
         NEW code, code = r.code[a.file], NEW out, out = IntegrateLiveKit(r, a)
  PROVE  \E start, at, n, H, L, old, head, new :
           /\ LiveKitAnchor(r, a.file, start, at) /\ start = FirstOf(r, AnchorStarts(r, a.file))
           /\ n = ImportInsertionLine(code)
           /\ LiveKitLines(code, at, a.type, H, L)
           /\ Edited(code, out, n, H, at, 0, L, old, head, new)
<1>1. PICK start : start = FirstOf(r, AnchorStarts(r, a.file))
  OBVIOUS
<1>2. PICK at : at = FirstWalked(code, {i \in InBody(code, start.fn, {"start"}) : code[i].name = LineOf(r, start).name})
  OBVIOUS
<1>3. LiveKitAnchor(r, a.file, start, at)
  BY <1>1, <1>2, LiveKitAnchorIs
<1>4. /\ CodeOk(code) /\ code \in Seq(Lines) /\ at \in 1..Len(code) /\ code[at] \in Lines
      /\ code[at].name = code[start.line].name /\ start.file = a.file
  BY <1>3, FileIs DEF LiveKitAnchor, InBody, Where, CodeOk
<1>5. LineOf(r, start).name = code[at].name
  BY <1>4 DEF LineOf
<1>6. PICK t : t = Line({}, "tracer", "LiveKitTracer", {})
  OBVIOUS
<1>7. t \in Lines /\ t.scope = {} /\ t.op = "tracer" /\ t.name = "LiveKitTracer" /\ t.has = {}
  <2>1. t.scope = {} /\ t.op = "tracer" /\ t.name = "LiveKitTracer" /\ t.has = {}
    BY <1>6 DEF Line
  <2>2. "LiveKitTracer" \in Names /\ "tracer" \in Ops /\ {} \in SUBSET Names /\ {} \in SUBSET Features
    BY NamesAssumption DEF Ops, Tracers
  <2>3. t \in Lines
    BY <1>6, <2>2, LineIn, Zenon
  <2> QED BY <2>1, <2>3
<1>8. PICK call : call = IF a.type = "insert_track_session"
                THEN Line(code[at].scope, "track_session", code[at].name, {"agent"})
                ELSE Line(code[at].scope, "observe_session", code[at].name, {})
  OBVIOUS
<1>9. /\ call \in Lines /\ call.scope = code[at].scope /\ call.name = code[at].name
      /\ IF a.type = "insert_track_session" THEN call.op = "track_session" /\ call.has = {"agent"}
                                            ELSE call.op = "observe_session" /\ call.has = {}
  <2>1. code[at].scope \in SUBSET Names /\ code[at].name \in Names
    BY <1>4 DEF Lines
  <2>2. CASE a.type = "insert_track_session"
    <3>1. call = Line(code[at].scope, "track_session", code[at].name, {"agent"})
      BY <2>2, <1>8
    <3>2. "track_session" \in Ops /\ {"agent"} \in SUBSET Features
      BY DEF Ops, TracerCalls, SessionCalls, Features
    <3>3. call.scope = code[at].scope /\ call.name = code[at].name /\ call.op = "track_session" /\ call.has = {"agent"}
      BY <3>1 DEF Line
    <3>4. call \in Lines
      BY <3>1, <3>2, <2>1, LineIn, Zenon
    <3> QED BY <2>2, <3>3, <3>4
  <2>3. CASE a.type # "insert_track_session"
    <3>1. call = Line(code[at].scope, "observe_session", code[at].name, {})
      BY <2>3, <1>8
    <3>2. "observe_session" \in Ops /\ {} \in SUBSET Features
      BY DEF Ops, TracerCalls, SessionCalls
    <3>3. call.scope = code[at].scope /\ call.name = code[at].name /\ call.op = "observe_session" /\ call.has = {}
      BY <3>1 DEF Line
    <3>4. call \in Lines
      BY <3>1, <3>2, <2>1, LineIn, Zenon
    <3> QED BY <2>3, <3>3, <3>4
  <2> QED BY <2>2, <2>3
<1>10. PICK I : I = MissingImports(code, "LiveKitTracer")
  OBVIOUS
<1>11. Imports(code, "LiveKitTracer", I)
  <2>1. "LiveKitTracer" \in Tracers
    BY DEF Tracers
  <2> QED BY <2>1, <1>10, ImportsAre, Zenon
<1>12. PICK H : H = I \o <<t>>
  OBVIOUS
<1>13. Joined(Lines, I, <<t>>, H)
  <2>1. I \in Seq(Lines) /\ <<t>> \in Seq(Lines)
    BY <1>7, <1>11 DEF Imports
  <2> QED BY <2>1, <1>12, ConcatIs
<1>14. PICK L : L = <<call>>
  OBVIOUS
<1>15. L \in Seq(Lines) /\ Len(L) = 1 /\ L[1] = call
  BY <1>9, <1>14
<1>16. PICK n : n = ImportInsertionLine(code)
  OBVIOUS
<1>17. n \in 1..(Len(code) + 1)
  BY <1>4, <1>16, InsertionLineIs
<1>18. out = ApplyLineEdits(code, Insert(n, H), Edit(at, at - 1, L))
  <2>1. IntegrateLiveKit(r, a) = ApplyLineEdits(code, Insert(n, H), Insert(at, <<call>>))
    BY <1>1, <1>2, <1>5, <1>6, <1>8, <1>10, <1>12, <1>16 DEF IntegrateLiveKit
  <2> QED BY <2>1, <1>14 DEF Insert
<1>19. LiveKitLines(code, at, a.type, H, L)
  <2>1. /\ H \in Seq(Lines) /\ Len(I) \in Nat /\ Len(H) = Len(I) + 1 /\ Len(H) - 1 = Len(I)
        /\ \A k \in 1..Len(I) : H[k] = I[k]
        /\ H[Len(H)] = t
    BY <1>13, <1>11 DEF Joined, Imports
  <2> QED BY <2>1, <1>7, <1>9, <1>11, <1>15 DEF LiveKitLines, Imports
<1>20. \E old, head, new : Edited(code, out, n, H, at, 0, L, old, head, new)
  <2>1. PICK d : d = 0
    OBVIOUS
  <2>2. PICK t0 : t0 = at - 1
    OBVIOUS
  <2>3. H \in Seq(Lines) /\ out = ApplyLineEdits(code, Insert(n, H), Edit(at, t0, L))
    BY <1>19, <1>18, <2>2 DEF LiveKitLines
  <2>4. \E old, head, new : Edited(code, out, n, H, at, d, L, old, head, new)
    BY <2>1, <2>2, <2>3, <1>4, <1>15, <1>17, TwoInsertions
  <2> QED BY <2>1, <2>4
<1> QED BY <1>1, <1>3, <1>16, <1>19, <1>20

\* out is code with line at replaced by L, then the header inserted.
ReplacedBy(code, out, n, H, at, d, L, a) ==
  \E old, head, new : Edited(code, out, n, H, at, d, L, old, head, new) /\ old[at] = new[a]

\* Replacing a line by L, then inserting the header.
LEMMA ReplacementAndInsertion ==
  ASSUME NEW code \in Seq(Lines), NEW H \in Seq(Lines), NEW L \in Seq(Lines),
         NEW n \in 1..(Len(code) + 1), NEW at \in 1..Len(code), NEW d, d = 1, NEW a \in 1..Len(L),
         NEW out, out = ApplyLineEdits(code, Insert(n, H), Edit(at, at, L))
  PROVE  ReplacedBy(code, out, n, H, at, d, L, a)
<1>1. at = at - 1 + d /\ d \in {0, 1} /\ a \in Nat
  OBVIOUS
<1>2. \E old, head, new : Edited(code, out, n, H, at, d, L, old, head, new) /\ (d = 1 => old[at] = new[a])
  BY <1>1, TwoEdits
<1> QED BY <1>2 DEF ReplacedBy

\* The call that an adapter writes is one of those of its kind.
LEMMA CallForIs ==
  ASSUME NEW mode \in Modes
  PROVE  /\ CallFor(mode, SessionCalls) \in SessionCalls /\ CallFor(mode, CreateCalls) \in CreateCalls
         /\ CallFor(mode, WrapCalls) \in WrapCalls
         /\ mode = "test" => CallFor(mode, SessionCalls) = "track_session"
         /\ mode = "observe" => CallFor(mode, SessionCalls) = "observe_session"
         /\ mode = "test" => CallFor(mode, CreateCalls) = "track_and_create_task" /\ CallFor(mode, WrapCalls) = "track_pipeline"
         /\ mode = "observe" => CallFor(mode, CreateCalls) = "observe_and_create_task" /\ CallFor(mode, WrapCalls) = "observe_pipeline"
<1> DEFINE tests == {"track_session", "track_and_create_task", "track_pipeline"}
<1>1. CASE mode = "test"
  <2>1. \A calls : CallFor(mode, calls) = CHOOSE c \in calls : c \in tests
    BY <1>1 DEF CallFor
  <2>2. CallFor(mode, SessionCalls) = "track_session"
    BY <2>1 DEF SessionCalls
  <2>3. CallFor(mode, CreateCalls) = "track_and_create_task"
    BY <2>1 DEF CreateCalls
  <2>4. CallFor(mode, WrapCalls) = "track_pipeline"
    BY <2>1 DEF WrapCalls
  <2> QED BY <1>1, <2>2, <2>3, <2>4 DEF SessionCalls, CreateCalls, WrapCalls
<1>2. CASE mode = "observe"
  <2>1. \A calls : CallFor(mode, calls) = CHOOSE c \in calls : ~(c \in tests)
    BY <1>2 DEF CallFor
  <2>2. CallFor(mode, SessionCalls) = "observe_session"
    BY <2>1 DEF SessionCalls
  <2>3. CallFor(mode, CreateCalls) = "observe_and_create_task"
    BY <2>1 DEF CreateCalls
  <2>4. CallFor(mode, WrapCalls) = "observe_pipeline"
    BY <2>1 DEF WrapCalls
  <2> QED BY <1>2, <2>2, <2>3, <2>4 DEF SessionCalls, CreateCalls, WrapCalls
<1> QED BY <1>1, <1>2 DEF Modes

\* What the Pipecat adapter puts in place of the task line.
PipecatLines(code, at, mode, type, H, L) ==
  /\ Imports(code, "PipecatTracer", H)
  /\ L \in Seq(Lines) /\ Len(L) = (IF type = "pipecat_multi_step" THEN 4 ELSE 2)
  /\ \A k \in 1..Len(L) : L[k].scope = code[at].scope
  /\ L[1].op = "tracer" /\ L[1].name = "PipecatTracer"
  /\ L[2].has = code[at].has \cap {"inline"}
  /\ L[2].op = CallFor(mode, IF type = "pipecat_multi_step" THEN WrapCalls ELSE CreateCalls)
  /\ type = "pipecat_multi_step" =>
        /\ L[3].op = "task" /\ L[3].has = TracingFlags(code[at].has)
        /\ L[4].op = "register"

\* An accepted Pipecat plan is carried out by putting in those lines.
LEMMA PipecatWrites ==
  ASSUME NEW r, WellFormed(r), Supported(r), Framework(r) = "pipecat", NEW a, AnchorTasks(r, a.file) # {},
         NEW mode \in Modes, NEW code, code = r.code[a.file], NEW out, out = IntegratePipecat(r, mode, a)
  PROVE  \E task, at, n, H, L, old, head, new :
           /\ PipecatAnchor(r, a.file, task, at) /\ task = FirstOf(r, AnchorTasks(r, a.file))
           /\ n = ImportInsertionLine(code)
           /\ PipecatLines(code, at, mode, a.type, H, L)
           /\ Edited(code, out, n, H, at, 1, L, old, head, new)
           /\ old[at] = new[IF a.type = "pipecat_multi_step" THEN 3 ELSE 2]
<1>1. PICK task : task = FirstOf(r, AnchorTasks(r, a.file))
  OBVIOUS
<1>2. PICK at : at = task.line
  OBVIOUS
<1>3. PipecatAnchor(r, a.file, task, at)
  BY <1>1, <1>2, PipecatAnchorIs
<1>4. CodeOk(code) /\ code \in Seq(Lines) /\ at \in 1..Len(code) /\ code[at] \in Lines
  BY <1>3, FileIs DEF PipecatAnchor, TasksIn, InBody, Where, CodeOk
<1>5. code[at].scope \in SUBSET Names /\ code[at].name \in Names /\ code[at].has \in SUBSET Features
  BY <1>4 DEF Lines
<1> DEFINE sc == code[at].scope
           nm == code[at].name
           inline == code[at].has \cap {"inline"}
           flags == TracingFlags(code[at].has)
<1>6. inline \in SUBSET Features /\ flags \in SUBSET Features
  BY <1>5 DEF TracingFlags, Features
<1>7. PICK l1 : l1 = Line(sc, "tracer", "PipecatTracer", {})
  OBVIOUS
<1>8. l1 \in Lines /\ l1.scope = sc /\ l1.op = "tracer" /\ l1.name = "PipecatTracer"
  <2>1. l1.scope = sc /\ l1.op = "tracer" /\ l1.name = "PipecatTracer"
    BY <1>7 DEF Line
  <2>2. "PipecatTracer" \in Names /\ "tracer" \in Ops /\ {} \in SUBSET Features
    BY NamesAssumption DEF Ops, Tracers
  <2>3. l1 \in Lines
    BY <1>5, <1>7, <2>2, LineIn, Zenon
  <2> QED BY <2>1, <2>3
<1>9. PICK n : n = ImportInsertionLine(code)
  OBVIOUS
<1>10. n \in 1..(Len(code) + 1)
  BY <1>4, <1>9, InsertionLineIs
<1>11. PICK H : H = MissingImports(code, "PipecatTracer")
  OBVIOUS
<1>12. Imports(code, "PipecatTracer", H) /\ H \in Seq(Lines)
  <2>1. "PipecatTracer" \in Tracers
    BY DEF Tracers
  <2>2. Imports(code, "PipecatTracer", H)
    BY <2>1, <1>11, ImportsAre, Zenon
  <2> QED BY <2>2 DEF Imports
<1>13. PICK L : L = IF a.type = "pipecat_multi_step"
          THEN <<l1, Line(sc, CallFor(mode, WrapCalls), nm, inline), Line(sc, "task", nm, flags),
                 Line(sc, "register", nm, {})>>
          ELSE <<l1, Line(sc, CallFor(mode, CreateCalls), nm, inline)>>
  OBVIOUS
<1>14. out = ApplyLineEdits(code, Insert(n, H), Edit(at, at, L))
  BY <1>1, <1>2, <1>7, <1>9, <1>11, <1>13 DEF IntegratePipecat
<1>15. CASE a.type = "pipecat_multi_step"
  <2>1. PICK l2 : l2 = Line(sc, CallFor(mode, WrapCalls), nm, inline)
    OBVIOUS
  <2>2. l2 \in Lines /\ l2.scope = sc /\ l2.op = CallFor(mode, WrapCalls) /\ l2.has = inline
    <3>1. CallFor(mode, WrapCalls) \in Ops
      BY CallForIs DEF Ops, TracerCalls
    <3> HIDE DEF sc, nm, inline, flags
    <3> QED BY <3>1, <2>1, <1>5, <1>6, LineIn, LineIs DEF sc, nm
  <2>3. PICK l3 : l3 = Line(sc, "task", nm, flags)
    OBVIOUS
  <2>4. l3 \in Lines /\ l3.scope = sc /\ l3.op = "task" /\ l3.has = flags
    <3>1. l3.scope = sc /\ l3.op = "task" /\ l3.has = flags
      BY <2>3 DEF Line
    <3>2. "task" \in Ops
      BY DEF Ops
    <3>3. l3 \in Lines
      BY <3>2, <2>3, <1>5, <1>6, LineIn, Zenon
    <3> QED BY <3>1, <3>3
  <2>5. PICK l4 : l4 = Line(sc, "register", nm, {})
    OBVIOUS
  <2>6. l4 \in Lines /\ l4.scope = sc /\ l4.op = "register"
    <3>1. l4.scope = sc /\ l4.op = "register"
      BY <2>5 DEF Line
    <3>2. "register" \in Ops /\ {} \in SUBSET Features
      BY DEF Ops
    <3>3. l4 \in Lines
      BY <3>2, <2>5, <1>5, <1>6, LineIn, Zenon
    <3> QED BY <3>1, <3>3
  <2>7. L = <<l1, l2, l3, l4>>
    BY <1>13, <1>15, <2>1, <2>3, <2>5
  <2> HIDE DEF sc, nm, inline, flags
  <2>8. L \in Seq(Lines) /\ Len(L) = 4 /\ L[1] = l1 /\ L[2] = l2 /\ L[3] = l3 /\ L[4] = l4
    BY <2>7, <1>8, <2>2, <2>4, <2>6
  <2>9. \A k \in 1..Len(L) : k = 1 \/ k = 2 \/ k = 3 \/ k = 4
    BY <2>8
  <2>10. PipecatLines(code, at, mode, a.type, H, L)
    BY <1>8, <1>12, <1>15, <2>2, <2>4, <2>6, <2>8, <2>9 DEF PipecatLines, sc, inline, flags
  <2>11. PICK d, b : d = 1 /\ b = 3
    OBVIOUS
  <2>12. ReplacedBy(code, out, n, H, at, d, L, b)
    <3>1. b \in 1..Len(L)
      BY <2>8, <2>11
    <3>2. /\ code \in Seq(Lines) /\ H \in Seq(Lines) /\ L \in Seq(Lines) /\ n \in 1..(Len(code) + 1)
          /\ at \in 1..Len(code) /\ d = 1
      BY <2>8, <2>11, <1>4, <1>10, <1>12
    <3> QED BY <3>1, <3>2, <1>14, ReplacementAndInsertion
  <2>13. \E old, head, new : Edited(code, out, n, H, at, 1, L, old, head, new)
                               /\ old[at] = new[IF a.type = "pipecat_multi_step" THEN 3 ELSE 2]
    BY <2>11, <2>12, <1>15 DEF ReplacedBy
  <2> QED BY <1>1, <1>3, <1>9, <2>10, <2>13
<1>16. CASE a.type # "pipecat_multi_step"
  <2>1. PICK l2 : l2 = Line(sc, CallFor(mode, CreateCalls), nm, inline)
    OBVIOUS
  <2>2. l2 \in Lines /\ l2.scope = sc /\ l2.op = CallFor(mode, CreateCalls) /\ l2.has = inline
    <3>1. CallFor(mode, CreateCalls) \in Ops
      BY CallForIs DEF Ops, TracerCalls
    <3> HIDE DEF sc, nm, inline, flags
    <3> QED BY <3>1, <2>1, <1>5, <1>6, LineIn, LineIs DEF sc, nm
  <2>7. L = <<l1, l2>>
    BY <1>13, <1>16, <2>1
  <2> HIDE DEF sc, nm, inline, flags
  <2>8. L \in Seq(Lines) /\ Len(L) = 2 /\ L[1] = l1 /\ L[2] = l2
    BY <2>7, <1>8, <2>2
  <2>9. \A k \in 1..Len(L) : k = 1 \/ k = 2
    BY <2>8
  <2>10. PipecatLines(code, at, mode, a.type, H, L)
    BY <1>8, <1>12, <1>16, <2>2, <2>8, <2>9 DEF PipecatLines, sc, inline
  <2>11. PICK d, b : d = 1 /\ b = 2
    OBVIOUS
  <2>12. ReplacedBy(code, out, n, H, at, d, L, b)
    <3>1. b \in 1..Len(L)
      BY <2>8, <2>11
    <3>2. /\ code \in Seq(Lines) /\ H \in Seq(Lines) /\ L \in Seq(Lines) /\ n \in 1..(Len(code) + 1)
          /\ at \in 1..Len(code) /\ d = 1
      BY <2>8, <2>11, <1>4, <1>10, <1>12
    <3> QED BY <3>1, <3>2, <1>14, ReplacementAndInsertion
  <2>13. \E old, head, new : Edited(code, out, n, H, at, 1, L, old, head, new)
                               /\ old[at] = new[IF a.type = "pipecat_multi_step" THEN 3 ELSE 2]
    BY <2>11, <2>12, <1>16 DEF ReplacedBy
  <2> QED BY <1>1, <1>3, <1>9, <2>10, <2>13
<1> QED BY <1>15, <1>16

-----------------------------------------------------------------------------
(* A patched file                                                          *)

\* Lines that add one call, at most, and take no def away.
AddsOneCall(code, at, d, H, L, c) ==
  /\ \A k \in 1..Len(H) : H[k].scope = {} /\ H[k].op \notin TracerCalls
  /\ \A k \in 1..Len(L) : L[k].scope = code[at].scope /\ (L[k].op \in TracerCalls => k = c)
  /\ d = 1 => code[at].op # "def"

\* Where a line of the edited file comes from.
ComesFrom(code, out, at, d, H, L, old, head, new, j) ==
  \/ \E i \in DOMAIN code : j = old[i] /\ (d = 0 \/ i # at) /\ out[j] = code[i]
  \/ \E k \in 1..Len(H) : j = head[k] /\ out[j] = H[k]
  \/ \E k \in 1..Len(L) : j = new[k] /\ out[j] = L[k]

\* Where every line of an edited file comes from.
LEMMA EditedIs ==
  ASSUME NEW code, NEW out, NEW n, NEW H, NEW at, NEW d, NEW L, NEW old, NEW head, NEW new,
         Edited(code, out, n, H, at, d, L, old, head, new), CodeOk(code), d \in {0, 1}
  PROVE  /\ out \in Seq(Lines) /\ DOMAIN out = 1..Len(out) /\ DOMAIN code = 1..Len(code)
         /\ \A j \in DOMAIN out : ComesFrom(code, out, at, d, H, L, old, head, new, j)
         /\ \A i \in DOMAIN code : old[i] \in DOMAIN out /\ (d = 0 \/ i # at => out[old[i]] = code[i])
         /\ \A k \in 1..Len(H) : head[k] \in DOMAIN out /\ out[head[k]] = H[k]
         /\ \A k \in 1..Len(L) : new[k] \in DOMAIN out /\ out[new[k]] = L[k]
<1>1. /\ out \in Seq(Lines) /\ DOMAIN out = 1..Len(out) /\ DOMAIN code = 1..Len(code)
      /\ Len(out) = Len(code) + Len(H) + Len(L) - d
  BY DEF Edited, CodeOk
<1>2. Placed(Len(code), Len(H), Len(L), n, at, d, old, head, new)
  BY DEF Edited
<1>3. /\ \A i \in DOMAIN code : old[i] \in DOMAIN out
      /\ \A k \in 1..Len(H) : head[k] \in DOMAIN out
      /\ \A k \in 1..Len(L) : new[k] \in DOMAIN out
      /\ \A j \in DOMAIN out : \/ \E i \in DOMAIN code : j = old[i] /\ (d = 0 \/ i # at)
                               \/ \E k \in 1..Len(H) : j = head[k]
                               \/ \E k \in 1..Len(L) : j = new[k]
  BY <1>1, <1>2 DEF Placed
<1>4. /\ \A i \in DOMAIN code : d = 0 \/ i # at => out[old[i]] = code[i]
      /\ \A k \in 1..Len(H) : out[head[k]] = H[k]
      /\ \A k \in 1..Len(L) : out[new[k]] = L[k]
  BY <1>1 DEF Edited
<1>5. ASSUME NEW j \in DOMAIN out
      PROVE  \/ \E i \in DOMAIN code : j = old[i] /\ (d = 0 \/ i # at) /\ out[j] = code[i]
             \/ \E k \in 1..Len(H) : j = head[k] /\ out[j] = H[k]
             \/ \E k \in 1..Len(L) : j = new[k] /\ out[j] = L[k]
  <2>1. CASE \E i \in DOMAIN code : j = old[i] /\ (d = 0 \/ i # at)
    BY <2>1, <1>4
  <2>2. CASE \E k \in 1..Len(H) : j = head[k]
    BY <2>2, <1>4
  <2>3. CASE \E k \in 1..Len(L) : j = new[k]
    BY <2>3, <1>4
  <2> QED BY <1>3, <2>1, <2>2, <2>3
<1>6. /\ \A i \in DOMAIN code : old[i] \in DOMAIN out /\ (d = 0 \/ i # at => out[old[i]] = code[i])
      /\ \A k \in 1..Len(H) : head[k] \in DOMAIN out /\ out[head[k]] = H[k]
      /\ \A k \in 1..Len(L) : new[k] \in DOMAIN out /\ out[new[k]] = L[k]
  BY <1>3, <1>4
<1> QED BY <1>1, <1>5, <1>6 DEF ComesFrom

\* An edit that makes a file that nothing traced call the tracer once.
Patched(code, out, n, H, at, d, L, old, head, new, c) ==
  /\ CodeOk(code) /\ Where(code, TracerCalls) = {}
  /\ at \in DOMAIN code /\ code[at].scope # {} /\ d \in {0, 1}
  /\ Edited(code, out, n, H, at, d, L, old, head, new)
  /\ AddsOneCall(code, at, d, H, L, c)

\* A file edited by an adapter is well formed and calls one tracer, once.
LEMMA PatchedFile ==
  ASSUME NEW code, NEW at, NEW out, NEW n, NEW H, NEW d, NEW L, NEW old, NEW head, NEW new, NEW c,
         Patched(code, out, n, H, at, d, L, old, head, new, c)
  PROVE  /\ CodeOk(out)
         /\ Where(out, TracerCalls) \subseteq {new[c]}
         /\ \A i \in Where(out, TracerCalls) : out[i].scope # {}
         /\ Functions_(code) \subseteq Functions_(out)
<1>0. /\ CodeOk(code) /\ Where(code, TracerCalls) = {}
      /\ at \in DOMAIN code /\ code[at].scope # {} /\ d \in {0, 1}
      /\ Edited(code, out, n, H, at, d, L, old, head, new)
      /\ AddsOneCall(code, at, d, H, L, c)
  BY DEF Patched
<1> USE <1>0
<1>1. Functions_(code) \subseteq Functions_(out)
  <2> SUFFICES ASSUME NEW i \in Where(code, {"def"}) PROVE code[i].name \in Functions_(out)
    BY DEF Functions_
  <2>1. i \in DOMAIN code /\ code[i].op = "def" /\ (d = 1 => i # at)
    BY DEF Where, AddsOneCall
  <2>2. d = 0 \/ d = 1 \/ i # at
    BY <2>1
  <2>3. CASE d = 0 \/ i # at
    <3>1. old[i] \in DOMAIN out /\ out[old[i]] = code[i]
      BY <2>1, <2>3, EditedIs
    <3>2. old[i] \in Where(out, {"def"})
      BY <3>1, <2>1 DEF Where
    <3> QED BY <3>1, <3>2 DEF Functions_
  <2> QED BY <2>1, <2>2, <2>3
<1>2. ASSUME NEW j \in DOMAIN out PROVE out[j].scope \subseteq Functions_(code)
  <2>0. \/ \E i \in DOMAIN code : out[j] = code[i]
        \/ \E k \in 1..Len(H) : out[j] = H[k]
        \/ \E k \in 1..Len(L) : out[j] = L[k]
    <3>1. \/ \E i \in DOMAIN code : j = old[i] /\ (d = 0 \/ i # at) /\ out[j] = code[i]
          \/ \E k \in 1..Len(H) : j = head[k] /\ out[j] = H[k]
          \/ \E k \in 1..Len(L) : j = new[k] /\ out[j] = L[k]
      BY EditedIs DEF ComesFrom
    <3> QED BY <3>1, Zenon
  <2>1. CASE \E i \in DOMAIN code : out[j] = code[i]
    BY <2>1 DEF CodeOk
  <2>2. CASE \E k \in 1..Len(H) : out[j] = H[k]
    BY <2>2 DEF AddsOneCall
  <2>3. CASE \E k \in 1..Len(L) : out[j] = L[k]
    BY <2>3 DEF AddsOneCall, CodeOk
  <2> QED BY <2>0, <2>1, <2>2, <2>3
<1>3. ASSUME NEW j \in Where(out, TracerCalls) PROVE j = new[c] /\ out[j].scope # {}
  <2>1. j \in DOMAIN out /\ out[j].op \in TracerCalls
    BY DEF Where
  <2>2. ~(\E i \in DOMAIN code : out[j] = code[i])
    BY <2>1 DEF Where
  <2>3. ~(\E k \in 1..Len(H) : out[j] = H[k])
    BY <2>1 DEF AddsOneCall
  <2>4. PICK k \in 1..Len(L) : j = new[k] /\ out[j] = L[k]
    BY <2>1, <2>2, <2>3, EditedIs DEF ComesFrom
  <2> QED BY <2>1, <2>4 DEF AddsOneCall
<1>4. out \in Seq(Lines)
  BY DEF Edited
<1>5. \A i \in DOMAIN out : out[i].scope \subseteq Functions_(out)
  BY <1>1, <1>2
<1> QED BY <1>1, <1>3, <1>4, <1>5 DEF CodeOk

\* A file without evidence of Cekura, of a repository that was never traced by hand.
LEMMA NothingExisting ==
  ASSUME NEW r, WellFormed(r), TracedOnce(r), ~Existing(r), NEW file \in DOMAIN r.code, Readable(r, file)
  PROVE  /\ Where(r.code[file], TracerCalls) = {}
         /\ \A i \in Where(r.code[file], {"tracer"}) : r.code[file][i].scope = {}
         /\ \A i \in Where(r.code[file], {"import"}) : r.code[file][i].name \notin Tracers \cup {"cekura"}
<1> DEFINE code == r.code[file]
<1>1. \A e : e \notin OfKind(r, "existing_cekura")
  BY DEF Existing
<1>2. ASSUME NEW i \in Where(code, TracerCalls \cup {"tracer"}), code[i].scope # {} PROVE FALSE
  <2>1. PICK f \in code[i].scope : TRUE
    BY <1>2
  <2>2. f \in Functions_(code) /\ i \in InBody(code, f, TracerCalls \cup {"tracer"})
    BY <2>1, FileIs DEF CodeOk, InBody, Body, Where
  <2>3. PICK e : CallEv(e, file, i, f)
    BY DEF CallEv
  <2>4. e \in OfKind(r, "existing_cekura")
    BY <2>2, <2>3, ExistingEvidence
  <2> QED BY <2>4, <1>1
<1>3. Where(code, TracerCalls) = {}
  <2> SUFFICES ASSUME NEW i \in Where(code, TracerCalls) PROVE FALSE
    OBVIOUS
  <2>1. code[i].scope # {}
    BY DEF TracedOnce
  <2>2. i \in Where(code, TracerCalls \cup {"tracer"})
    BY DEF Where
  <2> QED BY <2>1, <2>2, <1>2
<1>4. \A i \in Where(code, {"tracer"}) : code[i].scope = {}
  <2> SUFFICES ASSUME NEW i \in Where(code, {"tracer"}), code[i].scope # {} PROVE FALSE
    OBVIOUS
  <2>1. i \in Where(code, TracerCalls \cup {"tracer"})
    BY DEF Where
  <2> QED BY <2>1, <1>2
<1>5. \A i \in Where(code, {"import"}) : code[i].name \notin Tracers \cup {"cekura"}
  <2> SUFFICES ASSUME NEW i \in Where(code, {"import"}), code[i].name \in Tracers \cup {"cekura"} PROVE FALSE
    OBVIOUS
  <2>1. PICK e : LibraryEv(e, file, i)
    BY DEF LibraryEv
  <2>2. e \in OfKind(r, "existing_cekura")
    BY <2>1, ExistingEvidence
  <2> QED BY <2>2, <1>1
<1> QED BY <1>3, <1>4, <1>5

-----------------------------------------------------------------------------
(* Plans that were accepted                                                *)

\* The plan passed validation and changes something.
Accepted(r, mode, p) ==
  /\ mode \in Modes
  /\ \A a \in p : a.type \in AllowedActions(Framework(r), mode, Existing(r))
  /\ \A a \in p : a.type \in TextActions => Target(a) \in Paths
  /\ ~Existing(r) => \E a : {b \in p : b.type \in TracerActions} = {a}

\* An action has the fields it was built with.
LEMMA ActionIs ==
  ASSUME NEW t, NEW f, NEW p, NEW c, NEW a, a = Action(t, f, p, c)
  PROVE  a.type = t /\ a.file = f /\ a.param = p /\ a.cites = c /\ a.into = NoFile
BY DEF Action

\* The fields of an action that appends text.
LEMMA TextActionIs ==
  ASSUME NEW t, NEW f, NEW p, NEW a, a = TextAction(t, f, p)
  PROVE  a.type = t /\ a.file = NoFile /\ a.param = p /\ a.into = f
BY DEF TextAction

\* The manifest of the reference plan is one of those there are.
LEMMA ManifestIs ==
  ASSUME NEW r
  PROVE  Manifest(r) \in ToSet(Manifests)
<1> DEFINE cited == {e.file : e \in OfKind(r, "dependency")}
           T == {i \in DOMAIN Manifests : Manifests[i] \in cited}
<1>1. cited \subseteq ToSet(Manifests)
  BY DependencyEvidence
<1>2. CASE cited = {}
  BY <1>2, ManifestsAssumption DEF Manifest
<1>3. CASE cited # {}
  <2>1. DOMAIN Manifests \subseteq Nat
    BY ManifestsAssumption
  <2>2. T \in SUBSET Nat /\ T # {}
    BY <2>1, <1>1, <1>3 DEF ToSet
  <2>3. Min(T) \in T
    <3>1. \E m \in T : \A k \in T : m <= k
      BY <2>2, LeastOf
    <3> HIDE DEF T
    <3> QED BY <3>1 DEF Min
  <2>4. Manifests[Min(T)] \in ToSet(Manifests)
    BY <2>3 DEF ToSet
  <2>5. Manifest(r) = Manifests[Min(T)]
    BY <1>3 DEF Manifest
  <2> QED BY <2>4, <2>5
<1> QED BY <1>2, <1>3

\* What is assumed of the manifests.
LEMMA ManifestsAre ==
  /\ ToSet(Manifests) \subseteq Paths /\ "requirements.txt" \in ToSet(Manifests)
  /\ ToSet(Manifests) \subseteq LookAlikes /\ ToSet(Manifests) \cap Python = {}
  /\ NoFile \notin Paths
BY ManifestsAssumption, FilesAssumption, NoFileAssumption

\* The one text action of the reference plan goes to its manifest.
LEMMA FakePlanTarget ==
  ASSUME NEW r, NEW mode, NEW a \in FakePlan(r, mode), a.type \in TextActions
  PROVE  a.type = "add_dependency" /\ a.param = Pinned(Framework(r)) /\ Target(a) = Manifest(r)
<1>1. CASE a = Action("add_dependency", Manifest(r), Pinned(Framework(r)), {})
  <2>1. a.type = "add_dependency" /\ a.param = Pinned(Framework(r)) /\ a.file = Manifest(r) /\ a.into = NoFile
    BY <1>1, ActionIs
  <2>2. Manifest(r) # NoFile
    BY ManifestIs, ManifestsAre
  <2> QED BY <2>1, <2>2 DEF Target
<1>2. CASE a \in LiveKitPlan(r, mode)
  <2>1. PICK t : t \in {"insert_tracer_init"} \cup SessionActions /\ \E f, q, c : a = Action(t, f, q, c)
    BY <1>2 DEF LiveKitPlan, SessionAction, SessionActions
  <2>2. a.type = t
    BY <2>1 DEF Action
  <2> QED BY <2>1, <2>2 DEF SessionActions, TextActions
<1>3. CASE a \in PipecatPlan(r, mode)
  BY <1>3 DEF PipecatPlan, Action, TextActions
<1>4. CASE a = Action("already_integrated_noop", NoFile, NoParam, OfKind(r, "existing_cekura"))
  <2>1. a.type = "already_integrated_noop"
    BY <1>4 DEF Action
  <2> QED BY <2>1 DEF TextActions
<1> QED BY <1>1, <1>2, <1>3, <1>4 DEF FakePlan

\* A subset of at most n members is a finite subset.
LEMMA UpToIs ==
  ASSUME NEW n \in Int, NEW S, NEW d \in UpTo(n, S)
  PROVE  d \subseteq S /\ IsFiniteSet(d)
<1>1. CASE d = {}
  BY <1>1, FS_EmptySet
<1>2. CASE d # {}
  <2>1. PICK t \in [1..n -> S] : d = {t[k] : k \in 1..n}
    BY <1>2 DEF UpTo
  <2>2. t \in Surjection(1..n, d)
    BY <2>1 DEF Surjection
  <2>3. IsFiniteSet(1..n)
    BY FS_Interval
  <2> QED BY <2>1, <2>2, <2>3, FS_Surjection
<1> QED BY <1>1, <1>2

\* What the model's plans are made of.
LEMMA ModelTracerIs ==
  ASSUME NEW r, NEW mode, NEW a \in ValidActions(r, mode, ModelTracers(r))
  PROVE  a.type \in SessionActions \cup PipecatActions
<1>1. a \in ModelTracers(r)
  BY DEF ValidActions
<1>2. \E t \in SessionActions \cup PipecatActions : \E f, p_, c : a = Action(t, f, p_, c)
  BY <1>1 DEF ModelTracers
<1> QED BY <1>2, ActionIs

\* What a model may propose besides the tracer action changes text at most.
LEMMA ModelOtherIs ==
  ASSUME NEW r, NEW mode, NEW a \in ValidActions(r, mode, ModelOthers(r))
  PROVE  /\ a.type \in TextActions \cup {"insert_tracer_init"}
         /\ a.type \in TextActions => Target(a) \in Paths
<1>1. a \in ModelOthers(r)
  BY DEF ValidActions
<1>2. CASE \E p \in Paths \cup {NoFile} : \E k : a = TextAction("add_dependency", p, k)
  <2>1. PICK p \in Paths \cup {NoFile} : a.type = "add_dependency" /\ a.file = NoFile /\ a.into = p
    BY <1>2, TextActionIs
  <2> QED BY <2>1, ManifestsAre DEF TextActions, Target
<1>3. CASE \E p \in Paths : a = TextAction("add_env_placeholder", p, NoParam)
  <2>1. PICK p \in Paths : a.type = "add_env_placeholder" /\ a.file = NoFile /\ a.into = p
    BY <1>3, TextActionIs
  <2> QED BY <2>1, ManifestsAre DEF TextActions, Target
<1>4. CASE a = Action("insert_tracer_init", NoFile, NoParam, Entries(r, Framework(r)))
  <2>1. a.type = "insert_tracer_init"
    BY <1>4, ActionIs
  <2> QED BY <2>1 DEF TextActions
<1> QED BY <1>1, <1>2, <1>3, <1>4 DEF ModelOthers

\* A plan of a model is the reference plan, or a tracer action with others.
LEMMA ModelPlanIs ==
  ASSUME NEW r, NEW mode, NEW n \in Int, NEW p \in ModelPlans(r, mode, n)
  PROVE  \/ \E m : p = FakePlan(r, m)
         \/ \E b \in ValidActions(r, mode, ModelTracers(r)) :
              \E d \in UpTo(n, ValidActions(r, mode, ModelOthers(r))) : p = {b} \cup d
<1> DEFINE X == ValidActions(r, mode, ModelTracers(r))
           Y == UpTo(n, ValidActions(r, mode, ModelOthers(r)))
           M == IF FakePlannerRaises(r) THEN {} ELSE Modes
<1>1. p \in {{a} \cup d : a \in X, d \in Y} \cup {FakePlan(r, m) : m \in M}
  BY DEF ModelPlans
<1> HIDE DEF X, Y, M
<1>2. (\E m : p = FakePlan(r, m)) \/ (\E b \in X : \E d \in Y : p = {b} \cup d)
  BY <1>1
<1> QED BY <1>2 DEF X, Y

\* Whatever a plan appends to is one of the paths.
LEMMA ModelPlanTargets ==
  ASSUME NEW r, NEW mode, NEW n \in Int, NEW p \in ModelPlans(r, mode, n), NEW a \in p, a.type \in TextActions
  PROVE  Target(a) \in Paths
<1>1. CASE \E m : p = FakePlan(r, m)
  BY <1>1, FakePlanTarget, ManifestIs, ManifestsAre
<1>2. CASE \E b \in ValidActions(r, mode, ModelTracers(r)) :
             \E d \in UpTo(n, ValidActions(r, mode, ModelOthers(r))) : p = {b} \cup d
  <2>1. PICK b \in ValidActions(r, mode, ModelTracers(r)), d \in UpTo(n, ValidActions(r, mode, ModelOthers(r))) :
          p = {b} \cup d
    BY <1>2
  <2>2. CASE a = b
    BY <2>2, ModelTracerIs DEF SessionActions, PipecatActions, TextActions
  <2>3. CASE a \in d
    <3>1. a \in ValidActions(r, mode, ModelOthers(r))
      BY <2>3, UpToIs
    <3> QED BY <3>1, ModelOtherIs
  <2> QED BY <2>1, <2>2, <2>3
<1> QED BY <1>1, <1>2, ModelPlanIs

\* A product of two finite sets is finite.
LEMMA PairsAreFinite ==
  ASSUME NEW x, NEW y, NEW z
  PROVE  IsFiniteSet({x}) /\ IsFiniteSet({x, y}) /\ IsFiniteSet({x} \cup {y, z}) /\ IsFiniteSet({x} \cup {y})
<1>1. IsFiniteSet({x}) /\ IsFiniteSet({y}) /\ IsFiniteSet({z})
  BY FS_Singleton
<1>2. {x, y} = {x} \cup {y} /\ {y, z} = {y} \cup {z}
  OBVIOUS
<1>3. IsFiniteSet({x} \cup {y}) /\ IsFiniteSet({y} \cup {z})
  BY <1>1, FS_Union
<1>4. IsFiniteSet({x} \cup ({y} \cup {z}))
  BY <1>1, <1>3, FS_Union
<1> QED BY <1>1, <1>2, <1>3, <1>4

\* There are finitely many plans.
LEMMA PlansAreFinite ==
  ASSUME NEW r, NEW mode, NEW n \in Int, NEW P, P \in {{FakePlan(r, mode)}, ModelPlans(r, mode, n)}, NEW p \in P
  PROVE  IsFiniteSet(p)
<1>1. ASSUME NEW m PROVE IsFiniteSet(FakePlan(r, m))
  <2>1. CASE Existing(r)
    BY <2>1, PairsAreFinite DEF FakePlan
  <2>2. CASE ~Existing(r) /\ Framework(r) = "livekit"
    <3> DEFINE x == Action("add_dependency", Manifest(r), Pinned(Framework(r)), {})
               entry == TheEntry(r)
               start == CHOOSE e \in StartsOfEntry(r) : TRUE
               y == Action("insert_tracer_init", entry.file, "livekit", {entry})
               z == Action(SessionAction(m), start.file, NoParam, {entry, start})
    <3>1. FakePlan(r, m) = {x} \cup LiveKitPlan(r, m)
      BY <2>2 DEF FakePlan
    <3>2. LiveKitPlan(r, m) = {y, z}
      BY DEF LiveKitPlan
    <3> HIDE DEF x, y, z
    <3>3. IsFiniteSet({x} \cup {y, z})
      BY PairsAreFinite, Zenon
    <3> QED BY <3>1, <3>2, <3>3
  <2>3. CASE ~Existing(r) /\ Framework(r) # "livekit"
    <3>1. PICK x, y : FakePlan(r, m) = {x} \cup {y}
      BY <2>3 DEF FakePlan, PipecatPlan
    <3> QED BY <3>1, PairsAreFinite
  <2> QED BY <2>1, <2>2, <2>3
<1>2. ASSUME NEW S, NEW b, NEW d \in UpTo(n, S) PROVE IsFiniteSet({b} \cup d)
  <2>1. IsFiniteSet(d) /\ IsFiniteSet({b})
    BY UpToIs, FS_Singleton
  <2> QED BY <2>1, FS_Union
<1>3. CASE p = FakePlan(r, mode)
  BY <1>1, <1>3
<1>4. CASE p \in ModelPlans(r, mode, n)
  <2>1. CASE \E m : p = FakePlan(r, m)
    BY <2>1, <1>1
  <2>2. CASE \E b \in ValidActions(r, mode, ModelTracers(r)) :
             \E d \in UpTo(n, ValidActions(r, mode, ModelOthers(r))) : p = {b} \cup d
    <3> DEFINE X == ValidActions(r, mode, ModelTracers(r))
               Y == ValidActions(r, mode, ModelOthers(r))
    <3>1. PICK b \in X, d \in UpTo(n, Y) : p = {b} \cup d
      BY <2>2
    <3> HIDE DEF X, Y
    <3> QED BY <3>1, <1>2
  <2> QED BY <1>4, <2>1, <2>2, ModelPlanIs
<1> QED BY <1>3, <1>4

\* An accepted plan is for a supported repository and anchors in its entry.
LEMMA AcceptedIs ==
  ASSUME NEW r, NEW mode \in Modes, NEW n \in Int, NEW P, P \in {{FakePlan(r, mode)}, ModelPlans(r, mode, n)},
         NEW p \in ValidPlans(r, mode, P)
  PROVE  Accepted(r, mode, p)
<1>1. p \in P /\ \A a \in p : a.type \in AllowedActions(Framework(r), mode, Existing(r))
  BY DEF ValidPlans, ValidActions
<1>2. \A a \in p : a.type \in TextActions => Target(a) \in Paths
  BY <1>1, FakePlanTarget, ManifestIs, ManifestsAre, ModelPlanTargets
<1>3. ASSUME ~Existing(r) PROVE \E a : {b \in p : b.type \in TracerActions} = {a}
  <2> DEFINE T == {b \in p : b.type \in TracerActions}
  <2>1. Cardinality(T) = 1
    BY <1>3 DEF ValidPlans
  <2>2. IsFiniteSet(T)
    BY <1>1, PlansAreFinite, FS_Subset
  <2> HIDE DEF T
  <2>3. \E a : T = {a}
    BY <2>1, <2>2, FS_Singleton, Zenon
  <2> QED BY <2>3 DEF T
<1> QED BY <1>1, <1>2, <1>3 DEF Accepted

-----------------------------------------------------------------------------
(* What an accepted plan writes                                            *)

\* Two members of a set of at most one are the same.
LEMMA OneOrNone ==
  ASSUME NEW S, NEW x, S \subseteq {x}
  PROVE  IsFiniteSet(S) /\ Cardinality(S) <= 1
<1>1. CASE S = {}
  BY <1>1, FS_EmptySet
<1>2. CASE S = {x}
  <2>1. IsFiniteSet(S) /\ Cardinality(S) = 1
    BY <1>2, FS_Singleton, Zenon
  <2> QED BY <2>1
<1> QED BY <1>1, <1>2

\* The file is well formed and calls a tracer at most once.
TracedFile(code) ==
  /\ Cardinality(Where(code, TracerCalls)) <= 1
  /\ \A i \in Where(code, TracerCalls) : code[i].scope # {}

\* What the LiveKit edit makes of a file without Cekura.
LEMMA LiveKitFile ==
  ASSUME NEW r, WellFormed(r), TracedOnce(r), Supported(r), ~Existing(r), Framework(r) = "livekit",
         NEW a, AnchorStarts(r, a.file) # {}
  PROVE  a.file \in DOMAIN r.code /\ CodeOk(IntegrateLiveKit(r, a)) /\ TracedFile(IntegrateLiveKit(r, a))
<1> DEFINE code == r.code[a.file]
           out == IntegrateLiveKit(r, a)
<1>1. PICK start, at, n, H, L, old, head, new :
           /\ LiveKitAnchor(r, a.file, start, at) /\ start = FirstOf(r, AnchorStarts(r, a.file))
           /\ n = ImportInsertionLine(code)
           /\ LiveKitLines(code, at, a.type, H, L)
           /\ Edited(code, out, n, H, at, 0, L, old, head, new)
  BY LiveKitWrites
<1> HIDE DEF out
<1>2. /\ a.file \in DOMAIN r.code /\ Readable(r, a.file)
      /\ at \in DOMAIN code /\ code[at].scope # {}
  BY <1>1 DEF LiveKitAnchor, InBody, Body, Where
<1>3. CodeOk(code) /\ Where(code, TracerCalls) = {}
  BY <1>2, FileIs, NothingExisting
<1> HIDE DEF code
<1>4. PICK d \in {0, 1} : d = 0
  OBVIOUS
<1>5. PICK c : c = 1
  OBVIOUS
<1>6. AddsOneCall(code, at, d, H, L, c)
  <2>1. ASSUME NEW k \in 1..Len(H) PROVE H[k].scope = {} /\ H[k].op \in {"import", "tracer"}
    <3>1. H \in Seq(Lines) /\ Len(H) \in Nat
      BY <1>1 DEF LiveKitLines
    <3>2. CASE k = Len(H)
      BY <3>2, <1>1 DEF LiveKitLines
    <3>3. CASE k \in 1..(Len(H) - 1)
      BY <3>3, <1>1 DEF LiveKitLines, ImportFor
    <3> QED BY <3>1, <3>2, <3>3
  <2>2. \A k \in 1..Len(L) : k = 1 /\ L[k].scope = code[at].scope
    BY <1>1 DEF LiveKitLines
  <2>3. \A o \in {"import", "tracer"} : o \notin TracerCalls
    BY DEF TracerCalls, SessionCalls, CreateCalls, WrapCalls
  <2> QED BY <1>4, <1>5, <2>1, <2>2, <2>3 DEF AddsOneCall
<1>7. CodeOk(out) /\ Where(out, TracerCalls) \subseteq {new[c]} /\ \A i \in Where(out, TracerCalls) : out[i].scope # {}
  <2>1. Edited(code, out, n, H, at, d, L, old, head, new)
    BY <1>1, <1>4, Zenon
  <2>2. Patched(code, out, n, H, at, d, L, old, head, new, c)
    BY <1>2, <1>3, <1>6, <2>1 DEF Patched
  <2> QED BY <2>2, PatchedFile
<1> QED BY <1>2, <1>7, OneOrNone DEF TracedFile, out

\* What the Pipecat edit makes of a file without Cekura.
LEMMA PipecatFile ==
  ASSUME NEW r, WellFormed(r), TracedOnce(r), Supported(r), ~Existing(r), Framework(r) = "pipecat", NEW mode \in Modes,
         NEW a, AnchorTasks(r, a.file) # {}, ~PipecatRefuses(r, a)
  PROVE  a.file \in DOMAIN r.code /\ CodeOk(IntegratePipecat(r, mode, a)) /\ TracedFile(IntegratePipecat(r, mode, a))
<1> DEFINE code == r.code[a.file]
           out == IntegratePipecat(r, mode, a)
<1>1. PICK task, at, n, H, L, old, head, new :
           /\ PipecatAnchor(r, a.file, task, at) /\ task = FirstOf(r, AnchorTasks(r, a.file))
           /\ n = ImportInsertionLine(code)
           /\ PipecatLines(code, at, mode, a.type, H, L)
           /\ Edited(code, out, n, H, at, 1, L, old, head, new)
  BY PipecatWrites
<1> HIDE DEF out
<1>2. /\ a.file \in DOMAIN r.code /\ Readable(r, a.file)
      /\ at \in DOMAIN code /\ code[at].scope # {} /\ LineOf(r, task) = code[at]
  BY <1>1 DEF PipecatAnchor, TasksIn, InBody, Body, Where, LineOf
<1>3. CodeOk(code) /\ Where(code, TracerCalls) = {}
  BY <1>2, FileIs, NothingExisting
<1>4. code[at].op = "task"
  BY <1>1, <1>2 DEF PipecatRefuses
<1> HIDE DEF code
<1>5. PICK d \in {0, 1} : d = 1
  OBVIOUS
<1>6. PICK c : c = 2
  OBVIOUS
<1>7. AddsOneCall(code, at, d, H, L, c)
  <2>1. \A k \in 1..Len(H) : H[k].scope = {} /\ H[k].op = "import"
    BY <1>1 DEF PipecatLines, Imports, ImportFor
  <2>2. \A k \in 1..Len(L) : L[k].scope = code[at].scope
    BY <1>1 DEF PipecatLines
  <2>3. ASSUME NEW k \in 1..Len(L), k # 2 PROVE L[k].op \in {"tracer", "task", "register"}
    <3>1. CASE a.type = "pipecat_multi_step"
      <4>1. k = 1 \/ k = 3 \/ k = 4
        BY <2>3, <3>1, <1>1 DEF PipecatLines
      <4> QED BY <4>1, <3>1, <1>1 DEF PipecatLines
    <3>2. CASE a.type # "pipecat_multi_step"
      <4>1. k = 1
        BY <2>3, <3>2, <1>1 DEF PipecatLines
      <4> QED BY <4>1, <3>2, <1>1 DEF PipecatLines
    <3> QED BY <3>1, <3>2
  <2>4. \A o \in {"import", "tracer", "task", "register"} : o \notin TracerCalls
    BY DEF TracerCalls, SessionCalls, CreateCalls, WrapCalls
  <2>5. code[at].op # "def"
    BY <1>4
  <2>6. \A k \in 1..Len(H) : H[k].op \notin TracerCalls
    BY <2>1, <2>4
  <2>7. \A k \in 1..Len(L) : L[k].op \in TracerCalls => k = c
    BY <2>3, <2>4, <1>6
  <2> QED BY <2>1, <2>2, <2>5, <2>6, <2>7 DEF AddsOneCall
<1>8. CodeOk(out) /\ Where(out, TracerCalls) \subseteq {new[c]} /\ \A i \in Where(out, TracerCalls) : out[i].scope # {}
  <2>1. Edited(code, out, n, H, at, d, L, old, head, new)
    BY <1>1, <1>5, Zenon
  <2>2. Patched(code, out, n, H, at, d, L, old, head, new, c)
    BY <1>2, <1>3, <1>7, <2>1 DEF Patched
  <2> QED BY <2>2, PatchedFile
<1> QED BY <1>2, <1>8, OneOrNone DEF TracedFile, out

\* The texts of a well-formed repository.
TextsOk(D) ==
  /\ D \in [DOMAIN D -> SUBSET {"framework", "cekura", "inline", "garbage"}]
  /\ DOMAIN D \subseteq Paths

\* What a text consists of, of a file that is absent too.
LEMMA TextIs ==
  ASSUME NEW r, WellFormed(r), NEW file
  PROVE  TextOf(r, file) \in SUBSET {"framework", "cekura", "inline", "garbage"}
BY DEF TextOf, WellFormed

\* Adding the dependency leaves manifests that are manifests.
LEMMA DependencyAdded ==
  ASSUME NEW r, WellFormed(r), NEW m \in ToSet(Manifests),
         NEW D, D = [file \in DOMAIN r.deps \cup {m} |->
                       TextOf(r, file) \cup (IF file = m THEN {"cekura"} ELSE {})]
  PROVE  TextsOk(D)
<1>1. DOMAIN D = DOMAIN r.deps \cup {m} /\ DOMAIN D \subseteq Paths
  BY ManifestsAre DEF WellFormed
<1>2. \A n \in DOMAIN D : D[n] \in SUBSET {"framework", "cekura", "inline", "garbage"}
  BY TextIs
<1> QED BY <1>1, <1>2 DEF TextsOk

\* What a plan that is carried out has passed.
LEMMA BuildAllows ==
  ASSUME NEW r, NEW p, BuildVerdict(r, p) = "ok"
  PROVE  /\ \A a \in Dependencies(p) : ~DependencyRefused(r, Target(a))
         /\ \A a \in p : a.type \in TracerActions =>
              /\ ~AdapterRaises(r, a)
              /\ "garbage" \notin Required(r, p, a.file)
              /\ a.type \in SessionActions => ~LiveKitRefuses(r, a)
              /\ a.type \notin SessionActions => ~PipecatRefuses(r, a)
<1> DEFINE tracer == {a \in p : a.type \in TracerActions}
           refused == \E a \in Dependencies(p) : DependencyRefused(r, Target(a))
           raised == \E a \in tracer : AdapterRaises(r, a)
           stopped == \E a \in tracer :
                    \/ "garbage" \in Required(r, p, a.file)
                    \/ IF a.type \in SessionActions THEN LiveKitRefuses(r, a)
                                                     ELSE PipecatRefuses(r, a)
<1>1. BuildVerdict(r, p) = IF refused THEN "refused" ELSE IF raised THEN "crash"
                           ELSE IF stopped THEN "refused" ELSE "ok"
  BY DEF BuildVerdict
<1>2. ~refused /\ ~raised /\ ~stopped
  <2> HIDE DEF refused, raised, stopped
  <2> QED BY <1>1
<1> QED BY <1>2

\* A file as an accepted plan leaves it.
LEMMA BuiltFile ==
  ASSUME NEW r, WellFormed(r), TracedOnce(r), Supported(r), NEW mode, NEW p, Accepted(r, mode, p),
         BuildVerdict(r, p) = "ok", NEW file \in DOMAIN r.code
  PROVE  CodeOk(Build(r, mode, p).code[file]) /\ TracedFile(Build(r, mode, p).code[file])
<1> DEFINE tracer == {a \in p : a.type \in TracerActions}
           out == Build(r, mode, p).code[file]
<1>1. CASE ~\E a \in tracer : a.file = file
  <2>1. out = r.code[file]
    BY <1>1 DEF Build
  <2> QED BY <2>1, FileIs DEF TracedFile, TracedOnce
<1>2. CASE \E a \in tracer : a.file = file
  <2>1. PICK a \in tracer : a.file = file /\ out = IF a.type \in SessionActions THEN IntegrateLiveKit(r, a)
                                                                                ELSE IntegratePipecat(r, mode, a)
    BY <1>2 DEF Build
  <2>2. mode \in Modes /\ a.type \in AllowedActions(Framework(r), mode, Existing(r)) /\ a.type \in TracerActions
    BY DEF Accepted
  <2>3. ~Existing(r)
    BY <2>2 DEF AllowedActions, TextActions, TracerActions, SessionActions, PipecatActions
  <2>4. ~AdapterRaises(r, a) /\ (a.type \in SessionActions => ~LiveKitRefuses(r, a))
          /\ (a.type \notin SessionActions => ~PipecatRefuses(r, a))
    BY BuildAllows
  <2>5. Framework(r) \in {"livekit", "pipecat"}
    BY SupportedIs DEF SupportedFacts
  <2>6. a.type \in SessionActions <=> Framework(r) = "livekit"
    BY <2>2, <2>3, <2>5 DEF AllowedActions, TextActions, SessionAction, TracerActions, SessionActions, PipecatActions
  <2>7. CASE Framework(r) = "livekit"
    <3>1. AnchorStarts(r, a.file) # {}
      BY <2>4, <2>6, <2>7 DEF AdapterRaises
    <3> QED BY <2>1, <2>3, <2>6, <2>7, <3>1, LiveKitFile
  <2>8. CASE Framework(r) = "pipecat"
    <3>1. AnchorTasks(r, a.file) # {} /\ ~PipecatRefuses(r, a) /\ a.type \notin SessionActions
      BY <2>4, <2>6, <2>8 DEF AdapterRaises
    <3> QED BY <2>1, <2>2, <2>3, <2>8, <3>1, PipecatFile
  <2> QED BY <2>5, <2>7, <2>8
<1> QED BY <1>1, <1>2

\* What the requirements of a plan add to a file.
LEMMA RequiredIs ==
  ASSUME NEW r, NEW p, NEW file
  PROVE  /\ Required(r, p, file) \subseteq {"cekura", "garbage"}
         /\ "garbage" \in Required(r, p, file) => file \in Python
         /\ "cekura" \in Required(r, p, file) => \E a \in Dependencies(p) : Target(a) = file
<1> DEFINE A == {d \in Dependencies(p) : Target(d) = file}
<1>1. Required(r, p, file) = UNION {Requirement(r, file, a.param) : a \in A}
  BY DEF Required
<1>2. \A a : /\ Requirement(r, file, a.param) \subseteq {"cekura", "garbage"}
             /\ "garbage" \in Requirement(r, file, a.param) => file \in Python
  BY DEF Requirement
<1> QED BY <1>1, <1>2

\* What a plan leaves in a file apart from code.
LEMMA AppendedIs ==
  ASSUME NEW r, NEW mode, NEW p, NEW q, q = Build(r, mode, p)
  PROVE  /\ DOMAIN q.deps = DOMAIN r.deps \cup {Target(a) : a \in Dependencies(p) \cup Placeholders(p)}
         /\ q.deps = AppendText(r, p)
         /\ \A file : TextOf(q, file) = TextOf(r, file) \cup Required(r, p, file)
                         \cup (IF \E a \in Placeholders(p) : Target(a) = file THEN {"garbage"} ELSE {})
<1> DEFINE T == {Target(a) : a \in Placeholders(p)}
<1>1. q.deps = AppendText(r, p)
  BY DEF Build
<1>2. DOMAIN q.deps = DOMAIN r.deps \cup {Target(a) : a \in Dependencies(p) \cup Placeholders(p)}
  BY <1>1 DEF AppendText
<1>3. \A file \in DOMAIN q.deps : q.deps[file] = TextOf(r, file) \cup Required(r, p, file)
                                    \cup (IF file \in T THEN {"garbage"} ELSE {})
  BY <1>1, <1>2 DEF AppendText
<1>4. ASSUME NEW file
      PROVE  TextOf(q, file) = TextOf(r, file) \cup Required(r, p, file)
                         \cup (IF \E a \in Placeholders(p) : Target(a) = file THEN {"garbage"} ELSE {})
  <2>1. file \in T <=> \E a \in Placeholders(p) : Target(a) = file
    OBVIOUS
  <2>2. CASE file \in DOMAIN q.deps
    <3>1. TextOf(q, file) = q.deps[file]
      BY <2>2 DEF TextOf
    <3> QED BY <3>1, <2>1, <2>2, <1>3
  <2>3. CASE file \notin DOMAIN q.deps
    <3>1. TextOf(q, file) = {} /\ TextOf(r, file) = {} /\ file \notin T
      BY <2>3, <1>2 DEF TextOf
    <3>2. {d \in Dependencies(p) : Target(d) = file} = {}
      BY <2>3, <1>2
    <3>3. Required(r, p, file) = {}
      BY <3>2 DEF Required
    <3> QED BY <3>1, <3>3, <2>1
  <2> QED BY <2>2, <2>3
<1> QED BY <1>1, <1>2, <1>4

\* A plan that is carried out leaves texts well-formed.
LEMMA BuiltTexts ==
  ASSUME NEW r, WellFormed(r), NEW mode, NEW p, Accepted(r, mode, p)
  PROVE  TextsOk(Build(r, mode, p).deps)
<1> DEFINE q == Build(r, mode, p)
<1>1. /\ DOMAIN q.deps = DOMAIN r.deps \cup {Target(a) : a \in Dependencies(p) \cup Placeholders(p)}
      /\ q.deps = AppendText(r, p)
      /\ \A file : TextOf(q, file) = TextOf(r, file) \cup Required(r, p, file)
                      \cup (IF \E a \in Placeholders(p) : Target(a) = file THEN {"garbage"} ELSE {})
  BY AppendedIs
<1>2. \A a \in Dependencies(p) \cup Placeholders(p) : Target(a) \in Paths
  BY DEF Accepted, Dependencies, Placeholders, TextActions
<1>3. DOMAIN q.deps \subseteq Paths
  BY <1>1, <1>2 DEF WellFormed
<1>4. \A file \in DOMAIN q.deps : q.deps[file] = TextOf(q, file)
  BY DEF TextOf
<1> HIDE DEF q
<1>5. ASSUME NEW file \in DOMAIN q.deps PROVE q.deps[file] \in SUBSET {"framework", "cekura", "inline", "garbage"}
  <2>1. Required(r, p, file) \subseteq {"cekura", "garbage"}
    BY RequiredIs
  <2>2. TextOf(r, file) \in SUBSET {"framework", "cekura", "inline", "garbage"}
    BY TextIs
  <2> QED BY <1>1, <1>4, <2>1, <2>2
<1>6. q.deps = [file \in DOMAIN q.deps |-> q.deps[file]]
  <2>1. q.deps = AppendText(r, p)
    BY <1>1
  <2> QED BY <2>1, <1>1 DEF AppendText
<1>7. TextsOk(q.deps)
  BY <1>3, <1>5, <1>6 DEF TextsOk
<1> QED BY <1>7 DEF q

\* An accepted plan leaves a repository of TracedFiles.
LEMMA BuildIs ==
  ASSUME NEW r, WellFormed(r), TracedOnce(r), Supported(r), NEW mode, NEW p, Accepted(r, mode, p),
         BuildVerdict(r, p) = "ok"
  PROVE  WellFormed(Build(r, mode, p)) /\ TracedOnce(Build(r, mode, p))
           /\ DOMAIN Build(r, mode, p).code = DOMAIN r.code
<1> DEFINE out == Build(r, mode, p)
<1>1. out = [code |-> out.code, deps |-> out.deps] /\ DOMAIN out.code = DOMAIN r.code
        /\ out.code = [file \in DOMAIN r.code |-> out.code[file]]
  BY DEF Build
<1>2. TextsOk(out.deps)
  BY BuiltTexts
<1>3. \A file \in DOMAIN r.code : CodeOk(out.code[file]) /\ TracedFile(out.code[file])
  BY BuiltFile
<1> HIDE DEF out
<1>4. IsFiniteSet(DOMAIN out.code)
  BY <1>1 DEF WellFormed
<1>5. \A file \in DOMAIN out.code : /\ out.code[file] \in Seq(Lines)
        /\ \A i \in DOMAIN out.code[file] : out.code[file][i].scope \subseteq Functions_(out.code[file])
  BY <1>1, <1>3 DEF CodeOk
<1>6. out.code \in [DOMAIN out.code -> Seq(Lines)]
  BY <1>1, <1>5
<1>7. WellFormed(out)
  <2>1. DOMAIN out.code \subseteq Python
    BY <1>1 DEF WellFormed
  <2> QED BY <2>1, <1>1, <1>2, <1>4, <1>5, <1>6 DEF WellFormed, TextsOk
<1>8. TracedOnce(out)
  BY <1>1, <1>3 DEF TracedOnce, TracedFile
<1> QED BY <1>1, <1>7, <1>8 DEF out

-----------------------------------------------------------------------------
(* A line less                                                             *)

\* A customer's deletion of lines, line by line.
LEMMA RemovedIs ==
  ASSUME NEW code \in Seq(Lines), NEW i \in DOMAIN code, NEW out, out = RemoveAt(code, i)
  PROVE  /\ out \in Seq(Lines) /\ DOMAIN out = 1..(Len(code) - 1) /\ DOMAIN code = 1..Len(code)
         /\ \A j \in 1..(i - 1) : out[j] = code[j]
         /\ \A j \in (i + 1)..Len(code) : out[j - 1] = code[j]
<1> DEFINE A == SubSeq(code, 1, i - 1)
           B == SubSeq(code, i + 1, Len(code))
           N == Len(code)
<1>1. N \in Nat /\ i \in 1..N /\ out = A \o B
  BY DEF RemoveAt
<1>2. A \in Seq(Lines) /\ Len(A) = i - 1 /\ \A j \in 1..(i - 1) : A[j] = code[j]
  <2>1. 1 \in 1..(Len(code) + 1) /\ i - 1 \in 0..Len(code)
    BY <1>1
  <2> QED BY <2>1, SubSeqIs
<1>3. B \in Seq(Lines) /\ Len(B) = N - i /\ \A j \in 1..(N - i) : B[j] = code[i + j]
  <2>1. i + 1 \in 1..(Len(code) + 1) /\ Len(code) \in i..Len(code)
    BY <1>1
  <2> QED BY <2>1, SubSeqIs
<1> HIDE DEF A, B
<1>4. Joined(Lines, A, B, out)
  BY <1>1, <1>2, <1>3, ConcatIs
<1>5. out \in Seq(Lines) /\ Len(out) = N - 1
  BY <1>1, <1>2, <1>3, <1>4 DEF Joined
<1>6. \A j \in 1..(i - 1) : out[j] = code[j]
  BY <1>1, <1>2, <1>4 DEF Joined
<1>7. ASSUME NEW j \in (i + 1)..N PROVE out[j - 1] = code[j]
  <2> DEFINE k == j - i
  <2>1. k \in 1..(N - i) /\ i - 1 + k = j - 1 /\ i + k = j
    BY <1>1
  <2> HIDE DEF k, N
  <2> QED BY <2>1, <1>2, <1>3, <1>4 DEF Joined
<1> QED BY <1>5, <1>6, <1>7

\* Deleting lines removes calls and adds none.
LEMMA RemovedLines ==
  ASSUME NEW code \in Seq(Lines), NEW i \in DOMAIN code, NEW out, out = RemoveAt(code, i), NEW j \in DOMAIN out
  PROVE  \E k \in DOMAIN code : out[j] = code[k]
<1>1. /\ DOMAIN out = 1..(Len(code) - 1) /\ DOMAIN code = 1..Len(code)
      /\ \A k \in 1..(i - 1) : out[k] = code[k]
      /\ \A k \in (i + 1)..Len(code) : out[k - 1] = code[k]
  BY RemovedIs
<1>2. CASE j < i
  BY <1>1, <1>2
<1>3. CASE j >= i
  <2>1. j + 1 \in (i + 1)..Len(code) /\ j + 1 - 1 = j /\ j + 1 \in DOMAIN code
    BY <1>1, <1>3
  <2> QED BY <2>1, <1>1
<1> QED BY <1>1, <1>2, <1>3

\* A file whose lines were deleted is still a TracedFile.
LEMMA RemovedFile ==
  ASSUME NEW code, CodeOk(code), TracedFile(code), NEW i \in DOMAIN code, code[i].op # "def"
  PROVE  CodeOk(RemoveAt(code, i)) /\ TracedFile(RemoveAt(code, i))
<1> DEFINE out == RemoveAt(code, i)
           N == Len(code)
<1>1. code \in Seq(Lines)
  BY DEF CodeOk
<1>2. /\ out \in Seq(Lines) /\ DOMAIN out = 1..(N - 1) /\ DOMAIN code = 1..N /\ N \in Nat /\ i \in 1..N
      /\ \A j \in 1..(i - 1) : out[j] = code[j]
      /\ \A j \in (i + 1)..N : out[j - 1] = code[j]
  BY <1>1, RemovedIs
<1> HIDE DEF out, N
<1>3. ASSUME NEW j \in DOMAIN code, j # i PROVE \E k \in DOMAIN out : out[k] = code[j]
  <2>1. CASE j < i
    BY <2>1, <1>2
  <2>2. CASE j > i
    <3>1. j - 1 \in DOMAIN out /\ out[j - 1] = code[j]
      BY <2>2, <1>2
    <3> QED BY <3>1
  <2> QED BY <1>2, <1>3, <2>1, <2>2
<1> DEFINE from(j) == IF j < i THEN j ELSE j + 1
<1>4. ASSUME NEW j \in DOMAIN out PROVE from(j) \in DOMAIN code /\ out[j] = code[from(j)]
  <2>1. CASE j < i
    BY <2>1, <1>2
  <2>2. CASE j >= i
    <3>1. j + 1 \in (i + 1)..N /\ j + 1 - 1 = j /\ j + 1 \in DOMAIN code /\ ~(j < i)
      BY <2>2, <1>2
    <3> QED BY <3>1, <1>2
  <2> QED BY <1>2, <2>1, <2>2
<1>5. \A j, k \in DOMAIN out : from(j) = from(k) => j = k
  BY <1>2
<1> HIDE DEF from
<1>6. Functions_(code) \subseteq Functions_(out)
  <2> SUFFICES ASSUME NEW j \in Where(code, {"def"}) PROVE code[j].name \in Functions_(out)
    BY DEF Functions_
  <2>1. j \in DOMAIN code /\ j # i /\ code[j].op = "def"
    BY DEF Where
  <2>2. PICK k \in DOMAIN out : out[k] = code[j]
    BY <2>1, <1>3
  <2>3. k \in Where(out, {"def"})
    BY <2>1, <2>2 DEF Where
  <2> QED BY <2>2, <2>3 DEF Functions_
<1>7. CodeOk(out)
  BY <1>2, <1>4, <1>6 DEF CodeOk
<1>8. \A j \in Where(out, TracerCalls) : from(j) \in Where(code, TracerCalls) /\ out[j].scope # {}
  BY <1>4 DEF Where, TracedFile
<1>9. Cardinality(Where(out, TracerCalls)) <= 1
  <2> DEFINE S == Where(code, TracerCalls)
             T == Where(out, TracerCalls)
  <2>1. IsFiniteSet(S)
    <3>1. IsFiniteSet(DOMAIN code)
      BY <1>2, FS_Interval
    <3> QED BY <3>1, FS_Subset DEF Where
  <2>2. CASE T = {}
    BY <2>2, FS_EmptySet
  <2>3. CASE T # {}
    <3>1. PICK j \in T : TRUE
      BY <2>3
    <3>2. Cardinality(S) \in Nat /\ Cardinality(S) # 0
      BY <2>1, <3>1, <1>8, FS_EmptySet, FS_CardinalityType
    <3>3. Cardinality(S) = 1
      BY <3>2 DEF TracedFile
    <3>4. PICK x : S = {x}
      BY <2>1, <3>3, FS_Singleton, Zenon
    <3>5. \A k \in T : from(k) = x /\ k \in DOMAIN out
      BY <3>4, <1>8 DEF Where
    <3>6. T \subseteq {j}
      BY <3>1, <3>5, <1>5
    <3> QED BY <3>6, OneOrNone
  <2> QED BY <2>2, <2>3
<1> QED BY <1>7, <1>8, <1>9 DEF TracedFile, out

-----------------------------------------------------------------------------
(* The invariant                                                           *)

\* The inductive invariant: types, well-formed files that call a tracer at most
\* once, and at "patch" a plan the validator accepted.
IInv ==
  /\ TypeOK
  /\ WellFormed(repo) /\ TracedOnce(repo)
  /\ ~applied => base = repo
  /\ pc \in {"plan", "patch"} => Supported(repo) /\ ~applied
  /\ pc = "patch" => Accepted(repo, cmd.mode, plan)

\* Types, apart from the repository's: what a step has to show.
TypesBut ==
  /\ cmd \in Commands
  /\ pc \in {"idle", "plan", "patch", "check", "platform"}
  /\ applied \in BOOLEAN
  /\ ended \in {"report", "needs_human", "refused", "crash"}
  /\ done \in Modes \cup {NoMode}
  /\ edits \in 0..MaxEdits

\* One lemma per action: each keeps IInv.
LEMMA InitHolds == ASSUME Init PROVE IInv
<1>1. WellFormed(repo) /\ TracedOnce(repo) /\ base = repo
  BY ReposAssumption DEF Init
<1>2. TypesBut
  <2>1. NoCommand \in Commands
    <3>1. /\ NoCommand.name \in {"none", "integrate", "verify"} /\ NoCommand.mode \in Modes
          /\ NoCommand.planner \in {"fake", "openrouter"} /\ NoCommand.apply \in BOOLEAN
      BY DEF NoCommand, Modes
    <3>2. NoCommand = [name |-> NoCommand.name, mode |-> NoCommand.mode,
                       planner |-> NoCommand.planner, apply |-> NoCommand.apply]
      BY DEF NoCommand
    <3> QED BY <3>1, <3>2 DEF Commands
  <2>2. edits \in 0..MaxEdits
    BY BoundsAssumption DEF Init
  <2>3. cmd = NoCommand /\ pc = "idle" /\ applied = FALSE /\ ended = "report" /\ done = NoMode
    BY DEF Init
  <2> QED BY <2>1, <2>2, <2>3 DEF TypesBut
<1>3. TypeOK
  BY <1>1, <1>2 DEF TypesBut, TypeOK, WellFormed
<1> QED BY <1>1, <1>3 DEF IInv, Init

\* integrate starts.
LEMMA StartHolds == ASSUME IInv, StartIntegrate PROVE IInv'
<1>1. TypesBut'
  <2>1. cmd' \in Commands
    BY PlannersAssumption DEF StartIntegrate, Commands
  <2> QED BY <2>1 DEF IInv, TypeOK, StartIntegrate, Finish, TypesBut
<1>2. repo' = repo /\ base' = repo /\ applied' = FALSE /\ pc' # "patch" /\ (pc' = "plan" => Supported(repo))
  BY DEF StartIntegrate, Finish
<1>3. TypeOK'
  BY <1>1, <1>2 DEF TypeOK, TypesBut, IInv, WellFormed
<1>4. WellFormed(repo') /\ TracedOnce(repo') /\ (pc' = "plan" => Supported(repo'))
  BY <1>2 DEF IInv
<1> QED BY <1>2, <1>3, <1>4 DEF IInv

\* The planner answers and the plan is validated.
LEMMA PlanHolds == ASSUME IInv, Plan PROVE IInv'
<1>1. TypesBut' /\ repo' = repo /\ base' = base /\ cmd' = cmd /\ applied' = applied
        /\ pc = "plan" /\ (pc' = "patch" \/ pc' = "idle")
  BY DEF IInv, TypeOK, Plan, Finish, TypesBut
<1>2. TypeOK'
  BY <1>1 DEF TypeOK, TypesBut, IInv
<1>3. ASSUME pc' = "patch" PROVE Accepted(repo, cmd.mode, plan')
  <2>1. PICK P \in {{FakePlan(repo, cmd.mode)}, ModelPlans(repo, cmd.mode, MaxTexts - edits)} :
          plan' \in ValidPlans(repo, cmd.mode, P)
    BY <1>3 DEF Plan, Finish
  <2>2. cmd.mode \in Modes /\ MaxTexts - edits \in Int
    BY BoundsAssumption DEF IInv, TypeOK, Commands
  <2> QED BY <2>1, <2>2, AcceptedIs DEF IInv
<1>4. Accepted(repo, cmd.mode, plan') => Accepted(repo', cmd'.mode, plan')
  BY <1>1
<1>5. WellFormed(repo') /\ TracedOnce(repo') /\ Supported(repo') /\ ~applied' /\ base' = repo'
  BY <1>1 DEF IInv
<1> QED BY <1>1, <1>2, <1>3, <1>4, <1>5 DEF IInv

\* The plan is carried out.
LEMMA PatchHolds == ASSUME IInv, Patch PROVE IInv'
<1> DEFINE after == Build(repo, cmd.mode, plan)
<1>1. TypesBut' /\ base' = base /\ pc = "patch" /\ pc' \notin {"plan", "patch"}
        /\ (\/ repo' = repo /\ applied' = applied
            \/ repo' = after /\ applied' = TRUE /\ BuildVerdict(repo, plan) = "ok")
  <2>1. BuildVerdict(repo, plan) \in {"ok", "refused", "crash"}
    BY DEF BuildVerdict
  <2> QED BY <2>1 DEF IInv, TypeOK, Patch, Finish, TypesBut
<1>2. WellFormed(repo) /\ TracedOnce(repo) /\ Supported(repo) /\ base = repo /\ Accepted(repo, cmd.mode, plan)
  BY <1>1 DEF IInv
<1> HIDE DEF after
<1>3. WellFormed(repo') /\ TracedOnce(repo') /\ DOMAIN repo'.code = DOMAIN repo.code /\ (~applied' => base' = repo')
  <2>1. CASE repo' = repo /\ applied' = applied
    BY <1>1, <1>2, <2>1
  <2>2. CASE repo' = after /\ applied' = TRUE /\ BuildVerdict(repo, plan) = "ok"
    BY <1>2, <2>2, BuildIs DEF after
  <2> QED BY <1>1, <2>1, <2>2
<1>4. TypeOK'
  BY <1>1, <1>2, <1>3 DEF TypeOK, TypesBut, WellFormed
<1> QED BY <1>1, <1>3, <1>4 DEF IInv

\* The patched repository is checked.
LEMMA CheckHolds == ASSUME IInv, Check PROVE IInv'
<1>1. TypesBut' /\ repo' = repo /\ base' = base /\ applied' = applied /\ pc' = "platform"
  BY DEF IInv, TypeOK, Check, TypesBut
<1>2. TypeOK'
  BY <1>1 DEF TypeOK, TypesBut, IInv
<1> QED BY <1>1, <1>2 DEF IInv

\* The platform is prepared.
LEMMA PlatformHolds == ASSUME IInv, PreparePlatform PROVE IInv'
<1>1. TypesBut' /\ repo' = repo /\ base' = base /\ applied' = applied /\ pc' = "idle"
  <2>1. cmd.mode \in Modes
    BY DEF IInv, TypeOK, Commands
  <2> QED BY <2>1 DEF IInv, TypeOK, PreparePlatform, Finish, TypesBut
<1>2. TypeOK'
  BY <1>1 DEF TypeOK, TypesBut, IInv
<1> QED BY <1>1, <1>2 DEF IInv

\* verify runs.
LEMMA VerifyHolds == ASSUME IInv, NEW mode \in Modes, VerifyRepo(mode) PROVE IInv'
<1>1. TypesBut' /\ repo' = repo /\ base' = repo /\ pc' = "idle"
  <2>1. cmd' \in Commands
    BY DEF VerifyRepo, NoCommand, Commands
  <2> QED BY <2>1 DEF IInv, TypeOK, VerifyRepo, Finish, TypesBut
<1>2. WellFormed(repo) /\ TracedOnce(repo)
  BY DEF IInv
<1>3. TypeOK'
  BY <1>1, <1>2 DEF TypeOK, TypesBut, WellFormed
<1> QED BY <1>1, <1>2, <1>3 DEF IInv

\* Any change of the repository that is an outcome of a customer's edit.
LEMMA EditHolds ==
  ASSUME IInv, NEW after, WellFormed(after), TracedOnce(after), CustomerEdits(after)
  PROVE  IInv'
<1>1. TypesBut'
  <2>1. cmd' \in Commands
    BY DEF CustomerEdits, NoCommand, Commands, Modes
  <2>2. edits' \in 0..MaxEdits
    BY BoundsAssumption DEF IInv, TypeOK, CustomerEdits
  <2> QED BY <2>1, <2>2 DEF IInv, TypeOK, CustomerEdits, TypesBut, NoMode
<1>2. repo' = after /\ base' = after /\ pc' = "idle"
  BY DEF CustomerEdits, IInv
<1>3. TypeOK'
  BY <1>1, <1>2 DEF TypeOK, TypesBut, WellFormed
<1> QED BY <1>2, <1>3 DEF IInv

\* What the customer leaves of a repository.
Deleted(r, q, file, out) ==
  /\ q = [code |-> q.code, deps |-> q.deps] /\ q.deps = r.deps
  /\ DOMAIN q.code = DOMAIN r.code /\ q.code = [f \in DOMAIN r.code |-> q.code[f]]
  /\ \A f \in DOMAIN r.code : q.code[f] = IF f = file THEN out ELSE r.code[f]

\* What a customer's deletion leaves.
LEMMA DeletedIs ==
  ASSUME NEW r, WellFormed(r), NEW file \in DOMAIN r.code, NEW i,
         NEW after, after = [r EXCEPT !.code[file] = RemoveAt(@, i)]
  PROVE  Deleted(r, after, file, RemoveAt(r.code[file], i))
<1> DEFINE out == RemoveAt(r.code[file], i)
<1>1. PICK c, d : r = [code |-> c, deps |-> d]
  BY DEF WellFormed
<1>2. r.code = c /\ r.deps = d /\ after.code = [c EXCEPT ![file] = out] /\ after.deps = d
        /\ after = [code |-> after.code, deps |-> after.deps]
  BY <1>1
<1>3. file \in DOMAIN c /\ c = [f \in DOMAIN c |-> c[f]]
  BY <1>2 DEF WellFormed
<1> HIDE DEF out
<1>4. Deleted(r, after, file, out)
  BY <1>2, <1>3 DEF Deleted
<1> QED BY <1>4 DEF out

\* The customer deletes lines.
LEMMA DeletesHolds ==
  ASSUME IInv, NEW file \in DOMAIN repo.code, NEW i \in DOMAIN repo.code[file], DeletesLine(file, i)
  PROVE  IInv'
<1> DEFINE after == [repo EXCEPT !.code[file] = RemoveAt(@, i)]
           out == RemoveAt(repo.code[file], i)
<1>1. WellFormed(repo) /\ TracedOnce(repo)
  BY DEF IInv
<1>2. repo.code[file][i].op # "def" /\ CustomerEdits(after)
  BY DEF DeletesLine
<1>3. CodeOk(out) /\ TracedFile(out)
  BY <1>1, <1>2, FileIs, RemovedFile DEF TracedOnce, TracedFile
<1>4. /\ after = [code |-> after.code, deps |-> after.deps] /\ after.deps = repo.deps
      /\ DOMAIN after.code = DOMAIN repo.code /\ after.code = [f \in DOMAIN repo.code |-> after.code[f]]
      /\ \A f \in DOMAIN repo.code : after.code[f] = IF f = file THEN out ELSE repo.code[f]
  <2>1. Deleted(repo, after, file, out)
    BY <1>1, DeletedIs
  <2> HIDE DEF after, out
  <2> QED BY <2>1 DEF Deleted
<1> HIDE DEF after, out
<1>5. \A f \in DOMAIN after.code : CodeOk(after.code[f]) /\ TracedFile(after.code[f])
  BY <1>1, <1>3, <1>4, FileIs DEF TracedOnce, TracedFile
<1>6. after.code \in [DOMAIN after.code -> Seq(Lines)]
  BY <1>4, <1>5 DEF CodeOk
<1>7. WellFormed(after)
  BY <1>1, <1>4, <1>5, <1>6 DEF WellFormed, CodeOk
<1>8. TracedOnce(after)
  BY <1>5 DEF TracedOnce, TracedFile
<1> QED BY <1>2, <1>7, <1>8, EditHolds

\* The dependency that the customer adds.
Added(r, m, q) ==
  /\ q = [code |-> r.code, deps |-> q.deps] /\ q.code = r.code /\ TextsOk(q.deps)
  /\ DOMAIN q.deps = DOMAIN r.deps \cup {m}
  /\ \A file : TextOf(q, file) = TextOf(r, file) \cup (IF file = m THEN {"cekura"} ELSE {})

\* The customer adds the dependency to one manifest, and changes nothing else.
LEMMA AddedIs ==
  ASSUME NEW r, WellFormed(r), NEW m \in ToSet(Manifests),
         NEW D, D = [file \in DOMAIN r.deps \cup {m} |->
                       TextOf(r, file) \cup (IF file = m THEN {"cekura"} ELSE {})],
         NEW q, q = [r EXCEPT !.deps = D]
  PROVE  Added(r, m, q)
<1>1. q = [code |-> r.code, deps |-> D]
  BY DEF WellFormed
<1>2. q.code = r.code /\ q.deps = D
  BY <1>1
<1>3. TextsOk(D)
  BY DependencyAdded
<1>4. \A file : TextOf(q, file) = TextOf(r, file) \cup (IF file = m THEN {"cekura"} ELSE {})
  BY <1>2 DEF TextOf
<1> QED BY <1>1, <1>2, <1>3, <1>4 DEF Added

\* That is what the action AddsDependency does.
LEMMA AddsIs ==
  ASSUME WellFormed(repo), NEW m \in ToSet(Manifests), AddsDependency(m)
  PROVE  \E q : Added(repo, m, q) /\ CustomerEdits(q)
<1>1. PICK D : D = [file \in DOMAIN repo.deps \cup {m} |->
                       TextOf(repo, file) \cup (IF file = m THEN {"cekura"} ELSE {})]
  OBVIOUS
<1>2. PICK q : q = [repo EXCEPT !.deps = D]
  OBVIOUS
<1>3. CustomerEdits(q)
  BY <1>1, <1>2 DEF AddsDependency
<1>4. Added(repo, m, q)
  BY <1>1, <1>2, AddedIs
<1> QED BY <1>3, <1>4

\* The customer adds the dependency.
LEMMA AddsHolds == ASSUME IInv, NEW m \in ToSet(Manifests), AddsDependency(m) PROVE IInv'
<1>1. WellFormed(repo) /\ TracedOnce(repo)
  BY DEF IInv
<1>2. PICK after : Added(repo, m, after) /\ CustomerEdits(after)
  BY <1>1, AddsIs
<1>3. WellFormed(after)
  BY <1>1, <1>2 DEF WellFormed, TextsOk, Added
<1>4. TracedOnce(after)
  BY <1>1, <1>2 DEF TracedOnce, Added
<1> QED BY <1>2, <1>3, <1>4, EditHolds

\* Every step keeps IInv.
LEMMA StepHolds == ASSUME IInv, [Next]_vars PROVE IInv'
<1>1. CASE StartIntegrate BY <1>1, StartHolds
<1>2. CASE Plan BY <1>2, PlanHolds
<1>3. CASE Patch BY <1>3, PatchHolds
<1>4. CASE Check BY <1>4, CheckHolds
<1>5. CASE PreparePlatform BY <1>5, PlatformHolds
<1>6. CASE \E mode \in Modes : VerifyRepo(mode) BY <1>6, VerifyHolds
<1>7. CASE \E file \in DOMAIN repo.code : \E i \in DOMAIN repo.code[file] : DeletesLine(file, i)
  BY <1>7, DeletesHolds
<1>8. CASE \E m \in ToSet(Manifests) : AddsDependency(m) BY <1>8, AddsHolds
<1>9. CASE UNCHANGED vars
  BY <1>9 DEF vars, IInv, TypeOK
<1> QED BY <1>1, <1>2, <1>3, <1>4, <1>5, <1>6, <1>7, <1>8, <1>9 DEF Next

\* The invariant is one.
THEOREM Invariance == Spec => []IInv
<1>1. Init => IInv
  BY InitHolds
<1>2. IInv /\ [Next]_vars => IInv'
  BY StepHolds
<1> QED BY <1>1, <1>2, PTL DEF Spec

\* Whatever the customer and a model do, the state of a command is of its type.
THEOREM TypeCorrect == Spec => []TypeOK
<1>1. IInv => TypeOK
  BY DEF IInv
<1> QED BY <1>1, Invariance, PTL

\* Whatever plans a model proposes and whatever lines the customer deletes, no
\* file ends up with two tracer calls (EXISTING_CEKURA detection).
THEOREM TracedAtMostOnceHolds == Spec => []TracedAtMostOnce
<1>1. IInv => TracedAtMostOnce
  BY DEF IInv, TracedOnce, TracedAtMostOnce
<1> QED BY <1>1, Invariance, PTL

-----------------------------------------------------------------------------
(* What an edit keeps                                                      *)

\* The lines that do one of ops are the same before and after, in their order.
Keeps(code, out, old, ops) ==
  /\ \A i \in Where(code, ops) : old[i] \in DOMAIN out /\ out[old[i]] = code[i]
  /\ \A j \in Where(out, ops) : \E i \in Where(code, ops) : j = old[i] /\ out[j] = code[i]
  /\ \A i, j \in Where(code, ops) : i < j => old[i] < old[j]

\* No line that goes or comes does one of some ops.
Spares(code, H, at, d, L, ops) ==
  /\ d \in {0, 1} /\ (d = 1 => code[at].op \notin ops)
  /\ \A k \in 1..Len(H) : H[k].op \notin ops
  /\ \A k \in 1..Len(L) : L[k].op \notin ops

\* An edit that spares ops keeps the lines with those ops, in order.
LEMMA KeepsIs ==
  ASSUME NEW code, NEW out, NEW n, NEW H, NEW at, NEW d, NEW L, NEW old, NEW head, NEW new,
         CodeOk(code), Edited(code, out, n, H, at, d, L, old, head, new), NEW ops,
         Spares(code, H, at, d, L, ops)
  PROVE  Keeps(code, out, old, ops)
<1> USE DEF Spares
<1>1. ASSUME NEW i \in Where(code, ops) PROVE old[i] \in DOMAIN out /\ out[old[i]] = code[i]
  <2>1. i \in DOMAIN code /\ code[i].op \in ops /\ (d = 0 \/ i # at)
    BY DEF Where
  <2> QED BY <2>1, EditedIs
<1>2. ASSUME NEW j \in Where(out, ops) PROVE \E i \in Where(code, ops) : j = old[i] /\ out[j] = code[i]
  <2>1. j \in DOMAIN out /\ out[j].op \in ops
    BY DEF Where
  <2>2. ComesFrom(code, out, at, d, H, L, old, head, new, j)
    BY <2>1, EditedIs
  <2>3. PICK i \in DOMAIN code : j = old[i] /\ out[j] = code[i]
    BY <2>1, <2>2 DEF ComesFrom
  <2> QED BY <2>1, <2>3 DEF Where
<1>3. ASSUME NEW i \in Where(code, ops), NEW j \in Where(code, ops), i < j PROVE old[i] < old[j]
  <2>1. i \in 1..Len(code) /\ j \in 1..Len(code)
    BY DEF Where, CodeOk
  <2> QED BY <1>3, <2>1 DEF Edited, Placed
<1> QED BY <1>1, <1>2, <1>3 DEF Keeps

\* So are the lines of a function that do one of some ops.
LEMMA KeptBody ==
  ASSUME NEW code, NEW out, NEW old, NEW ops, Keeps(code, out, old, ops), NEW S, S \subseteq ops, NEW f
  PROVE  /\ \A i \in InBody(code, f, S) : old[i] \in InBody(out, f, S) /\ out[old[i]] = code[i]
         /\ \A j \in InBody(out, f, S) : \E i \in InBody(code, f, S) : j = old[i] /\ out[j] = code[i]
<1>1. ASSUME NEW i \in InBody(code, f, S) PROVE old[i] \in InBody(out, f, S) /\ out[old[i]] = code[i]
  <2>1. i \in Where(code, ops) /\ code[i].op \in S /\ f \in code[i].scope
    BY DEF InBody, Body, Where
  <2>2. old[i] \in DOMAIN out /\ out[old[i]] = code[i]
    BY <2>1 DEF Keeps
  <2> QED BY <2>1, <2>2 DEF InBody, Body, Where
<1>2. ASSUME NEW j \in InBody(out, f, S) PROVE \E i \in InBody(code, f, S) : j = old[i] /\ out[j] = code[i]
  <2>1. j \in Where(out, ops) /\ out[j].op \in S /\ f \in out[j].scope
    BY DEF InBody, Body, Where
  <2>2. PICK i \in Where(code, ops) : j = old[i] /\ out[j] = code[i]
    BY <2>1 DEF Keeps
  <2>3. i \in InBody(code, f, S)
    BY <2>1, <2>2 DEF InBody, Body, Where
  <2> QED BY <2>2, <2>3
<1> QED BY <1>1, <1>2

\* The starts of a session stay where their function is.
LEMMA KeptStarts ==
  ASSUME NEW code, NEW out, NEW old, NEW ops, Keeps(code, out, old, ops), {"start", "session"} \subseteq ops, NEW f
  PROVE  StartsIn(out, f) # {} <=> StartsIn(code, f) # {}
<1>1. /\ \A i \in InBody(code, f, {"start"}) : old[i] \in InBody(out, f, {"start"}) /\ out[old[i]] = code[i]
      /\ \A j \in InBody(out, f, {"start"}) : \E i \in InBody(code, f, {"start"}) : j = old[i] /\ out[j] = code[i]
  BY KeptBody
<1>2. {code[j].name : j \in InBody(code, f, {"session"})} = {out[j].name : j \in InBody(out, f, {"session"})}
  <2>1. /\ \A i \in InBody(code, f, {"session"}) : old[i] \in InBody(out, f, {"session"}) /\ out[old[i]] = code[i]
        /\ \A j \in InBody(out, f, {"session"}) : \E i \in InBody(code, f, {"session"}) : j = old[i] /\ out[j] = code[i]
    BY KeptBody
  <2>2. ASSUME NEW i \in InBody(code, f, {"session"})
        PROVE code[i].name \in {out[j].name : j \in InBody(out, f, {"session"})}
    BY <2>1
  <2>3. ASSUME NEW j \in InBody(out, f, {"session"})
        PROVE out[j].name \in {code[i].name : i \in InBody(code, f, {"session"})}
    BY <2>1
  <2> QED BY <2>2, <2>3
<1>3. ASSUME NEW i \in StartsIn(code, f) PROVE old[i] \in StartsIn(out, f)
  BY <1>1, <1>2 DEF StartsIn
<1>4. ASSUME NEW j \in StartsIn(out, f) PROVE \E i : i \in StartsIn(code, f)
  <2>1. j \in InBody(out, f, {"start"})
    BY DEF StartsIn
  <2>2. PICK i \in InBody(code, f, {"start"}) : out[j] = code[i]
    BY <1>1, <2>1
  <2> QED BY <2>2, <1>2 DEF StartsIn
<1> QED BY <1>3, <1>4

-----------------------------------------------------------------------------
(* What the scanner sees of a repository after one of its files changed    *)

\* q is r with one file rewritten.
OnlyChanges(r, q, file) ==
  /\ file \in DOMAIN r.code /\ DOMAIN q.code = DOMAIN r.code
  /\ \A g \in DOMAIN r.code : g # file => q.code[g] = r.code[g]

\* No file gets a line, apart from code, that Python rejects.
SameGarbage(r, q) ==
  \A g \in DOMAIN r.code : "garbage" \in TextOf(q, g) <=> "garbage" \in TextOf(r, g)

\* With no garbage gained, an edit that parses leaves all as readable as it was.
LEMMA ReadableKept ==
  ASSUME NEW r, NEW q, NEW file, OnlyChanges(r, q, file), SameGarbage(r, q)
  PROVE  /\ \A g \in DOMAIN r.code : g # file => (Readable(q, g) <=> Readable(r, g))
         /\ Readable(r, file) /\ Parses(q.code[file]) => Readable(q, file)
BY DEF OnlyChanges, SameGarbage, Readable

\* The edited file imports the same frameworks.
KeepsFrameworks(code, out) ==
  \A fw \in {"livekit", "pipecat"} :
    (\E i \in Where(code, {"import"}) : code[i].name = fw) <=> (\E i \in Where(out, {"import"}) : out[i].name = fw)

\* What a repository is seen to import.
LEMMA SeenIs ==
  ASSUME NEW r, NEW fw
  PROVE  fw \in Seen(r) <=> /\ fw \in {"livekit", "pipecat"}
                            /\ \E file \in DOMAIN r.code \ MatrixTests :
                                  Readable(r, file) /\ \E i \in Where(r.code[file], {"import"}) : r.code[file][i].name = fw
<1>1. ASSUME fw \in Seen(r)
      PROVE  /\ fw \in {"livekit", "pipecat"}
             /\ \E file \in DOMAIN r.code \ MatrixTests :
                  Readable(r, file) /\ \E i \in Where(r.code[file], {"import"}) : r.code[file][i].name = fw
  <2>1. PICK e \in OfKind(r, "framework_import") : e.file \notin MatrixTests /\ e.framework = fw
    <3> DEFINE T == {i \in OfKind(r, "framework_import") : i.file \notin MatrixTests}
    <3>1. fw \in {e.framework : e \in T}
      BY <1>1 DEF Seen
    <3> HIDE DEF T
    <3>2. PICK e \in T : e.framework = fw
      BY <3>1
    <3> QED BY <3>2, Zenon DEF T
  <2>2. PICK file \in DOMAIN r.code : Readable(r, file) /\ \E i \in Where(r.code[file], {"import"}) :
          r.code[file][i].name \in {"livekit", "pipecat"} /\ ImportEv(e, file, i, r.code[file][i].name)
    BY ImportEvidence
  <2>3. PICK i \in Where(r.code[file], {"import"}) :
          r.code[file][i].name \in {"livekit", "pipecat"} /\ ImportEv(e, file, i, r.code[file][i].name)
    BY <2>2
  <2>4. e.file = file /\ e.framework = r.code[file][i].name
    BY <2>3, EvIs
  <2> QED BY <2>1, <2>2, <2>3, <2>4
<1>2. ASSUME fw \in {"livekit", "pipecat"}, NEW file \in DOMAIN r.code \ MatrixTests, Readable(r, file),
             NEW i \in Where(r.code[file], {"import"}), r.code[file][i].name = fw
      PROVE  fw \in Seen(r)
  <2>1. PICK e : ImportEv(e, file, i, fw)
    BY DEF ImportEv
  <2>2. e.file = file /\ e.framework = fw
    BY <2>1, EvIs
  <2>3. e \in OfKind(r, "framework_import")
    BY <1>2, <2>1, ImportEvidence
  <2> QED BY <2>2, <2>3 DEF Seen
<1> QED BY <1>1, <1>2

\* A repository with the same imports has the same framework.
LEMMA SameFramework ==
  ASSUME NEW r, NEW q, NEW file, OnlyChanges(r, q, file), SameGarbage(r, q), Readable(r, file), Readable(q, file),
         KeepsFrameworks(r.code[file], q.code[file])
  PROVE  Framework(q) = Framework(r)
<1>1. ASSUME NEW fw, fw \in Seen(r) PROVE fw \in Seen(q)
  <2>1. PICK g \in DOMAIN r.code \ MatrixTests :
          Readable(r, g) /\ \E i \in Where(r.code[g], {"import"}) : r.code[g][i].name = fw
    BY <1>1, SeenIs
  <2>2. fw \in {"livekit", "pipecat"}
    BY <1>1, SeenIs
  <2>3. g \in DOMAIN q.code \ MatrixTests /\ Readable(q, g)
           /\ \E i \in Where(q.code[g], {"import"}) : q.code[g][i].name = fw
    BY <2>1, <2>2, ReadableKept DEF OnlyChanges, KeepsFrameworks
  <2> QED BY <2>2, <2>3, SeenIs
<1>2. ASSUME NEW fw, fw \in Seen(q) PROVE fw \in Seen(r)
  <2>1. PICK g \in DOMAIN q.code \ MatrixTests :
          Readable(q, g) /\ \E i \in Where(q.code[g], {"import"}) : q.code[g][i].name = fw
    BY <1>2, SeenIs
  <2>2. fw \in {"livekit", "pipecat"}
    BY <1>2, SeenIs
  <2>3. g \in DOMAIN r.code \ MatrixTests /\ Readable(r, g)
           /\ \E i \in Where(r.code[g], {"import"}) : r.code[g][i].name = fw
    BY <2>1, <2>2, ReadableKept DEF OnlyChanges, KeepsFrameworks
  <2> QED BY <2>2, <2>3, SeenIs
<1>3. Seen(r) = Seen(q)
  BY <1>1, <1>2
<1> QED BY <1>3 DEF Framework

-----------------------------------------------------------------------------
(* The entrypoints of a repository after one of its files changed          *)

\* The LiveKit entries of an edited file are those it had.
LEMMA KeptLiveKitEntries ==
  ASSUME NEW code, NEW out, NEW old, NEW ops, Keeps(code, out, old, ops), {"def", "start", "session"} \subseteq ops,
         NEW i \in Where(code, {"def"})
  PROVE  old[i] \in Where(out, {"def"}) /\ out[old[i]] = code[i] /\ (IsLiveKitEntry(out, old[i]) <=> IsLiveKitEntry(code, i))
<1>1. old[i] \in Where(out, {"def"}) /\ out[old[i]] = code[i]
  BY DEF Keeps, Where
<1>2. StartsIn(out, code[i].name) # {} <=> StartsIn(code, code[i].name) # {}
  BY KeptStarts
<1> QED BY <1>1, <1>2 DEF IsLiveKitEntry

\* A repository with one file changed, which keeps its functions and which of
\* them are entrypoints of fw, has one entrypoint of fw if it had one.
SameEntries(fw, r, q, file, old) ==
  /\ OnlyChanges(r, q, file) /\ SameGarbage(r, q) /\ Readable(r, file) /\ Readable(q, file)
  /\ \A i, j \in Where(r.code[file], {"def"}) : i < j => old[i] < old[j]
  /\ \A i \in Where(r.code[file], {"def"}) :
        /\ old[i] \in Where(q.code[file], {"def"}) /\ q.code[file][old[i]] = r.code[file][i]
        /\ EntryAt(r, fw, file, i) <=> EntryAt(q, fw, file, old[i])
  /\ \A j \in Where(q.code[file], {"def"}) : \E i \in Where(r.code[file], {"def"}) : j = old[i]

\* An entry of the repository is one of the edited repository.
LEMMA EntryKept ==
  ASSUME NEW fw, NEW r, NEW q, NEW file, NEW old, SameEntries(fw, r, q, file, old), NEW e \in Entries(r, fw)
  PROVE  \E d \in Entries(q, fw) : /\ d.file = e.file /\ d.fn = e.fn
                                   /\ d.line = (IF e.file = file THEN old[e.line] ELSE e.line)
<1>1. EntryAt(r, fw, e.file, e.line) /\ e.fn = r.code[e.file][e.line].name
  BY EntryIs
<1>2. CASE e.file = file
  <2>1. e.line \in Where(r.code[file], {"def"})
    BY <1>1, <1>2 DEF EntryAt
  <2>2. EntryAt(q, fw, file, old[e.line]) /\ q.code[file][old[e.line]].name = e.fn
    BY <1>1, <1>2, <2>1 DEF SameEntries
  <2>3. \E d \in Entries(q, fw) : d.file = file /\ d.line = old[e.line] /\ d.fn = q.code[file][old[e.line]].name
    BY <2>2, EntryIn
  <2> QED BY <1>2, <2>2, <2>3
<1>3. CASE e.file # file
  <2>1. EntryAt(q, fw, e.file, e.line) /\ q.code[e.file][e.line].name = e.fn
    BY <1>1, <1>3, ReadableKept DEF SameEntries, OnlyChanges, EntryAt
  <2> QED BY <1>3, <2>1, EntryIn
<1> QED BY <1>2, <1>3

\* An entry of the edited repository was one before.
LEMMA EntryWas ==
  ASSUME NEW fw, NEW r, NEW q, NEW file, NEW old, SameEntries(fw, r, q, file, old), NEW d \in Entries(q, fw)
  PROVE  \E e \in Entries(r, fw) : /\ d.file = e.file /\ d.fn = e.fn
                                   /\ d.line = (IF e.file = file THEN old[e.line] ELSE e.line)
<1>1. EntryAt(q, fw, d.file, d.line) /\ d.fn = q.code[d.file][d.line].name
  BY EntryIs
<1>2. CASE d.file = file
  <2>1. d.line \in Where(q.code[file], {"def"})
    BY <1>1, <1>2 DEF EntryAt
  <2>2. PICK i \in Where(r.code[file], {"def"}) : d.line = old[i]
    BY <2>1 DEF SameEntries
  <2>3. EntryAt(r, fw, file, i) /\ r.code[file][i].name = d.fn
    BY <1>1, <1>2, <2>2 DEF SameEntries
  <2>4. \E e \in Entries(r, fw) : e.file = file /\ e.line = i /\ e.fn = r.code[file][i].name
    BY <2>3, EntryIn
  <2> QED BY <1>2, <2>2, <2>3, <2>4
<1>3. CASE d.file # file
  <2>1. EntryAt(r, fw, d.file, d.line) /\ r.code[d.file][d.line].name = d.fn
    BY <1>1, <1>3, ReadableKept DEF SameEntries, OnlyChanges, EntryAt
  <2>2. \E e \in Entries(r, fw) : e.file = d.file /\ e.line = d.line /\ e.fn = r.code[d.file][d.line].name
    BY <2>1, EntryIn
  <2> QED BY <1>3, <2>1, <2>2
<1> QED BY <1>2, <1>3

\* One entry before, one entry after.
LEMMA StillOneEntry ==
  ASSUME NEW fw, NEW r, NEW q, NEW file, NEW old, SameEntries(fw, r, q, file, old), NEW e, Entries(r, fw) = {e}
  PROVE  \E d : Entries(q, fw) = {d} /\ d.file = e.file /\ d.fn = e.fn
<1>1. PICK d \in Entries(q, fw) : d.file = e.file /\ d.fn = e.fn /\ d.line = (IF e.file = file THEN old[e.line] ELSE e.line)
  BY EntryKept
<1>2. ASSUME NEW c \in Entries(q, fw) PROVE c = d
  <2>1. c.file = e.file /\ c.line = (IF e.file = file THEN old[e.line] ELSE e.line)
    BY EntryWas
  <2> QED BY <1>1, <2>1, EntriesDiffer
<1> QED BY <1>1, <1>2

-----------------------------------------------------------------------------
(* A plan that was carried out                                             *)

\* What the tracer action of a carried-out plan is, and does.
Carried(r, mode, q, a) ==
  /\ mode \in Modes /\ ~Existing(r) /\ OnlyChanges(r, q, a.file) /\ a.type \in TracerActions
  /\ Framework(r) = "livekit" =>
       /\ a.type = SessionAction(mode)
       /\ AnchorStarts(r, a.file) # {} /\ ~LiveKitRefuses(r, a) /\ q.code[a.file] = IntegrateLiveKit(r, a)
  /\ Framework(r) = "pipecat" =>
       /\ a.type \in PipecatActions
       /\ AnchorTasks(r, a.file) # {} /\ ~PipecatRefuses(r, a) /\ q.code[a.file] = IntegratePipecat(r, mode, a)

\* A plan for a repository that is integrated already changes nothing.
LEMMA NoopChangesNothing ==
  ASSUME NEW r, WellFormed(r), NEW mode, NEW p, Accepted(r, mode, p), Existing(r)
  PROVE  Build(r, mode, p) = r
<1>1. \A a \in p : a.type = "already_integrated_noop"
  BY DEF Accepted, AllowedActions, TextActions
<1>2. {a \in p : a.type \in TracerActions} = {} /\ Dependencies(p) = {} /\ Placeholders(p) = {}
  BY <1>1 DEF TracerActions, SessionActions, PipecatActions, Dependencies, Placeholders
<1>3. PICK c, d : r = [code |-> c, deps |-> d]
  BY DEF WellFormed
<1>4. r.code = [file \in DOMAIN r.code |-> r.code[file]]
  BY DEF WellFormed
<1>5. AppendText(r, p) = r.deps
  <2>1. \A file : Required(r, p, file) = {}
    BY <1>2 DEF Required
  <2>2. AppendText(r, p) = [file \in DOMAIN r.deps |-> TextOf(r, file)]
    BY <1>2, <2>1 DEF AppendText
  <2>3. \A file \in DOMAIN r.deps : TextOf(r, file) = r.deps[file]
    BY DEF TextOf
  <2>4. r.deps = [file \in DOMAIN r.deps |-> r.deps[file]]
    BY DEF WellFormed
  <2> QED BY <2>2, <2>3, <2>4
<1>6. Build(r, mode, p) = [code |-> [file \in DOMAIN r.code |-> r.code[file]], deps |-> r.deps]
  BY <1>2, <1>5 DEF Build
<1>7. [code |-> r.code, deps |-> r.deps] = r
  BY <1>3
<1> QED BY <1>4, <1>6, <1>7

\* An accepted plan is carried out by its one tracer action.
LEMMA CarriedOutAs ==
  ASSUME NEW r, WellFormed(r), Supported(r), ~Existing(r), NEW mode, NEW p, Accepted(r, mode, p),
         BuildVerdict(r, p) = "ok", NEW q, q = Build(r, mode, p)
  PROVE  \E a \in p : Carried(r, mode, q, a)
<1> DEFINE tracer == {b \in p : b.type \in TracerActions}
<1>1. ~Existing(r) /\ mode \in Modes
  BY DEF Accepted
<1>2. PICK a : tracer = {a}
  BY <1>1 DEF Accepted
<1>3. a \in p /\ a.type \in TracerActions
  BY <1>2
<1>4. a.type \in AllowedActions(Framework(r), mode, FALSE)
  BY <1>1, <1>3 DEF Accepted, AllowedActions, TextActions
<1>5. Framework(r) \in {"livekit", "pipecat"}
  BY SupportedIs DEF SupportedFacts
<1>6. /\ Framework(r) = "livekit" => a.type = SessionAction(mode) /\ a.type \in SessionActions
      /\ Framework(r) = "pipecat" => a.type \in PipecatActions /\ a.type \notin SessionActions
  BY <1>3, <1>4 DEF AllowedActions, TextActions, SessionAction, TracerActions, SessionActions, PipecatActions
<1>7. ~AdapterRaises(r, a) /\ (a.type \in SessionActions => ~LiveKitRefuses(r, a))
        /\ (a.type \notin SessionActions => ~PipecatRefuses(r, a))
  BY <1>3, BuildAllows
<1>8. /\ Framework(r) = "livekit" => AnchorStarts(r, a.file) # {} /\ ~LiveKitRefuses(r, a)
      /\ Framework(r) = "pipecat" => AnchorTasks(r, a.file) # {} /\ ~PipecatRefuses(r, a)
  BY <1>6, <1>7 DEF AdapterRaises
<1>9. a.file \in DOMAIN r.code
  <2>1. CASE Framework(r) = "livekit"
    <3>1. PICK e \in OfKind(r, "session_start") : e.file = a.file
      BY <1>8, <2>1 DEF AnchorStarts
    <3>2. PICK file \in DOMAIN r.code : \E f : \E i : StartEv(e, file, i, f)
      BY StartEvidence
    <3>3. PICK f, i : StartEv(e, file, i, f)
      BY <3>2
    <3>4. e.file = file
      BY <3>3, EvIs
    <3> QED BY <3>1, <3>4
  <2>2. CASE Framework(r) = "pipecat"
    <3>1. PICK e \in OfKind(r, "pipeline_task") : e.file = a.file
      BY <1>8, <2>2 DEF AnchorTasks
    <3>2. PICK file \in DOMAIN r.code : \E i, f : TaskEv(e, file, i, f)
      BY TaskEvidence
    <3> QED BY <3>1, <3>2, EvIs
  <2> QED BY <1>5, <2>1, <2>2
<1>10. q.code = [file \in DOMAIN r.code |->
            IF \E b \in tracer : b.file = file
            THEN LET b == CHOOSE b \in tracer : b.file = file
                 IN  IF b.type \in SessionActions THEN IntegrateLiveKit(r, b) ELSE IntegratePipecat(r, mode, b)
            ELSE r.code[file]]
  BY DEF Build
<1> HIDE DEF tracer
<1>11. /\ DOMAIN q.code = DOMAIN r.code
       /\ \A file \in DOMAIN r.code : file # a.file => q.code[file] = r.code[file]
       /\ q.code[a.file] = IF a.type \in SessionActions THEN IntegrateLiveKit(r, a) ELSE IntegratePipecat(r, mode, a)
  BY <1>2, <1>9, <1>10
<1>12. OnlyChanges(r, q, a.file)
  BY <1>9, <1>11 DEF OnlyChanges
<1> QED BY <1>1, <1>3, <1>6, <1>8, <1>11, <1>12 DEF Carried

\* An accepted plan carried out rewrites the file it names, and no other.
LEMMA CarriedOut ==
  ASSUME NEW r, WellFormed(r), Supported(r), NEW mode, NEW p, Accepted(r, mode, p), BuildVerdict(r, p) = "ok",
         NEW q, q = Build(r, mode, p), q # r
  PROVE  \E a : Carried(r, mode, q, a)
<1>1. ~Existing(r)
  BY NoopChangesNothing
<1> QED BY <1>1, CarriedOutAs

\* How a file of a LiveKit agent is edited.
LiveKitEdit(r, mode, file, out, start, at, n, H, d, L, old, head, new) ==
  LET code == r.code[file]
  IN  /\ d = 0 /\ CodeOk(code) /\ Where(code, TracerCalls) = {}
      /\ \A i \in Where(code, {"import"}) : code[i].name \notin Tracers \cup {"cekura"}
      /\ LiveKitAnchor(r, file, start, at) /\ n = ImportInsertionLine(code)
      /\ LiveKitLines(code, at, SessionAction(mode), H, L)
      /\ Edited(code, out, n, H, at, d, L, old, head, new)

\* A carried-out LiveKit plan is a LiveKitEdit.
LEMMA LiveKitEdits ==
  ASSUME NEW r, WellFormed(r), TracedOnce(r), Supported(r), Framework(r) = "livekit",
         NEW mode, NEW q, NEW a, Carried(r, mode, q, a)
  PROVE  \E start, at, n, H, d, L, old, head, new :
           LiveKitEdit(r, mode, a.file, q.code[a.file], start, at, n, H, d, L, old, head, new)
<1> DEFINE code == r.code[a.file]
           out == q.code[a.file]
<1>1. /\ ~Existing(r) /\ a.file \in DOMAIN r.code /\ a.type = SessionAction(mode)
      /\ AnchorStarts(r, a.file) # {} /\ out = IntegrateLiveKit(r, a)
  BY DEF Carried, OnlyChanges
<1>2. PICK start, at, n, H, L, old, head, new :
           /\ LiveKitAnchor(r, a.file, start, at) /\ start = FirstOf(r, AnchorStarts(r, a.file))
           /\ n = ImportInsertionLine(code)
           /\ LiveKitLines(code, at, a.type, H, L)
           /\ Edited(code, out, n, H, at, 0, L, old, head, new)
  BY <1>1, LiveKitWrites
<1>3. PICK d : d = 0
  OBVIOUS
<1>4. Edited(code, out, n, H, at, d, L, old, head, new)
  BY <1>2, <1>3, Zenon
<1>5. LiveKitLines(code, at, SessionAction(mode), H, L)
  BY <1>1, <1>2, Zenon
<1>6. Readable(r, a.file)
  BY <1>2 DEF LiveKitAnchor
<1>7. /\ CodeOk(code) /\ Where(code, TracerCalls) = {}
      /\ \A i \in Where(code, {"import"}) : code[i].name \notin Tracers \cup {"cekura"}
  BY <1>1, <1>6, FileIs, NothingExisting
<1>8. LiveKitEdit(r, mode, a.file, out, start, at, n, H, d, L, old, head, new)
  BY <1>2, <1>3, <1>4, <1>5, <1>7 DEF LiveKitEdit
<1> QED BY <1>8

\* How a file of a Pipecat agent is edited.
PipecatEdit(r, mode, type, file, out, task, at, n, H, d, L, old, head, new) ==
  LET code == r.code[file]
  IN  /\ d = 1 /\ CodeOk(code) /\ Where(code, TracerCalls) = {} /\ type \in PipecatActions
      /\ \A i \in Where(code, {"import"}) : code[i].name \notin Tracers \cup {"cekura"}
      /\ PipecatAnchor(r, file, task, at) /\ n = ImportInsertionLine(code)
      /\ code[at].op = "task" /\ old[at] = new[IF type = "pipecat_multi_step" THEN 3 ELSE 2]
      /\ PipecatLines(code, at, mode, type, H, L)
      /\ Edited(code, out, n, H, at, d, L, old, head, new)

\* Naming the parts of a Pipecat edit.
LEMMA PipecatPick ==
  ASSUME NEW r, WellFormed(r), Supported(r), Framework(r) = "pipecat", NEW mode \in Modes, NEW a, AnchorTasks(r, a.file) # {}
  PROVE  \E task, at, n, H, L, old, head, new :
           /\ PipecatAnchor(r, a.file, task, at) /\ task = FirstOf(r, AnchorTasks(r, a.file))
           /\ n = ImportInsertionLine(r.code[a.file])
           /\ PipecatLines(r.code[a.file], at, mode, a.type, H, L)
           /\ Edited(r.code[a.file], IntegratePipecat(r, mode, a), n, H, at, 1, L, old, head, new)
           /\ old[at] = new[IF a.type = "pipecat_multi_step" THEN 3 ELSE 2]
BY PipecatWrites

\* A carried-out Pipecat plan is a PipecatEdit.
LEMMA PipecatEdits ==
  ASSUME NEW r, WellFormed(r), TracedOnce(r), Supported(r), Framework(r) = "pipecat",
         NEW mode \in Modes, NEW q, NEW a, Carried(r, mode, q, a)
  PROVE  \E task, at, n, H, d, L, old, head, new :
           PipecatEdit(r, mode, a.type, a.file, q.code[a.file], task, at, n, H, d, L, old, head, new)
<1> DEFINE code == r.code[a.file]
           out == q.code[a.file]
<1>1. /\ ~Existing(r) /\ a.file \in DOMAIN r.code /\ a.type \in PipecatActions /\ mode \in Modes
      /\ AnchorTasks(r, a.file) # {} /\ ~PipecatRefuses(r, a) /\ out = IntegratePipecat(r, mode, a)
  BY DEF Carried, OnlyChanges
<1>2. PICK task, at, n, H, L, old, head, new :
           /\ PipecatAnchor(r, a.file, task, at) /\ task = FirstOf(r, AnchorTasks(r, a.file))
           /\ n = ImportInsertionLine(code)
           /\ PipecatLines(code, at, mode, a.type, H, L)
           /\ Edited(code, out, n, H, at, 1, L, old, head, new)
           /\ old[at] = new[IF a.type = "pipecat_multi_step" THEN 3 ELSE 2]
  <2>1. AnchorTasks(r, a.file) # {} /\ mode \in Modes
    BY <1>1
  <2>2. PICK task, at, n, H, L, old, head, new :
           /\ PipecatAnchor(r, a.file, task, at) /\ task = FirstOf(r, AnchorTasks(r, a.file))
           /\ n = ImportInsertionLine(r.code[a.file])
           /\ PipecatLines(r.code[a.file], at, mode, a.type, H, L)
           /\ Edited(r.code[a.file], IntegratePipecat(r, mode, a), n, H, at, 1, L, old, head, new)
           /\ old[at] = new[IF a.type = "pipecat_multi_step" THEN 3 ELSE 2]
    BY <2>1, PipecatPick
  <2>3. Edited(code, out, n, H, at, 1, L, old, head, new)
    BY <1>1, <2>2, Zenon
  <2> QED BY <2>2, <2>3
<1>3. PICK d : d = 1
  OBVIOUS
<1>4. Edited(code, out, n, H, at, d, L, old, head, new)
  BY <1>2, <1>3, Zenon
<1>5. LineOf(r, task) = code[at] /\ Readable(r, a.file)
  BY <1>2 DEF PipecatAnchor, LineOf
<1>6. code[at].op = "task"
  BY <1>1, <1>2, <1>5 DEF PipecatRefuses
<1>7. /\ CodeOk(code) /\ Where(code, TracerCalls) = {}
      /\ \A i \in Where(code, {"import"}) : code[i].name \notin Tracers \cup {"cekura"}
  BY <1>1, <1>5, FileIs, NothingExisting
<1>8. PipecatEdit(r, mode, a.type, a.file, out, task, at, n, H, d, L, old, head, new)
  BY <1>1, <1>2, <1>3, <1>4, <1>6, <1>7 DEF PipecatEdit
<1> QED BY <1>8

-----------------------------------------------------------------------------
(* What the scanner sees of a repository that was integrated               *)

\* An edit imports neither framework and drops no import.
SparesFrameworks(code, H, at, d, L) ==
  /\ d \in {0, 1} /\ (d = 1 => code[at].op # "import")
  /\ \A k \in 1..Len(H) : H[k].op = "import" => H[k].name \in {"os"} \cup Tracers
  /\ \A k \in 1..Len(L) : L[k].op # "import"

\* An edit that spares framework imports keeps the framework.
LEMMA EditKeepsFrameworks ==
  ASSUME NEW code, NEW out, NEW n, NEW H, NEW at, NEW d, NEW L, NEW old, NEW head, NEW new,
         CodeOk(code), Edited(code, out, n, H, at, d, L, old, head, new),
         SparesFrameworks(code, H, at, d, L)
  PROVE  KeepsFrameworks(code, out)
<1> USE DEF SparesFrameworks
<1>1. ASSUME NEW fw \in {"livekit", "pipecat"}, NEW i \in Where(code, {"import"}), code[i].name = fw
      PROVE  \E j \in Where(out, {"import"}) : out[j].name = fw
  <2>1. i \in DOMAIN code /\ code[i].op = "import" /\ (d = 0 \/ i # at)
    BY DEF Where
  <2>2. old[i] \in DOMAIN out /\ out[old[i]] = code[i]
    BY <2>1, EditedIs
  <2>3. old[i] \in Where(out, {"import"}) /\ out[old[i]].name = fw
    BY <1>1, <2>1, <2>2 DEF Where
  <2> QED BY <2>3
<1>2. ASSUME NEW fw \in {"livekit", "pipecat"}, NEW j \in Where(out, {"import"}), out[j].name = fw
      PROVE  \E i \in Where(code, {"import"}) : code[i].name = fw
  <2>1. j \in DOMAIN out /\ out[j].op = "import"
    BY DEF Where
  <2>2. ComesFrom(code, out, at, d, H, L, old, head, new, j)
    BY <2>1, EditedIs
  <2>3. fw \notin {"os"} \cup Tracers
    BY DEF Tracers
  <2>4. ~\E k \in 1..Len(H) : out[j] = H[k]
    BY <1>2, <2>1, <2>3
  <2>5. PICK i \in DOMAIN code : out[j] = code[i]
    BY <2>1, <2>2, <2>4 DEF ComesFrom
  <2>6. i \in Where(code, {"import"}) /\ code[i].name = fw
    BY <1>2, <2>1, <2>5 DEF Where
  <2> QED BY <2>6
<1> QED BY <1>1, <1>2 DEF KeepsFrameworks

\* The operations the LiveKit edit neither adds nor replaces.
LiveKitKept == Ops \ ({"import", "tracer"} \cup SessionCalls)

\* The LiveKit edit keeps them, in order.
LEMMA LiveKitKeeps ==
  ASSUME NEW r, NEW mode, NEW file, NEW out, NEW start, NEW at, NEW n, NEW H, NEW d, NEW L,
         NEW old, NEW head, NEW new, LiveKitEdit(r, mode, file, out, start, at, n, H, d, L, old, head, new)
  PROVE  /\ Keeps(r.code[file], out, old, LiveKitKept) /\ KeepsFrameworks(r.code[file], out)
         /\ Readable(r, file) /\ Parses(out)
<1> DEFINE code == r.code[file]
<1>1. /\ CodeOk(code) /\ Edited(code, out, n, H, at, d, L, old, head, new) /\ d = 0 /\ d \in {0, 1}
      /\ LiveKitLines(code, at, SessionAction(mode), H, L) /\ Readable(r, file) /\ Where(code, TracerCalls) = {}
  BY DEF LiveKitEdit, LiveKitAnchor
<1> HIDE DEF code
<1>2. ASSUME NEW k \in 1..Len(H)
      PROVE  H[k].op \in {"import", "tracer"} /\ (H[k].op = "import" => H[k].name \in {"os"} \cup Tracers)
  <2>1. H \in Seq(Lines) /\ Len(H) \in Nat
    BY <1>1 DEF LiveKitLines
  <2>2. CASE k = Len(H)
    BY <2>2, <1>1 DEF LiveKitLines
  <2>3. CASE k \in 1..(Len(H) - 1)
    BY <2>3, <1>1 DEF LiveKitLines, ImportFor, Tracers
  <2> QED BY <2>1, <2>2, <2>3
<1>3. ASSUME NEW k \in 1..Len(L) PROVE L[k].op \in SessionCalls
  <2>1. k = 1
    BY <1>1 DEF LiveKitLines
  <2> QED BY <1>1, <2>1 DEF LiveKitLines, SessionCalls
<1>4. Spares(code, H, at, d, L, LiveKitKept)
  BY <1>1, <1>2, <1>3 DEF Spares, LiveKitKept
<1>5. Keeps(code, out, old, LiveKitKept)
  BY <1>1, <1>4, KeepsIs
<1>6. SparesFrameworks(code, H, at, d, L)
  BY <1>1, <1>2, <1>3 DEF SparesFrameworks, SessionCalls
<1>7. KeepsFrameworks(code, out)
  BY <1>1, <1>6, EditKeepsFrameworks
<1>8. Parses(out)
  <2> SUFFICES ASSUME NEW j \in Where(out, WrapCalls) PROVE FALSE
    BY DEF Parses
  <2>1. \A o \in WrapCalls : o \in LiveKitKept /\ o \in TracerCalls
    BY DEF WrapCalls, LiveKitKept, TracerCalls, SessionCalls, CreateCalls, Ops
  <2>2. j \in Where(out, LiveKitKept)
    BY <2>1 DEF Where
  <2>3. PICK i \in Where(code, LiveKitKept) : out[j] = code[i]
    BY <1>5, <2>2 DEF Keeps
  <2>4. i \in Where(code, TracerCalls)
    BY <2>1, <2>3 DEF Where
  <2> QED BY <1>1, <2>4
<1> QED BY <1>1, <1>5, <1>7, <1>8 DEF code

\* The LiveKit edit leaves framework and entries as they were.
LEMMA LiveKitSame ==
  ASSUME NEW r, NEW mode, NEW q, NEW file, OnlyChanges(r, q, file), SameGarbage(r, q), NEW start, NEW at, NEW n, NEW H, NEW d, NEW L,
         NEW old, NEW head, NEW new, LiveKitEdit(r, mode, file, q.code[file], start, at, n, H, d, L, old, head, new),
         NEW fw, fw = "livekit"
  PROVE  SameEntries(fw, r, q, file, old)
<1> DEFINE code == r.code[file]
           out == q.code[file]
<1>1. Keeps(code, out, old, LiveKitKept) /\ Readable(r, file) /\ Readable(q, file)
  BY LiveKitKeeps, ReadableKept
<1>2. {"def", "start", "session"} \subseteq LiveKitKept
  BY DEF LiveKitKept, Ops, SessionCalls
<1>3. file \in DOMAIN r.code /\ file \in DOMAIN q.code
  BY DEF OnlyChanges
<1> HIDE DEF code, out
<1>4. ASSUME NEW i \in Where(code, {"def"})
      PROVE  old[i] \in Where(out, {"def"}) /\ out[old[i]] = code[i] /\ (IsLiveKitEntry(out, old[i]) <=> IsLiveKitEntry(code, i))
  BY <1>1, <1>2, KeptLiveKitEntries
<1>5. \A i, j \in Where(code, {"def"}) : i < j => old[i] < old[j]
  BY <1>1, <1>2 DEF Keeps, Where
<1>6. ASSUME NEW j \in Where(out, {"def"}) PROVE \E i \in Where(code, {"def"}) : j = old[i]
  <2>1. j \in Where(out, LiveKitKept) /\ out[j].op = "def"
    BY <1>2 DEF Where
  <2>2. PICK i \in Where(code, LiveKitKept) : j = old[i] /\ out[j] = code[i]
    BY <1>1, <2>1 DEF Keeps
  <2> QED BY <2>1, <2>2 DEF Where
<1>7. ASSUME NEW i \in Where(code, {"def"}) PROVE EntryAt(r, fw, file, i) <=> EntryAt(q, fw, file, old[i])
  <2>1. EntryAt(r, fw, file, i) <=> file \notin ScannerTests /\ IsLiveKitEntry(code, i)
    BY <1>1, <1>3 DEF EntryAt, code
  <2>2. EntryAt(q, fw, file, old[i]) <=> file \notin ScannerTests /\ IsLiveKitEntry(out, old[i])
    BY <1>1, <1>3, <1>4 DEF EntryAt, out
  <2> QED BY <2>1, <2>2, <1>4
<1> QED BY <1>1, <1>4, <1>5, <1>6, <1>7 DEF SameEntries, code, out

-----------------------------------------------------------------------------
(* A Pipecat agent after its task was traced                               *)

\* No task of a file takes its pipeline as an expression.
NamesPipelines(code) == \A i \in Where(code, {"task", "pipeline_worker"} \cup CreateCalls \cup WrapCalls) : "inline" \notin code[i].has

\* The operations the Pipecat edit neither adds nor replaces.
PipecatKept == Ops \ ({"import", "tracer", "task", "register"} \cup CreateCalls \cup WrapCalls)

\* Which line of the edit is the task.
TaskLine(type) == IF type = "pipecat_multi_step" THEN 3 ELSE 2

\* The operations of the lines the Pipecat edit puts in.
LEMMA PipecatOps ==
  ASSUME NEW code, NEW at, NEW mode \in Modes, NEW type, NEW H, NEW L, PipecatLines(code, at, mode, type, H, L)
  PROVE  /\ \A k \in 1..Len(H) : H[k].op = "import" /\ H[k].name \in {"os"} \cup Tracers
         /\ \A k \in 1..Len(L) : L[k].op \in {"tracer", "task", "register"} \cup CreateCalls \cup WrapCalls
         /\ TaskLine(type) \in 1..Len(L) /\ L[TaskLine(type)].op \in {"task"} \cup CreateCalls
         /\ "inline" \notin code[at].has => \A k \in 1..Len(L) :
               L[k].op \in {"task"} \cup CreateCalls \cup WrapCalls => "inline" \notin L[k].has
<1>1. \A k \in 1..Len(H) : H[k].op = "import" /\ H[k].name \in {"os"} \cup Tracers
  BY DEF PipecatLines, Imports, ImportFor, Tracers
<1>2. /\ L[1].op = "tracer"
      /\ L[2].op = CallFor(mode, IF type = "pipecat_multi_step" THEN WrapCalls ELSE CreateCalls)
      /\ L[2].has = code[at].has \cap {"inline"}
      /\ Len(L) = (IF type = "pipecat_multi_step" THEN 4 ELSE 2)
      /\ type = "pipecat_multi_step" => L[3].op = "task" /\ L[3].has = TracingFlags(code[at].has) /\ L[4].op = "register"
  BY DEF PipecatLines
<1>3. "inline" \notin code[at].has => "inline" \notin TracingFlags(code[at].has)
  BY DEF TracingFlags
<1>4. CASE type = "pipecat_multi_step"
  <2>1. L[2].op \in WrapCalls /\ Len(L) = 4 /\ TaskLine(type) = 3
    BY <1>2, <1>4, CallForIs DEF TaskLine
  <2>2. \A k \in 1..Len(L) : k = 1 \/ k = 2 \/ k = 3 \/ k = 4
    BY <2>1
  <2>3. \A k \in 1..Len(L) : L[k].op \in {"tracer", "task", "register"} \cup CreateCalls \cup WrapCalls
    BY <1>2, <1>4, <2>1, <2>2
  <2>4. TaskLine(type) \in 1..Len(L) /\ L[TaskLine(type)].op \in {"task"} \cup CreateCalls
    BY <1>2, <1>4, <2>1
  <2>5. L[1].op \notin {"task"} \cup CreateCalls \cup WrapCalls /\ L[4].op \notin {"task"} \cup CreateCalls \cup WrapCalls
    BY <1>2, <1>4 DEF CreateCalls, WrapCalls
  <2>6. "inline" \notin code[at].has => "inline" \notin L[2].has /\ "inline" \notin L[3].has
    BY <1>2, <1>3, <1>4
  <2> QED BY <1>1, <2>2, <2>3, <2>4, <2>5, <2>6
<1>5. CASE type # "pipecat_multi_step"
  <2>1. L[2].op \in CreateCalls /\ Len(L) = 2 /\ TaskLine(type) = 2
    BY <1>2, <1>5, CallForIs DEF TaskLine
  <2>2. \A k \in 1..Len(L) : k = 1 \/ k = 2
    BY <2>1
  <2>3. \A k \in 1..Len(L) : L[k].op \in {"tracer", "task", "register"} \cup CreateCalls \cup WrapCalls
    BY <1>2, <2>1, <2>2
  <2>4. TaskLine(type) \in 1..Len(L) /\ L[TaskLine(type)].op \in {"task"} \cup CreateCalls
    BY <2>1
  <2>5. L[1].op \notin {"task"} \cup CreateCalls \cup WrapCalls
    BY <1>2 DEF CreateCalls, WrapCalls
  <2>6. "inline" \notin code[at].has => "inline" \notin L[2].has
    BY <1>2
  <2> QED BY <1>1, <2>2, <2>3, <2>4, <2>5, <2>6
<1> QED BY <1>4, <1>5

\* The Pipecat edit keeps the other lines, in order.
LEMMA PipecatKeeps ==
  ASSUME NEW r, NEW mode \in Modes, NEW type, NEW file, NEW out, NEW task, NEW at, NEW n, NEW H, NEW d, NEW L,
         NEW old, NEW head, NEW new, PipecatEdit(r, mode, type, file, out, task, at, n, H, d, L, old, head, new)
  PROVE  /\ Keeps(r.code[file], out, old, PipecatKept) /\ KeepsFrameworks(r.code[file], out)
         /\ Readable(r, file) /\ (NamesPipelines(r.code[file]) => NamesPipelines(out) /\ Parses(out))
<1> DEFINE code == r.code[file]
<1>1. /\ CodeOk(code) /\ Edited(code, out, n, H, at, d, L, old, head, new) /\ d = 1
      /\ PipecatLines(code, at, mode, type, H, L) /\ Readable(r, file) /\ code[at].op = "task" /\ at \in DOMAIN code
  BY DEF PipecatEdit, PipecatAnchor, TasksIn, InBody, Where
<1> HIDE DEF code
<1>2. /\ \A k \in 1..Len(H) : H[k].op = "import" /\ H[k].name \in {"os"} \cup Tracers
      /\ \A k \in 1..Len(L) : L[k].op \in {"tracer", "task", "register"} \cup CreateCalls \cup WrapCalls
      /\ "inline" \notin code[at].has => \A k \in 1..Len(L) :
            L[k].op \in {"task"} \cup CreateCalls \cup WrapCalls => "inline" \notin L[k].has
  BY <1>1, PipecatOps
<1>3. Spares(code, H, at, d, L, PipecatKept)
  BY <1>1, <1>2 DEF Spares, PipecatKept
<1>4. Keeps(code, out, old, PipecatKept)
  BY <1>1, <1>3, KeepsIs
<1>5. SparesFrameworks(code, H, at, d, L)
  BY <1>1, <1>2 DEF SparesFrameworks, CreateCalls, WrapCalls
<1>6. KeepsFrameworks(code, out)
  BY <1>1, <1>5, EditKeepsFrameworks
<1>7. ASSUME NamesPipelines(code) PROVE NamesPipelines(out)
  <2> DEFINE tasks == {"task", "pipeline_worker"} \cup CreateCalls \cup WrapCalls
  <2>1. "inline" \notin code[at].has
    BY <1>1, <1>7 DEF NamesPipelines, Where
  <2> SUFFICES ASSUME NEW j \in Where(out, tasks) PROVE "inline" \notin out[j].has
    BY DEF NamesPipelines
  <2>2. j \in DOMAIN out /\ out[j].op \in tasks
    BY DEF Where
  <2>3. ComesFrom(code, out, at, d, H, L, old, head, new, j)
    BY <1>1, <2>2, EditedIs
  <2>4. CASE \E i \in DOMAIN code : out[j] = code[i]
    BY <1>7, <2>2, <2>4 DEF NamesPipelines, Where
  <2>5. CASE \E k \in 1..Len(L) : out[j] = L[k]
    <3>1. PICK k \in 1..Len(L) : out[j] = L[k]
      BY <2>5
    <3>2. L[k].op \in {"task"} \cup CreateCalls \cup WrapCalls
      BY <1>2, <2>2, <3>1
    <3> QED BY <1>2, <2>1, <3>1, <3>2
  <2>6. ~\E k \in 1..Len(H) : out[j] = H[k]
    BY <1>2, <2>2 DEF CreateCalls, WrapCalls
  <2> QED BY <2>3, <2>4, <2>5, <2>6 DEF ComesFrom
<1>8. NamesPipelines(out) => Parses(out)
  BY DEF NamesPipelines, Parses, Where
<1> QED BY <1>1, <1>4, <1>6, <1>7, <1>8 DEF code

\* A function makes a task after the edit if and only if it made one before.
LEMMA PipecatTasks ==
  ASSUME NEW r, NEW mode \in Modes, NEW type, NEW file, NEW out, NEW task, NEW at, NEW n, NEW H, NEW d, NEW L,
         NEW old, NEW head, NEW new, PipecatEdit(r, mode, type, file, out, task, at, n, H, d, L, old, head, new), NEW f
  PROVE  /\ TasksIn(out, f) # {} <=> TasksIn(r.code[file], f) # {}
         /\ f \in r.code[file][at].scope => \E j \in TasksIn(out, f) : out[j].op # "pipeline_worker"
<1> DEFINE code == r.code[file]
           tasks == {"task", "pipeline_worker"} \cup CreateCalls
<1>1. /\ CodeOk(code) /\ Edited(code, out, n, H, at, d, L, old, head, new) /\ d = 1
      /\ PipecatLines(code, at, mode, type, H, L) /\ code[at].op = "task" /\ at \in DOMAIN code
      /\ \A k \in 1..Len(L) : L[k].scope = code[at].scope
  BY DEF PipecatEdit, PipecatAnchor, TasksIn, InBody, Where, PipecatLines
<1> HIDE DEF code
<1>2. /\ \A k \in 1..Len(H) : H[k].op = "import"
      /\ TaskLine(type) \in 1..Len(L) /\ L[TaskLine(type)].op \in {"task"} \cup CreateCalls
  BY <1>1, PipecatOps
<1>3. \A g, i : i \in TasksIn(code, g) <=> i \in DOMAIN code /\ code[i].op \in tasks /\ g \in code[i].scope
  BY DEF TasksIn, InBody, Body, Where
<1>4. \A g, j : j \in TasksIn(out, g) <=> j \in DOMAIN out /\ out[j].op \in tasks /\ g \in out[j].scope
  BY DEF TasksIn, InBody, Body, Where
<1>5. ASSUME f \in code[at].scope PROVE \E j \in TasksIn(out, f) : out[j].op # "pipeline_worker"
  <2>1. PICK k \in 1..Len(L) : L[k].op \in {"task"} \cup CreateCalls
    BY <1>2
  <2>2. new[k] \in DOMAIN out /\ out[new[k]] = L[k]
    BY <1>1, <2>1, EditedIs
  <2>3. L[k].op \in tasks /\ L[k].op # "pipeline_worker" /\ f \in L[k].scope
    BY <1>1, <1>5, <2>1 DEF CreateCalls
  <2> QED BY <1>4, <2>2, <2>3
<1>6. ASSUME NEW i \in TasksIn(code, f) PROVE \E j : j \in TasksIn(out, f)
  <2>1. i \in DOMAIN code /\ code[i].op \in tasks /\ f \in code[i].scope
    BY <1>3
  <2>2. CASE i = at
    BY <1>5, <2>1, <2>2
  <2>3. CASE i # at
    <3>1. old[i] \in DOMAIN out /\ out[old[i]] = code[i]
      BY <1>1, <2>1, <2>3, EditedIs
    <3> QED BY <1>4, <2>1, <3>1
  <2> QED BY <2>2, <2>3
<1>7. ASSUME NEW j \in TasksIn(out, f) PROVE \E i : i \in TasksIn(code, f)
  <2>1. j \in DOMAIN out /\ out[j].op \in tasks /\ f \in out[j].scope
    BY <1>4
  <2>2. ComesFrom(code, out, at, d, H, L, old, head, new, j)
    BY <1>1, <2>1, EditedIs
  <2>3. CASE \E i \in DOMAIN code : out[j] = code[i]
    BY <1>3, <2>1, <2>3
  <2>4. CASE \E k \in 1..Len(L) : out[j] = L[k]
    <3>1. f \in code[at].scope
      BY <1>1, <2>1, <2>4
    <3> QED BY <1>1, <1>3, <3>1
  <2>5. ~\E k \in 1..Len(H) : out[j] = H[k]
    BY <1>2, <2>1 DEF CreateCalls
  <2> QED BY <2>2, <2>3, <2>4, <2>5 DEF ComesFrom
<1> QED BY <1>5, <1>6, <1>7 DEF code

\* The Pipecat edit leaves framework and entries as they were.
LEMMA PipecatSame ==
  ASSUME NEW r, NEW mode \in Modes, NEW q, NEW type, NEW file, OnlyChanges(r, q, file), SameGarbage(r, q), NEW task, NEW at, NEW n, NEW H, NEW d,
         NEW L, NEW old, NEW head, NEW new,
         PipecatEdit(r, mode, type, file, q.code[file], task, at, n, H, d, L, old, head, new),
         Parses(q.code[file]), NEW fw, fw = "pipecat"
  PROVE  SameEntries(fw, r, q, file, old)
<1> DEFINE code == r.code[file]
           out == q.code[file]
<1>1. Keeps(code, out, old, PipecatKept) /\ Readable(r, file) /\ Readable(q, file)
  BY PipecatKeeps, ReadableKept
<1>2. "def" \in PipecatKept
  BY DEF PipecatKept, Ops, CreateCalls, WrapCalls
<1>3. file \in DOMAIN r.code /\ file \in DOMAIN q.code
  BY DEF OnlyChanges
<1>4. \A f : TasksIn(out, f) # {} <=> TasksIn(code, f) # {}
  BY PipecatTasks
<1> HIDE DEF code, out
<1>5. \A i \in Where(code, {"def"}) : old[i] \in Where(out, {"def"}) /\ out[old[i]] = code[i]
  BY <1>1, <1>2 DEF Keeps, Where
<1>6. \A i, j \in Where(code, {"def"}) : i < j => old[i] < old[j]
  BY <1>1, <1>2 DEF Keeps, Where
<1>7. ASSUME NEW j \in Where(out, {"def"}) PROVE \E i \in Where(code, {"def"}) : j = old[i]
  <2>1. j \in Where(out, PipecatKept) /\ out[j].op = "def"
    BY <1>2 DEF Where
  <2>2. PICK i \in Where(code, PipecatKept) : j = old[i] /\ out[j] = code[i]
    BY <1>1, <2>1 DEF Keeps
  <2> QED BY <2>1, <2>2 DEF Where
<1>8. ASSUME NEW i \in Where(code, {"def"}) PROVE EntryAt(r, fw, file, i) <=> EntryAt(q, fw, file, old[i])
  <2>1. EntryAt(r, fw, file, i) <=> file \notin ScannerTests /\ TasksIn(code, code[i].name) # {}
    BY <1>1, <1>3 DEF EntryAt, code
  <2>2. EntryAt(q, fw, file, old[i]) <=> file \notin ScannerTests /\ TasksIn(out, code[i].name) # {}
    BY <1>1, <1>3, <1>5 DEF EntryAt, out
  <2> QED BY <2>1, <2>2, <1>4
<1> QED BY <1>1, <1>5, <1>6, <1>7, <1>8 DEF SameEntries, code, out

-----------------------------------------------------------------------------
(* A supported repository stays supported when it is integrated            *)

\* The pipeline that decides on the aggregators is the one it was.
LEMMA KeptLast ==
  ASSUME NEW code, NEW out, NEW old, NEW ops, CodeOk(code), CodeOk(out), Keeps(code, out, old, ops),
         NEW P, NEW Q, P \subseteq Where(code, ops), P # {},
         \A i \in P : old[i] \in Q, \A j \in Q : \E i \in P : j = old[i], Q \subseteq DOMAIN out
  PROVE  out[LastWalked(out, Q)] = code[LastWalked(code, P)]
<1>1. P \in SUBSET DOMAIN code /\ Q \in SUBSET DOMAIN out /\ Q # {}
  BY DEF Where
<1>2. PICK m \in P : m = LastWalked(code, P) /\ \A j \in P \ {m} : WalkedBefore(code, j, m)
  BY <1>1, LastWalkedIs
<1>3. PICK k \in Q : k = LastWalked(out, Q) /\ \A j \in Q \ {k} : WalkedBefore(out, j, k)
  BY <1>1, LastWalkedIs
<1>4. PICK i \in P : k = old[i]
  OBVIOUS
<1>5. /\ out[old[i]] = code[i] /\ out[old[m]] = code[m] /\ old[i] \in DOMAIN out /\ old[m] \in DOMAIN out
      /\ i \in DOMAIN code /\ m \in DOMAIN code
  BY DEF Keeps, Where
<1>6. SUFFICES ASSUME i # m PROVE FALSE
  BY <1>2, <1>3, <1>4, <1>5
<1>7. WalkedBefore(code, i, m)
  BY <1>2, <1>6
<1>8. i \in Nat /\ m \in Nat /\ old[i] \in Nat /\ old[m] \in Nat
  BY <1>5 DEF CodeOk
<1>9. old[i] # old[m]
  <2>1. i < m \/ m < i
    BY <1>6, <1>8
  <2>2. (i < m => old[i] < old[m]) /\ (m < i => old[m] < old[i])
    BY DEF Keeps
  <2> QED BY <1>8, <2>1, <2>2
<1>10. WalkedBefore(out, old[m], old[i])
  BY <1>3, <1>4, <1>9
<1>11. Cardinality(code[i].scope) \in Nat /\ Cardinality(code[m].scope) \in Nat
  BY <1>5, ScopesAreFinite
<1>12. /\ Cardinality(code[i].scope) = Cardinality(code[m].scope)
       /\ i < m /\ old[m] < old[i]
  BY <1>5, <1>7, <1>10, <1>11, <1>8 DEF WalkedBefore
<1>13. old[i] < old[m]
  BY <1>12 DEF Keeps
<1> QED BY <1>8, <1>12, <1>13

\* A task line that names its pipeline is kept as a task line.
LEMMA NamedTask ==
  ASSUME NEW code, CodeOk(code), NamesPipelines(code), NEW f, TasksIn(code, f) # {}
  PROVE  "inline" \notin code[TaskOfEntry(code, f)].has
<1> DEFINE tasks == TasksIn(code, f) \ Where(code, {"pipeline_worker"})
           S == IF tasks # {} THEN tasks ELSE TasksIn(code, f)
<1>1. S # {} /\ S \subseteq TasksIn(code, f) /\ S \in SUBSET DOMAIN code
  BY DEF TasksIn, InBody, Where
<1>2. TaskOfEntry(code, f) = LastWalked(code, S)
  BY DEF TaskOfEntry
<1> HIDE DEF S
<1>3. LastWalked(code, S) \in S
  BY <1>1, LastWalkedIs
<1>4. TaskOfEntry(code, f) \in TasksIn(code, f)
  BY <1>1, <1>2, <1>3
<1> QED BY <1>4 DEF NamesPipelines, TasksIn, InBody, Where

\* A task after the pipeline it names is still after it.
LEMMA KeptPair ==
  ASSUME NEW code, NEW out, NEW old, NEW ops, CodeOk(code), CodeOk(out), Keeps(code, out, old, ops),
         NamesPipelines(code), NamesPipelines(out), {"pipeline", "aggregators"} \subseteq ops,
         NEW f, TasksIn(code, f) # {}, TasksIn(out, f) # {}, PairInPipeline(code, f)
  PROVE  PairInPipeline(out, f)
<1> DEFINE P == InBody(code, f, {"pipeline"})
           Q == InBody(out, f, {"pipeline"})
<1>1. "inline" \notin code[TaskOfEntry(code, f)].has /\ "inline" \notin out[TaskOfEntry(out, f)].has
  BY NamedTask
<1>2. /\ \A i \in P : old[i] \in Q /\ out[old[i]] = code[i]
      /\ \A j \in Q : \E i \in P : j = old[i] /\ out[j] = code[i]
  BY KeptBody
<1>3. InBody(code, f, {"aggregators"}) # {} => InBody(out, f, {"aggregators"}) # {}
  <2>1. \A i \in InBody(code, f, {"aggregators"}) : old[i] \in InBody(out, f, {"aggregators"}) /\ out[old[i]] = code[i]
    BY KeptBody
  <2> QED BY <2>1
<1>4. InBody(code, f, {"aggregators"}) # {}
  BY DEF PairInPipeline
<1>5. CASE P = {}
  <2>1. Q = {}
    BY <1>2, <1>5
  <2> QED BY <2>1, <1>1, <1>3, <1>4 DEF PairInPipeline
<1>6. CASE P # {}
  <2>1. P \subseteq Where(code, ops) /\ Q \subseteq DOMAIN out
    BY DEF InBody, Where
  <2>2. Q # {}
    BY <1>2, <1>6
  <2>3. "pair" \in code[LastWalked(code, P)].has
    BY <1>1, <1>6 DEF PairInPipeline
  <2> HIDE DEF P, Q
  <2>4. out[LastWalked(out, Q)] = code[LastWalked(code, P)]
    BY <1>2, <1>6, <2>1, KeptLast
  <2> QED BY <1>1, <1>3, <1>4, <2>2, <2>3, <2>4 DEF PairInPipeline, Q
<1> QED BY <1>5, <1>6

\* No file gets a direct call of the observe endpoint.
LEMMA KeptDirect ==
  ASSUME NEW r, NEW q, NEW file, OnlyChanges(r, q, file), SameGarbage(r, q), NEW old, NEW ops, Keeps(r.code[file], q.code[file], old, ops),
         "direct_observe" \in ops, Readable(r, file), OfKind(r, "direct_observe") = {}
  PROVE  OfKind(q, "direct_observe") = {}
<1> SUFFICES ASSUME NEW e \in OfKind(q, "direct_observe") PROVE FALSE
  OBVIOUS
<1>1. PICK g \in DOMAIN q.code : Readable(q, g) /\ \E i \in Where(q.code[g], {"direct_observe"}) : DirectEv(e, g, i)
  BY DirectEvidence
<1>2. PICK i \in Where(q.code[g], {"direct_observe"}) : DirectEv(e, g, i)
  BY <1>1
<1>3. ASSUME NEW j \in Where(r.code[g], {"direct_observe"}), Readable(r, g), g \in DOMAIN r.code PROVE FALSE
  <2>1. PICK d : DirectEv(d, g, j)
    BY DEF DirectEv
  <2>2. d \in OfKind(r, "direct_observe")
    BY <1>3, <2>1, DirectEvidence
  <2> QED BY <2>2
<1>4. CASE g # file
  BY <1>1, <1>2, <1>3, <1>4, ReadableKept DEF OnlyChanges
<1>5. CASE g = file
  <2>1. i \in Where(q.code[file], ops) /\ q.code[file][i].op = "direct_observe"
    BY <1>2, <1>5 DEF Where
  <2>2. PICK j \in Where(r.code[file], ops) : q.code[file][i] = r.code[file][j]
    BY <2>1 DEF Keeps
  <2>3. j \in Where(r.code[g], {"direct_observe"})
    BY <1>5, <2>1, <2>2 DEF Where
  <2> QED BY <1>1, <1>3, <1>5, <2>3 DEF OnlyChanges
<1> QED BY <1>4, <1>5

\* What makes a repository of one framework supported.
LEMMA SupportedOne ==
  ASSUME NEW q, NEW fw, Framework(q) = fw, fw \in {"livekit", "pipecat"}, NEW d, Entries(q, fw) = {d},
         fw = "livekit" => StartsIn(q.code[d.file], d.fn) # {},
         fw = "pipecat" => /\ PairInPipeline(q.code[d.file], d.fn)
                           /\ \E t \in OfKind(q, "pipeline_task") : LineOf(q, t).op # "pipeline_worker",
         OfKind(q, "direct_observe") = {}
  PROVE  Supported(q)
<1>1. ~(Cardinality({d}) > 1)
  BY FS_Singleton
<1>2. SupportedFacts(q)
  BY <1>1 DEF SupportedFacts
<1> QED BY <1>2, SupportedIs

\* A file that calls a tracer in a function shows that Cekura is there.
LEMMA CallIsSeen ==
  ASSUME NEW q, WellFormed(q), TracedOnce(q), NEW file \in DOMAIN q.code, Readable(q, file),
         Where(q.code[file], TracerCalls) # {}
  PROVE  Existing(q)
BY NothingExisting

\* A repository the LiveKit edit was made to is supported still.
LEMMA LiveKitSupported ==
  ASSUME NEW r, WellFormed(r), TracedOnce(r), Supported(r), Framework(r) = "livekit",
         NEW mode, NEW q, NEW a, Carried(r, mode, q, a), SameGarbage(r, q), WellFormed(q), TracedOnce(q)
  PROVE  Supported(q) /\ Existing(q)
<1> DEFINE file == a.file
           code == r.code[file]
           out == q.code[file]
<1>1. PICK start, at, n, H, d, L, old, head, new :
           LiveKitEdit(r, mode, file, out, start, at, n, H, d, L, old, head, new)
  BY LiveKitEdits
<1>2. OnlyChanges(r, q, file)
  BY DEF Carried
<1>3. PICK fw : fw = "livekit"
  OBVIOUS
<1>4. SameEntries(fw, r, q, file, old)
  BY <1>1, <1>2, <1>3, LiveKitSame
<1>5. /\ Keeps(code, out, old, LiveKitKept) /\ KeepsFrameworks(code, out)
      /\ Readable(r, file) /\ Readable(q, file)
  BY <1>1, <1>2, LiveKitKeeps, ReadableKept
<1>6. Framework(q) = fw /\ Framework(r) = fw
  BY <1>2, <1>3, <1>5, SameFramework
<1>7. PICK e : Entries(r, fw) = {e}
  BY <1>6, OneEntry
<1>8. PICK c : Entries(q, fw) = {c} /\ c.file = e.file /\ c.fn = e.fn
  BY <1>4, <1>7, StillOneEntry
<1>9. StartsIn(q.code[c.file], c.fn) # {}
  <2>1. StartsIn(r.code[e.file], e.fn) # {} /\ e \in Entries(r, fw)
    BY <1>3, <1>6, <1>7, SupportedIs DEF SupportedFacts
  <2>2. e.file \in DOMAIN r.code
    BY <2>1, EntryIs DEF EntryAt
  <2>3. CASE e.file # file
    BY <1>2, <1>8, <2>1, <2>2, <2>3 DEF OnlyChanges
  <2>4. CASE e.file = file
    <3>1. {"start", "session"} \subseteq LiveKitKept
      BY DEF LiveKitKept, Ops, SessionCalls
    <3>2. StartsIn(out, e.fn) # {} <=> StartsIn(code, e.fn) # {}
      BY <1>5, <3>1, KeptStarts
    <3> QED BY <1>8, <2>1, <2>4, <3>2
  <2> QED BY <2>3, <2>4
<1>10. OfKind(q, "direct_observe") = {}
  <2>1. OfKind(r, "direct_observe") = {}
    BY SupportedIs DEF SupportedFacts
  <2>2. "direct_observe" \in LiveKitKept
    BY DEF LiveKitKept, Ops, SessionCalls
  <2> QED BY <1>2, <1>5, <2>1, <2>2, KeptDirect
<1>11. Supported(q)
  BY <1>3, <1>6, <1>8, <1>9, <1>10, SupportedOne
<1>12. Existing(q)
  <2>1. L[1].op \in TracerCalls /\ 1 \in 1..Len(L)
    BY <1>1 DEF LiveKitEdit, LiveKitLines, TracerCalls, SessionCalls
  <2>2. PICK k \in 1..Len(L) : L[k].op \in TracerCalls
    BY <2>1
  <2>3. new[k] \in DOMAIN out /\ out[new[k]] = L[k]
    <3>1. CodeOk(code) /\ Edited(code, out, n, H, at, d, L, old, head, new) /\ d \in {0, 1}
      BY <1>1 DEF LiveKitEdit
    <3> HIDE DEF code, out
    <3> QED BY <3>1, EditedIs
  <2>4. new[k] \in Where(out, TracerCalls)
    BY <2>2, <2>3 DEF Where
  <2>5. file \in DOMAIN q.code
    BY <1>2 DEF OnlyChanges
  <2> QED BY <1>5, <2>4, <2>5, CallIsSeen
<1> QED BY <1>11, <1>12

\* A repository the Pipecat edit was made to is supported still.
LEMMA PipecatSupported ==
  ASSUME NEW r, WellFormed(r), TracedOnce(r), Supported(r), Framework(r) = "pipecat",
         NEW mode \in Modes, NEW q, NEW a, Carried(r, mode, q, a), SameGarbage(r, q), WellFormed(q), TracedOnce(q),
         \A g \in DOMAIN r.code : NamesPipelines(r.code[g])
  PROVE  Supported(q) /\ Existing(q)
<1> DEFINE file == a.file
           code == r.code[file]
           out == q.code[file]
<1>1. PICK task, at, n, H, d, L, old, head, new :
           PipecatEdit(r, mode, a.type, file, out, task, at, n, H, d, L, old, head, new)
  BY PipecatEdits
<1>2. OnlyChanges(r, q, file) /\ file \in DOMAIN r.code /\ file \in DOMAIN q.code
  BY DEF Carried, OnlyChanges
<1>3. PICK fw : fw = "pipecat"
  OBVIOUS
<1>4. NamesPipelines(code)
  BY <1>2
<1>5. /\ Keeps(code, out, old, PipecatKept) /\ KeepsFrameworks(code, out)
      /\ Readable(r, file) /\ Readable(q, file) /\ Parses(out) /\ NamesPipelines(out)
  <2>1. /\ Keeps(code, out, old, PipecatKept) /\ KeepsFrameworks(code, out)
        /\ Readable(r, file) /\ Parses(out) /\ NamesPipelines(out)
    BY <1>1, <1>4, PipecatKeeps
  <2>2. Readable(q, file)
    BY <1>2, <2>1, ReadableKept
  <2> QED BY <2>1, <2>2
<1>6. SameEntries(fw, r, q, file, old)
  BY <1>1, <1>2, <1>3, <1>5, PipecatSame
<1>7. Framework(q) = fw /\ Framework(r) = fw
  BY <1>2, <1>3, <1>5, SameFramework
<1>8. PICK e : Entries(r, fw) = {e}
  BY <1>7, OneEntry
<1>9. PICK c : Entries(q, fw) = {c} /\ c.file = e.file /\ c.fn = e.fn
  BY <1>6, <1>8, StillOneEntry
<1>10. CodeOk(code) /\ CodeOk(out)
  BY <1>2, FileIs
<1>11. PairInPipeline(q.code[c.file], c.fn)
  <2>1. PairInPipeline(r.code[e.file], e.fn) /\ e \in Entries(r, fw) /\ c \in Entries(q, fw)
    BY <1>3, <1>7, <1>8, <1>9, SupportedIs DEF SupportedFacts
  <2>2. /\ e.file \in DOMAIN r.code /\ TasksIn(r.code[e.file], e.fn) # {}
        /\ TasksIn(q.code[c.file], c.fn) # {}
    BY <1>3, <2>1, EntryIs DEF EntryAt
  <2>3. CASE e.file # file
    BY <1>2, <1>9, <2>1, <2>2, <2>3 DEF OnlyChanges
  <2>4. CASE e.file = file
    <3>1. {"pipeline", "aggregators"} \subseteq PipecatKept
      BY DEF PipecatKept, Ops, CreateCalls, WrapCalls
    <3>2. TasksIn(code, e.fn) # {} /\ TasksIn(out, e.fn) # {} /\ PairInPipeline(code, e.fn)
      BY <1>9, <2>1, <2>2, <2>4
    <3>3. PairInPipeline(out, e.fn)
      BY <1>4, <1>5, <1>10, <3>1, <3>2, KeptPair
    <3> QED BY <1>9, <2>4, <3>3
  <2> QED BY <2>3, <2>4
<1>12. task.fn \in code[at].scope /\ file \notin ScannerTests /\ at \in DOMAIN code
  BY <1>1 DEF PipecatEdit, PipecatAnchor, TasksIn, InBody, Body, Where
<1>13. \E t \in OfKind(q, "pipeline_task") : LineOf(q, t).op # "pipeline_worker"
  <2>1. PICK j \in TasksIn(out, task.fn) : out[j].op # "pipeline_worker"
    BY <1>1, <1>12, PipecatTasks
  <2>2. task.fn \in Functions_(out)
    <3>1. task.fn \in out[j].scope /\ j \in DOMAIN out
      BY <2>1 DEF TasksIn, InBody, Body, Where
    <3> QED BY <3>1, <1>10 DEF CodeOk
  <2>3. PICK t : TaskEv(t, file, j, task.fn)
    BY DEF TaskEv
  <2>4. t \in OfKind(q, "pipeline_task")
    BY <1>2, <1>5, <1>12, <2>1, <2>2, <2>3, TaskEvidence
  <2>5. t.file = file /\ t.line = j
    BY <2>3, EvIs
  <2> QED BY <2>1, <2>4, <2>5 DEF LineOf
<1>14. OfKind(q, "direct_observe") = {}
  <2>1. OfKind(r, "direct_observe") = {}
    BY SupportedIs DEF SupportedFacts
  <2>2. "direct_observe" \in PipecatKept
    BY DEF PipecatKept, Ops, CreateCalls, WrapCalls
  <2> QED BY <1>2, <1>5, <2>1, <2>2, KeptDirect
<1>15. Supported(q)
  BY <1>3, <1>7, <1>9, <1>11, <1>13, <1>14, SupportedOne
<1>16. Existing(q)
  <2>1. /\ L[2].op \in TracerCalls /\ 2 \in 1..Len(L)
        /\ CodeOk(code) /\ Edited(code, out, n, H, at, d, L, old, head, new) /\ d \in {0, 1}
    BY <1>1, CallForIs DEF PipecatEdit, PipecatLines, TracerCalls
  <2>2. PICK k \in 1..Len(L) : L[k].op \in TracerCalls
    BY <2>1
  <2>3. new[k] \in DOMAIN out /\ out[new[k]] = L[k]
    <3> HIDE DEF code, out
    <3> QED BY <2>1, EditedIs
  <2>4. new[k] \in Where(out, TracerCalls)
    BY <2>2, <2>3 DEF Where
  <2> QED BY <1>2, <1>5, <2>4, CallIsSeen
<1> QED BY <1>5, <1>15, <1>16

\* A repository that integrate wrote is supported and shows Cekura.
\* What is written names its pipelines, whatever else the plan wrote.
LEMMA LiveKitNamed ==
  ASSUME NEW r, WellFormed(r), TracedOnce(r), Supported(r), Framework(r) = "livekit",
         NEW mode, NEW q, NEW a, Carried(r, mode, q, a), NamesPipelines(r.code[a.file])
  PROVE  NamesPipelines(q.code[a.file])
<1> DEFINE code == r.code[a.file]
           out == q.code[a.file]
<1>1. PICK start, at, n, H, d, L, old, head, new :
           LiveKitEdit(r, mode, a.file, out, start, at, n, H, d, L, old, head, new)
  BY LiveKitEdits
<1>2. Keeps(code, out, old, LiveKitKept)
  BY <1>1, LiveKitKeeps
<1> SUFFICES ASSUME NEW j \in Where(out, {"task", "pipeline_worker"} \cup CreateCalls \cup WrapCalls)
             PROVE  "inline" \notin out[j].has
  BY DEF NamesPipelines
<1>3. {"task", "pipeline_worker"} \cup CreateCalls \cup WrapCalls \subseteq LiveKitKept
  BY DEF LiveKitKept, Ops, SessionCalls, TracerCalls, CreateCalls, WrapCalls
<1>4. j \in Where(out, LiveKitKept)
  BY <1>3 DEF Where
<1>5. PICK i \in Where(code, LiveKitKept) : out[j] = code[i]
  BY <1>2, <1>4 DEF Keeps
<1>6. i \in Where(code, {"task", "pipeline_worker"} \cup CreateCalls \cup WrapCalls)
  BY <1>5 DEF Where
<1> QED BY <1>5, <1>6 DEF NamesPipelines

\* A Pipecat file that names its pipelines does so when it is integrated.
LEMMA PipecatNamed ==
  ASSUME NEW r, WellFormed(r), TracedOnce(r), Supported(r), Framework(r) = "pipecat",
         NEW mode \in Modes, NEW q, NEW a, Carried(r, mode, q, a), NamesPipelines(r.code[a.file])
  PROVE  NamesPipelines(q.code[a.file])
<1> DEFINE file == a.file
           out == q.code[file]
<1>1. PICK task, at, n, H, d, L, old, head, new :
           PipecatEdit(r, mode, a.type, file, out, task, at, n, H, d, L, old, head, new)
  BY PipecatEdits
<1> QED BY <1>1, PipecatKeeps

\* So does every file of a repository that is integrated.
LEMMA StaysNamed ==
  ASSUME NEW r, WellFormed(r), TracedOnce(r), Supported(r), NEW mode, NEW p, Accepted(r, mode, p),
         BuildVerdict(r, p) = "ok", NEW q, q = Build(r, mode, p), q # r,
         \A g \in DOMAIN r.code : NamesPipelines(r.code[g])
  PROVE  \A g \in DOMAIN q.code : NamesPipelines(q.code[g])
<1>1. PICK a : Carried(r, mode, q, a)
  BY CarriedOut
<1>2. OnlyChanges(r, q, a.file) /\ mode \in Modes
  BY <1>1 DEF Carried
<1>3. NamesPipelines(r.code[a.file])
  BY <1>2 DEF OnlyChanges
<1>4. Framework(r) \in {"livekit", "pipecat"}
  BY SupportedIs DEF SupportedFacts
<1>5. NamesPipelines(q.code[a.file])
  <2>1. CASE Framework(r) = "livekit"
    BY <1>1, <1>3, <2>1, LiveKitNamed
  <2>2. CASE Framework(r) = "pipecat"
    BY <1>1, <1>2, <1>3, <2>2, PipecatNamed
  <2> QED BY <1>4, <2>1, <2>2
<1> QED BY <1>2, <1>5 DEF OnlyChanges

\* What a file holds apart from code, it keeps.
TextsGrow(r, q) == \A file : TextOf(r, file) \subseteq TextOf(q, file)

\* Plans append, and remove nothing.
LEMMA BuildGrows ==
  ASSUME NEW r, NEW mode, NEW p, NEW q, q = Build(r, mode, p)
  PROVE  TextsGrow(r, q)
BY AppendedIs DEF TextsGrow

\* No Python file has got a line that Python rejects.
LEMMA NothingGarbled ==
  ASSUME NEW r, WellFormed(r), NEW q, TextsGrow(r, q),
         \A file \in Python : "garbage" \notin TextOf(q, file) \ TextOf(r, file)
  PROVE  SameGarbage(r, q)
BY DEF SameGarbage, WellFormed, TextsGrow

\* Without garbage gained, what is written is supported still, and seen to be integrated.
LEMMA StaysSupported ==
  ASSUME NEW r, WellFormed(r), TracedOnce(r), Supported(r), NEW mode, NEW p, Accepted(r, mode, p),
         BuildVerdict(r, p) = "ok", NEW q, q = Build(r, mode, p), q # r, SameGarbage(r, q),
         \A g \in DOMAIN r.code : NamesPipelines(r.code[g])
  PROVE  Supported(q) /\ Existing(q)
<1>1. PICK a : Carried(r, mode, q, a)
  BY CarriedOut
<1>2. WellFormed(q) /\ TracedOnce(q) /\ mode \in Modes
  BY BuildIs DEF Accepted
<1>3. OnlyChanges(r, q, a.file)
  BY <1>1 DEF Carried
<1>4. Framework(r) \in {"livekit", "pipecat"}
  BY SupportedIs DEF SupportedFacts
<1>5. CASE Framework(r) = "livekit"
  BY <1>1, <1>2, <1>5, LiveKitSupported
<1>6. CASE Framework(r) = "pipecat"
  BY <1>1, <1>2, <1>6, PipecatSupported
<1> QED BY <1>4, <1>5, <1>6

\* And then the reference plan, to change nothing, is valid.
LEMMA NoopIsValid ==
  ASSUME NEW r, Existing(r), NEW mode
  PROVE  ~FakePlannerRaises(r) /\ ValidPlans(r, mode, {FakePlan(r, mode)}) # {}
<1>1. ~FakePlannerRaises(r)
  BY DEF FakePlannerRaises
<1> DEFINE a == Action("already_integrated_noop", NoFile, NoParam, OfKind(r, "existing_cekura"))
           live == {e \in Evidence(r) : ~Rejected(e)}
<1>2. FakePlan(r, mode) = {a}
  BY DEF FakePlan
<1>3. /\ a.type = "already_integrated_noop" /\ a.file = NoFile /\ a.param = NoParam
      /\ a.cites = OfKind(r, "existing_cekura")
  BY DEF Action
<1>4. a.cites \subseteq live
  BY <1>3 DEF OfKind
<1> HIDE DEF a, live
<1>5. RequiredEvidence(a.type) = {}
  BY <1>3 DEF RequiredEvidence, SessionActions, PipecatActions
<1>6. EvidenceOk(live, a)
  BY <1>4, <1>5 DEF EvidenceOk
<1>7. ParamsOk(r, Framework(r), mode, a)
  BY <1>3 DEF ParamsOk, PipecatActions
<1>8. a.type \in AllowedActions(Framework(r), mode, TRUE)
  BY <1>3 DEF AllowedActions
<1>9. {a} \in ValidPlans(r, mode, {{a}})
  <2> DEFINE good(b) == /\ b.type \in AllowedActions(Framework(r), mode, Existing(r))
                        /\ b.file = NoFile \/ PathOk(r, b)
                        /\ EvidenceOk(live, b)
                        /\ ParamsOk(r, Framework(r), mode, b)
  <2>1. good(a)
    BY <1>3, <1>6, <1>7, <1>8 
  <2>2. \A b \in {a} : good(b)
    BY <2>1, Zenon
  <2>3. {a} \subseteq ValidActions(r, mode, UNION {{a}})
    BY <2>2 DEF ValidActions, live
  <2>4. {a} \in {{a}} \ {{}}
    OBVIOUS
  <2> QED BY <2>3, <2>4 DEF ValidPlans
<1> QED BY <1>1, <1>2, <1>9

-----------------------------------------------------------------------------
(* Nothing is written without a report                                     *)

\* No file builds its pipeline inside the call that uses it.
NamesAll(r) == \A file \in DOMAIN r.code : NamesPipelines(r.code[file])

\* What is written is still supported, so that the report comes.
ReportInv ==
  /\ IInv
  /\ NamesAll(repo)
  /\ pc \in {"check", "platform"} /\ Garbled = {} => Supported(repo) /\ (applied => Existing(repo))
  /\ Integrated /\ Garbled = {} =>
       /\ ended # "report" => ~applied
       /\ ended = "needs_human" => ~Supported(base)

\* One lemma per action: each keeps ReportInv.
LEMMA StartReports == ASSUME ReportInv, StartIntegrate PROVE ReportInv'
<1>1. IInv'
  BY StartHolds DEF ReportInv
<1>2. repo' = repo /\ base' = repo /\ applied' = FALSE /\ pc' \in {"plan", "idle"}
        /\ (pc' = "idle" => ~Supported(repo))
  BY DEF StartIntegrate, Finish
<1>3. NamesAll(repo') /\ (pc' = "idle" => ~Supported(base'))
  BY <1>2 DEF ReportInv
<1> QED BY <1>1, <1>2, <1>3 DEF ReportInv, Integrated

\* The planner answers and the plan is validated.
LEMMA PlanReports == ASSUME ReportInv, Plan PROVE ReportInv'
<1>1. IInv'
  BY PlanHolds DEF ReportInv
<1>2. /\ repo' = repo /\ base' = base /\ applied' = applied /\ pc = "plan"
      /\ pc' = "patch" \/ (pc' = "idle" /\ ended' \in {"crash", "refused"})
  BY DEF Plan, Finish
<1>3. ~applied
  BY <1>2 DEF ReportInv, IInv
<1> QED BY <1>1, <1>2, <1>3 DEF ReportInv, Integrated

\* The plan is carried out.
LEMMA PatchReports == ASSUME ReportInv, Patch PROVE ReportInv'
<1> DEFINE after == Build(repo, cmd.mode, plan)
<1>1. IInv'
  BY PatchHolds DEF ReportInv
<1>2. /\ base' = base /\ pc = "patch"
      /\ \/ repo' = repo /\ applied' = applied /\ pc' = "idle" /\ ended' # "needs_human"
         \/ repo' = repo /\ applied' = applied /\ pc' = "platform"
         \/ repo' = after /\ repo' # repo /\ BuildVerdict(repo, plan) = "ok" /\ pc' = "check"
  <2>1. BuildVerdict(repo, plan) \in {"ok", "refused", "crash"}
    BY DEF BuildVerdict
  <2> QED BY <2>1 DEF Patch, Finish
<1>3. WellFormed(repo) /\ TracedOnce(repo) /\ Supported(repo) /\ ~applied /\ Accepted(repo, cmd.mode, plan) /\ NamesAll(repo)
  BY <1>2 DEF ReportInv, IInv
<1> HIDE DEF after
<1>4. CASE repo' = repo /\ applied' = applied /\ pc' = "idle" /\ ended' # "needs_human"
  BY <1>1, <1>3, <1>4 DEF ReportInv, Integrated
<1>5. CASE repo' = repo /\ applied' = applied /\ pc' = "platform"
  BY <1>1, <1>3, <1>5 DEF ReportInv, Integrated
<1>6. CASE repo' = after /\ repo' # repo /\ BuildVerdict(repo, plan) = "ok" /\ pc' = "check"
  <2>1. NamesAll(repo')
    BY <1>3, <1>6, StaysNamed DEF NamesAll, after
  <2>2. ASSUME Garbled' = {} PROVE Supported(repo') /\ Existing(repo')
    <3>1. base' = repo
      BY <1>2, <1>3 DEF ReportInv, IInv
    <3>2. \A file \in Python : "garbage" \notin TextOf(repo', file) \ TextOf(repo, file)
      BY <2>2, <3>1 DEF Garbled
    <3>3. SameGarbage(repo, repo')
      BY <1>3, <1>6, <3>2, BuildGrows, NothingGarbled DEF after
    <3> QED BY <1>3, <1>6, <3>3, StaysSupported DEF NamesAll, after
  <2> QED BY <1>1, <1>6, <2>1, <2>2 DEF ReportInv, Integrated
<1> QED BY <1>2, <1>4, <1>5, <1>6

\* The patched repository is checked.
LEMMA CheckReports == ASSUME ReportInv, Check PROVE ReportInv'
<1>1. IInv'
  BY CheckHolds DEF ReportInv
<1>2. repo' = repo /\ base' = base /\ applied' = applied /\ pc = "check" /\ pc' = "platform"
  BY DEF Check
<1>3. Garbled' = Garbled
  BY <1>2 DEF Garbled
<1> QED BY <1>1, <1>2, <1>3 DEF ReportInv, Integrated

\* The platform is prepared.
LEMMA PlatformReports == ASSUME ReportInv, PreparePlatform PROVE ReportInv'
<1>1. IInv'
  BY PlatformHolds DEF ReportInv
<1>2. repo' = repo /\ base' = base /\ applied' = applied /\ pc = "platform" /\ pc' = "idle"
  BY DEF PreparePlatform, Finish
<1>3. Garbled' = Garbled
  BY <1>2 DEF Garbled
<1>4. CASE Garbled # {}
  BY <1>1, <1>2, <1>3, <1>4 DEF ReportInv, Integrated
<1>5. CASE Garbled = {}
  <2>1. Supported(repo) /\ (applied => Existing(repo))
    BY <1>2, <1>5 DEF ReportInv
  <2>2. applied => ~FakePlannerRaises(repo) /\ FakePlanIsValid
    BY <2>1, NoopIsValid DEF FakePlanIsValid
  <2>3. ended' # "needs_human" /\ (applied => ended' = "report")
    BY <2>1, <2>2 DEF PreparePlatform, Finish
  <2> QED BY <1>1, <1>2, <2>3 DEF ReportInv, Integrated
<1> QED BY <1>4, <1>5

\* verify runs.
LEMMA VerifyReports == ASSUME ReportInv, NEW mode \in Modes, VerifyRepo(mode) PROVE ReportInv'
<1>1. IInv'
  BY VerifyHolds DEF ReportInv
<1>2. repo' = repo /\ pc' = "idle" /\ ended' = "report"
  BY DEF VerifyRepo, Finish
<1> QED BY <1>1, <1>2 DEF ReportInv, Integrated

\* Any outcome of a customer's edit.
LEMMA EditReports ==
  ASSUME ReportInv, NEW after, CustomerEdits(after), NamesAll(after), IInv'
  PROVE  ReportInv'
<1>1. repo' = after /\ pc' = "idle" /\ ended' = "report"
  BY DEF CustomerEdits
<1> QED BY <1>1 DEF ReportInv, Integrated

\* The customer deletes lines.
LEMMA DeletesReports ==
  ASSUME ReportInv, NEW file \in DOMAIN repo.code, NEW i \in DOMAIN repo.code[file], DeletesLine(file, i)
  PROVE  ReportInv'
<1> DEFINE after == [repo EXCEPT !.code[file] = RemoveAt(@, i)]
           out == RemoveAt(repo.code[file], i)
<1>1. WellFormed(repo) /\ NamesAll(repo) /\ IInv'
  BY DeletesHolds DEF ReportInv, IInv
<1>2. CustomerEdits(after)
  BY DEF DeletesLine
<1>3. /\ DOMAIN after.code = DOMAIN repo.code
      /\ \A f \in DOMAIN repo.code : after.code[f] = IF f = file THEN out ELSE repo.code[f]
  <2>1. Deleted(repo, after, file, out)
    BY <1>1, DeletedIs
  <2> QED BY <2>1 DEF Deleted
<1>4. repo.code[file] \in Seq(Lines)
  BY <1>1, FileIs DEF CodeOk
<1>5. \A j \in DOMAIN out : \E k \in DOMAIN repo.code[file] : out[j] = repo.code[file][k]
  BY <1>4, RemovedLines
<1> HIDE DEF after, out
<1>6. NamesPipelines(out)
  BY <1>1, <1>5 DEF NamesAll, NamesPipelines, Where
<1>7. NamesAll(after)
  BY <1>1, <1>3, <1>6 DEF NamesAll
<1> QED BY <1>1, <1>2, <1>7, EditReports

\* The customer adds the dependency.
LEMMA AddsReports == ASSUME ReportInv, NEW m \in ToSet(Manifests), AddsDependency(m) PROVE ReportInv'
<1>1. WellFormed(repo) /\ IInv' /\ NamesAll(repo)
  BY AddsHolds DEF ReportInv, IInv
<1>2. PICK after : Added(repo, m, after) /\ CustomerEdits(after)
  BY <1>1, AddsIs
<1>3. NamesAll(after)
  BY <1>1, <1>2 DEF Added, NamesAll
<1> QED BY <1>1, <1>2, <1>3, EditReports

\* Every step keeps ReportInv.
LEMMA StepReports == ASSUME ReportInv, [Next]_vars PROVE ReportInv'
<1>1. CASE StartIntegrate BY <1>1, StartReports
<1>2. CASE Plan BY <1>2, PlanReports
<1>3. CASE Patch BY <1>3, PatchReports
<1>4. CASE Check BY <1>4, CheckReports
<1>5. CASE PreparePlatform BY <1>5, PlatformReports
<1>6. CASE \E mode \in Modes : VerifyRepo(mode) BY <1>6, VerifyReports
<1>7. CASE \E file \in DOMAIN repo.code : \E i \in DOMAIN repo.code[file] : DeletesLine(file, i)
  BY <1>7, DeletesReports
<1>8. CASE \E m \in ToSet(Manifests) : AddsDependency(m) BY <1>8, AddsReports
<1>9. CASE UNCHANGED vars
  <2>1. IInv'
    BY <1>9, StepHolds DEF ReportInv
  <2>2. Garbled' = Garbled
    BY <1>9 DEF vars, Garbled
  <2> QED BY <1>9, <2>1, <2>2 DEF vars, ReportInv, Integrated
<1> QED BY <1>1, <1>2, <1>3, <1>4, <1>5, <1>6, <1>7, <1>8, <1>9 DEF Next

\* An integrate that is refused or crashes has written nothing, and exit code 2
\* says that the repository is not supported (README.md "Expected output and
\* exit codes"), whatever plan a model proposed that puts no line which Python
\* rejects into a Python file, for all repositories whose tasks take their
\* pipeline by name: with an expression, integrate_late_refusal shows the opposite.
THEOREM NothingWrittenWithoutReportHolds ==
  ASSUME \A r \in Repos : NamesAll(r)
  PROVE  Spec => []NothingWrittenWithoutReport
<1>1. Init => ReportInv
  <2> SUFFICES ASSUME Init PROVE ReportInv
    OBVIOUS
  <2>1. IInv /\ NamesAll(repo) /\ pc = "idle" /\ cmd.name = "none"
    BY InitHolds DEF Init, NoCommand
  <2> QED BY <2>1 DEF ReportInv, Integrated
<1>2. ReportInv /\ [Next]_vars => ReportInv'
  BY StepReports
<1>3. ReportInv => NothingWrittenWithoutReport
  BY DEF ReportInv, NothingWrittenWithoutReport, ExitCode
<1> QED BY <1>1, <1>2, <1>3, PTL DEF Spec

-----------------------------------------------------------------------------
(* What the lifecycle checks say                                           *)

\* The failing checks are those recorded as failed.
LEMMA FailingIs ==
  ASSUME NEW checks, NEW x
  PROVE  x \in Failing(checks) <=> \E c \in checks : c[2] /\ c[1] = x
BY DEF Failing

\* A check recorded as failed is failing.
LEMMA Fails ==
  ASSUME NEW checks, NEW x, <<x, TRUE>> \in checks
  PROVE  x \in Failing(checks)
<1>1. <<x, TRUE>>[1] = x
  OBVIOUS
<1>2. <<x, TRUE>>[2]
  OBVIOUS
<1>3. \E c \in checks : c[2] /\ c[1] = x
  BY <1>1, <1>2
<1> QED BY <1>3, FailingIs

\* A file without a call passes, unless it makes a Pipecat tracer on its own.
LEMMA QuietFile ==
  ASSUME NEW code, NEW mode, Where(code, TracerCalls) = {},
         \A i \in Where(code, {"tracer"}) : code[i].scope = {}, ~AtModuleScope(code, "PipecatTracer")
  PROVE  LiveKitFailures(code, mode) = {} /\ PipecatFailures(code, mode) = {}
<1>1. CallsOf(code, SessionCalls) = {}
  BY DEF CallsOf, Where, TracerCalls
<1>2. PipecatFailures(code, mode) = {}
  BY DEF PipecatFailures, AtModuleScope, TracerInits
<1> DEFINE p1 == \E c \in CallsOf(code, SessionCalls), s \in CallsOf(code, {"start"}) :
                   /\ c[2] = s[2] /\ code[c[1]].name = code[s[1]].name
                   /\ c[1] > s[1]
           p2 == \E c \in CallsOf(code, SessionCalls) : code[c[1]].op = "track_session" /\ "agent" \notin code[c[1]].has
           p3 == TracerInits(code, "LiveKitTracer") # {} /\ ~AtModuleScope(code, "LiveKitTracer")
           p4 == \E c \in CallsOf(code, SessionCalls) : code[c[1]].op # CallFor(mode, SessionCalls)
           p5 == Cardinality(CallsOf(code, SessionCalls)) > 1
<1>3. ~p1 /\ ~p2 /\ ~p4
  BY <1>1
<1>4. ~p5
  BY <1>1, FS_EmptySet
<1>5. ~p3
  BY DEF TracerInits, AtModuleScope
<1>6. LiveKitFailures(code, mode) =
        Failing({<<"tracer_before_start", p1>>, <<"track_session_has_agent", p2>>, <<"module_scope_init", p3>>,
                 <<"mode_consistent", p4>>, <<"tracer_exactly_once", p5>>})
  BY DEF LiveKitFailures
<1> HIDE DEF p1, p2, p3, p4, p5
<1>7. LiveKitFailures(code, mode) = {}
  <2> SUFFICES ASSUME NEW x \in LiveKitFailures(code, mode) PROVE FALSE
    OBVIOUS
  <2>1. PICK c \in {<<"tracer_before_start", p1>>, <<"track_session_has_agent", p2>>, <<"module_scope_init", p3>>,
                    <<"mode_consistent", p4>>, <<"tracer_exactly_once", p5>>} : c[2]
    BY <1>6, FailingIs
  <2> QED BY <2>1, <1>3, <1>4, <1>5
<1> QED BY <1>2, <1>7

\* A call of the other mode does not.
LEMMA OtherSession ==
  ASSUME NEW code, NEW mode, NEW c \in CallsOf(code, SessionCalls), code[c[1]].op # CallFor(mode, SessionCalls)
  PROVE  "mode_consistent" \in LiveKitFailures(code, mode)
<1> DEFINE p1 == \E b \in CallsOf(code, SessionCalls), s \in CallsOf(code, {"start"}) :
                   /\ b[2] = s[2] /\ code[b[1]].name = code[s[1]].name
                   /\ b[1] > s[1]
           p2 == \E b \in CallsOf(code, SessionCalls) : code[b[1]].op = "track_session" /\ "agent" \notin code[b[1]].has
           p3 == TracerInits(code, "LiveKitTracer") # {} /\ ~AtModuleScope(code, "LiveKitTracer")
           p4 == \E b \in CallsOf(code, SessionCalls) : code[b[1]].op # CallFor(mode, SessionCalls)
           p5 == Cardinality(CallsOf(code, SessionCalls)) > 1
<1>1. p4 = TRUE
  OBVIOUS
<1>2. LiveKitFailures(code, mode) =
        Failing({<<"tracer_before_start", p1>>, <<"track_session_has_agent", p2>>, <<"module_scope_init", p3>>,
                 <<"mode_consistent", p4>>, <<"tracer_exactly_once", p5>>})
  BY DEF LiveKitFailures
<1> HIDE DEF p1, p2, p3, p4, p5
<1>3. PICK x : x = "mode_consistent"
  OBVIOUS
<1>4. <<x, TRUE>> \in
        {<<"tracer_before_start", p1>>, <<"track_session_has_agent", p2>>, <<"module_scope_init", p3>>,
         <<"mode_consistent", p4>>, <<"tracer_exactly_once", p5>>}
  BY <1>1, <1>3
<1>5. x \in LiveKitFailures(code, mode)
  <2>1. PICK checks : LiveKitFailures(code, mode) = Failing(checks) /\ <<x, TRUE>> \in checks
    BY <1>2, <1>4, Zenon
  <2>2. x \in Failing(checks)
    BY <2>1, Fails, Zenon
  <2> QED BY <2>1, <2>2
<1> QED BY <1>3, <1>5

\* A Pipecat call of another mode fails mode_consistent.
LEMMA OtherTask ==
  ASSUME NEW code, NEW mode, TracerInits(code, "PipecatTracer") # {},
         NEW c \in CallsOf(code, CreateCalls) \cup CallsOf(code, WrapCalls),
         code[c[1]].op \notin {CallFor(mode, CreateCalls), CallFor(mode, WrapCalls)}
  PROVE  "mode_consistent" \in PipecatFailures(code, mode)
<1> DEFINE p5 == \E b \in CallsOf(code, CreateCalls) \cup CallsOf(code, WrapCalls) :
                   code[b[1]].op \notin {CallFor(mode, CreateCalls), CallFor(mode, WrapCalls)}
<1>1. p5 = TRUE
  OBVIOUS
<1>2. \E checks : PipecatFailures(code, mode) = Failing(checks) /\ <<"mode_consistent", p5>> \in checks
  BY DEF PipecatFailures
<1> HIDE DEF p5
<1>3. PICK checks : PipecatFailures(code, mode) = Failing(checks) /\ <<"mode_consistent", TRUE>> \in checks
  BY <1>1, <1>2
<1>4. PICK x : x = "mode_consistent"
  OBVIOUS
<1>5. x \in PipecatFailures(code, mode)
  <2>1. <<x, TRUE>> \in checks
    BY <1>3, <1>4
  <2>2. x \in Failing(checks)
    BY <2>1, Fails, Zenon
  <2> QED BY <1>3, <2>2
<1> QED BY <1>4, <1>5

-----------------------------------------------------------------------------
(* What verify says of a repository that integrate wrote                   *)

\* The checks the verifier of a mode makes of a file.
FileChecks(code, mode) ==
  (IF Mentions(code, "LiveKitTracer") THEN LiveKitFailures(code, mode) ELSE {})
    \cup (IF Mentions(code, "PipecatTracer") THEN PipecatFailures(code, mode) ELSE {})

\* Which verifier makes the checks of a mode.
LEMMA ChecksAre ==
  ASSUME NEW r, NEW files, \A f \in files : Readable(r, f), NEW mode, NEW x
  PROVE  x \in CollectChecks(r, files, mode) <=> \E f \in files : x \in FileChecks(r.code[f], mode)
BY DEF CollectChecks, FileChecks

\* The call that integrate wrote fails the check of the other mode.
LEMMA LiveKitOther ==
  ASSUME NEW r, NEW mode \in Modes, NEW file, NEW out, NEW start, NEW at, NEW n, NEW H, NEW d, NEW L,
         NEW old, NEW head, NEW new, LiveKitEdit(r, mode, file, out, start, at, n, H, d, L, old, head, new),
         CodeOk(out), NEW other \in Modes, other # mode
  PROVE  /\ FileChecks(out, other) # {} /\ Mentions(out, "LiveKitTracer")
         /\ ~AtModuleScope(r.code[file], "PipecatTracer") => ~AtModuleScope(out, "PipecatTracer")
<1> DEFINE code == r.code[file]
<1>1. /\ CodeOk(code) /\ Edited(code, out, n, H, at, d, L, old, head, new) /\ d \in {0, 1}
      /\ LiveKitLines(code, at, SessionAction(mode), H, L) /\ start.fn \in code[at].scope
  BY DEF LiveKitEdit, LiveKitAnchor, InBody, Body
<1> HIDE DEF code
<1>2. /\ 1 \in 1..Len(L) /\ L[1].scope = code[at].scope /\ L[1].op = CallFor(mode, SessionCalls)
      /\ Len(H) \in 1..Len(H) /\ H[Len(H)].op = "tracer" /\ H[Len(H)].name = "LiveKitTracer"
  <2>1. Len(H) \in Nat /\ Len(H) # 0
    BY <1>1 DEF LiveKitLines
  <2>2. L[1].op = CallFor(mode, SessionCalls)
    BY <1>1, CallForIs DEF LiveKitLines, SessionAction, Modes
  <2> QED BY <1>1, <2>1, <2>2 DEF LiveKitLines
<1>3. PICK k \in 1..Len(L) : L[k].scope = code[at].scope /\ L[k].op = CallFor(mode, SessionCalls)
  BY <1>2
<1>4. new[k] \in DOMAIN out /\ out[new[k]] = L[k]
  BY <1>1, <1>3, EditedIs
<1>5. new[k] \in Where(out, SessionCalls) /\ start.fn \in out[new[k]].scope /\ start.fn \in Functions_(out)
  BY <1>1, <1>3, <1>4, CallForIs DEF Where, CodeOk
<1>6. PICK c : c = <<new[k], start.fn>>
  OBVIOUS
<1>c. c[1] = new[k] /\ c[2] = start.fn
  BY <1>6
<1>7. c \in CallsOf(out, SessionCalls)
  BY <1>5, <1>6, <1>c DEF CallsOf
<1>8. out[c[1]].op # CallFor(other, SessionCalls)
  BY <1>3, <1>4, <1>c, CallForIs DEF Modes
<1>9. "mode_consistent" \in LiveKitFailures(out, other)
  BY <1>7, <1>8, OtherSession
<1>10. Mentions(out, "LiveKitTracer")
  <2>1. PICK m \in 1..Len(H) : H[m].op = "tracer" /\ H[m].name = "LiveKitTracer"
    BY <1>2
  <2>2. head[m] \in DOMAIN out /\ out[head[m]] = H[m]
    BY <1>1, <2>1, EditedIs
  <2> QED BY <2>1, <2>2 DEF Mentions, Where
<1>11. ASSUME AtModuleScope(out, "PipecatTracer") PROVE AtModuleScope(code, "PipecatTracer")
  <2>1. PICK j \in DOMAIN out : out[j].op = "tracer" /\ out[j].name = "PipecatTracer" /\ out[j].scope = {}
    BY <1>11 DEF AtModuleScope, Where
  <2>2. ComesFrom(code, out, at, d, H, L, old, head, new, j)
    BY <1>1, EditedIs
  <2>3. ~\E m \in 1..Len(H) : out[j] = H[m]
    <3> SUFFICES ASSUME NEW m \in 1..Len(H), out[j] = H[m] PROVE FALSE
      OBVIOUS
    <3>1. Len(H) \in Nat
      BY <1>1 DEF LiveKitLines
    <3>2. m = Len(H) \/ m \in 1..(Len(H) - 1)
      BY <3>1
    <3> QED BY <2>1, <3>2, <1>1 DEF LiveKitLines, ImportFor
  <2>4. ~\E m \in 1..Len(L) : out[j] = L[m]
    <3> SUFFICES ASSUME NEW m \in 1..Len(L), out[j] = L[m] PROVE FALSE
      OBVIOUS
    <3>1. m = 1
      BY <1>1 DEF LiveKitLines
    <3> QED BY <2>1, <3>1, <1>2, CallForIs DEF SessionCalls
  <2>5. PICK i \in DOMAIN code : out[j] = code[i]
    BY <2>2, <2>3, <2>4 DEF ComesFrom
  <2> QED BY <2>1, <2>5 DEF AtModuleScope, Where
<1> QED BY <1>9, <1>10, <1>11 DEF FileChecks, code

\* A file the Pipecat edit wrote fails the verifier of every other mode.
LEMMA PipecatOther ==
  ASSUME NEW r, NEW mode \in Modes, NEW type, NEW file, NEW out, NEW task, NEW at, NEW n, NEW H, NEW d, NEW L,
         NEW old, NEW head, NEW new, PipecatEdit(r, mode, type, file, out, task, at, n, H, d, L, old, head, new),
         CodeOk(out), NEW other \in Modes, other # mode
  PROVE  /\ FileChecks(out, other) # {} /\ Mentions(out, "PipecatTracer")
         /\ ~AtModuleScope(r.code[file], "PipecatTracer") => ~AtModuleScope(out, "PipecatTracer")
<1> DEFINE code == r.code[file]
<1>1. /\ CodeOk(code) /\ Edited(code, out, n, H, at, d, L, old, head, new) /\ d \in {0, 1}
      /\ PipecatLines(code, at, mode, type, H, L) /\ task.fn \in code[at].scope
  BY DEF PipecatEdit, PipecatAnchor, TasksIn, InBody, Body
<1> HIDE DEF code
<1>2. /\ 1 \in 1..Len(L) /\ 2 \in 1..Len(L)
      /\ L[1].op = "tracer" /\ L[1].name = "PipecatTracer"
      /\ L[2].op \in {CallFor(mode, CreateCalls), CallFor(mode, WrapCalls)}
      /\ \A k \in 1..Len(L) : L[k].scope = code[at].scope
  BY <1>1 DEF PipecatLines
<1>3. PICK k \in 1..Len(L) : L[k].op \in {CallFor(mode, CreateCalls), CallFor(mode, WrapCalls)}
  BY <1>2
<1>4. new[k] \in DOMAIN out /\ out[new[k]] = L[k]
  BY <1>1, <1>3, EditedIs
<1>5. /\ new[k] \in Where(out, CreateCalls) \cup Where(out, WrapCalls)
      /\ task.fn \in out[new[k]].scope /\ task.fn \in Functions_(out)
  BY <1>1, <1>2, <1>3, <1>4, CallForIs DEF Where, CodeOk
<1>6. PICK c : c = <<new[k], task.fn>>
  OBVIOUS
<1>c. c[1] = new[k] /\ c[2] = task.fn
  BY <1>6
<1>7. c \in CallsOf(out, CreateCalls) \cup CallsOf(out, WrapCalls)
  BY <1>5, <1>6, <1>c DEF CallsOf
<1>8. out[c[1]].op \notin {CallFor(other, CreateCalls), CallFor(other, WrapCalls)}
  BY <1>3, <1>4, <1>c, CallForIs DEF Modes
<1>9. PICK m \in 1..Len(L) : L[m].op = "tracer" /\ L[m].name = "PipecatTracer"
  BY <1>2
<1>10. new[m] \in DOMAIN out /\ out[new[m]] = L[m]
  BY <1>1, <1>9, EditedIs
<1>11. TracerInits(out, "PipecatTracer") # {} /\ Mentions(out, "PipecatTracer")
  BY <1>9, <1>10 DEF TracerInits, Mentions, Where
<1>12. "mode_consistent" \in PipecatFailures(out, other)
  BY <1>7, <1>8, <1>11, OtherTask
<1>13. ASSUME AtModuleScope(out, "PipecatTracer") PROVE AtModuleScope(code, "PipecatTracer")
  <2>1. PICK j \in DOMAIN out : out[j].op = "tracer" /\ out[j].name = "PipecatTracer" /\ out[j].scope = {}
    BY <1>13 DEF AtModuleScope, Where
  <2>2. ComesFrom(code, out, at, d, H, L, old, head, new, j)
    BY <1>1, EditedIs
  <2>3. ~\E h \in 1..Len(H) : out[j] = H[h]
    BY <1>1, <2>1 DEF PipecatLines, Imports, ImportFor
  <2>4. ~\E l \in 1..Len(L) : out[j] = L[l]
    BY <1>1, <1>2, <2>1
  <2>5. PICK i \in DOMAIN code : out[j] = code[i]
    BY <2>2, <2>3, <2>4 DEF ComesFrom
  <2> QED BY <2>1, <2>5 DEF AtModuleScope, Where
<1> QED BY <1>11, <1>12, <1>13 DEF FileChecks, code

\* The files that verify looks at, and what it reports of them.
TracerFiles(r) == {f \in DOMAIN r.code : \E t \in Tracers : Mentions(r.code[f], t)}

\* What verify reports of a repository, for a mode.
VerifyFailures(r, mode) ==
  IF TracerFiles(r) = {} THEN {"integration_present"}
  ELSE CollectChecks(r, TracerFiles(r), mode) \cup Failing({<<"topology_supported", ~Supported(r)>>})

\* verify passes, for a mode.
VerifiesAs(r, mode) ==
  /\ VerifyFailures(r, mode) = {}
  /\ \A other \in Modes \ {mode} : VerifyFailures(r, other) # {}

\* No file makes a Pipecat tracer outside functions.
NoStray(r) == \A file \in DOMAIN r.code : ~AtModuleScope(r.code[file], "PipecatTracer")

\* Files that name their pipelines parse.
LEMMA NamedParses == ASSUME NEW r, NamesAll(r) PROVE \A f \in DOMAIN r.code : Parses(r.code[f])
BY DEF NamesAll, NamesPipelines, Parses, Where

\* Python reads every file of the repository.
Legible(r) == \A f \in DOMAIN r.code : Readable(r, f)

\* What a command has written, and in what.
Wrote(r, mode, q) ==
  /\ WellFormed(r) /\ TracedOnce(r) /\ Supported(r) /\ WellFormed(q) /\ TracedOnce(q)
  /\ mode \in Modes /\ \E a : Carried(r, mode, q, a)
  /\ TextsGrow(r, q)

\* The repository was written by integrate, for that mode.
Written(r, mode, q) ==
  Wrote(r, mode, q) /\ NamesAll(r) /\ NoStray(r) /\ NamesAll(q)

\* A file that is readable after an integration was readable before.
LEMMA LegibleBefore ==
  ASSUME NEW r, NEW mode, NEW q, Written(r, mode, q), Legible(q)
  PROVE  Legible(r)
<1>1. DOMAIN r.code = DOMAIN q.code
  BY DEF Written, Wrote, Carried, OnlyChanges
<1>2. \A f \in DOMAIN r.code : Parses(r.code[f])
  BY NamedParses DEF Written
<1> QED BY <1>1, <1>2 DEF Written, Wrote, TextsGrow, Legible, Readable

\* A file written for one mode fails the verifier of another.
LEMMA WrittenOther ==
  ASSUME NEW r, NEW mode, NEW q, Written(r, mode, q), NEW a, Carried(r, mode, q, a)
  PROVE  /\ \A other \in Modes \ {mode} : FileChecks(q.code[a.file], other) # {}
         /\ a.file \in TracerFiles(q) /\ q.code[a.file] # r.code[a.file]
         /\ ~AtModuleScope(q.code[a.file], "PipecatTracer")
<1> DEFINE file == a.file
           code == r.code[file]
           out == q.code[file]
<1>1. PICK other \in Modes : other # mode /\ \A m \in Modes \ {mode} : m = other
  <2>1. mode = "test" \/ mode = "observe"
    BY DEF Written, Wrote, Modes
  <2> QED BY <2>1 DEF Modes
<1>2. file \in DOMAIN r.code /\ file \in DOMAIN q.code /\ CodeOk(out) /\ mode \in Modes
        /\ ~AtModuleScope(code, "PipecatTracer")
  BY FileIs DEF Carried, OnlyChanges, Written, Wrote, NoStray
<1>3. /\ FileChecks(out, other) # {} /\ \E t \in Tracers : Mentions(out, t) /\ Readable(r, file)
      /\ ~AtModuleScope(out, "PipecatTracer") /\ Where(code, TracerCalls) = {}
  <2>1. Framework(r) \in {"livekit", "pipecat"}
    BY SupportedIs DEF SupportedFacts, Written, Wrote
  <2>2. CASE Framework(r) = "livekit"
    <3>1. PICK start, at, n, H, d, L, old, head, new :
             LiveKitEdit(r, mode, file, out, start, at, n, H, d, L, old, head, new)
      BY <2>2, LiveKitEdits DEF Written, Wrote
    <3>2. Where(code, TracerCalls) = {} /\ Readable(r, file)
      BY <3>1, LiveKitKeeps DEF LiveKitEdit
    <3>3. /\ FileChecks(out, other) # {} /\ Mentions(out, "LiveKitTracer")
          /\ ~AtModuleScope(r.code[file], "PipecatTracer") => ~AtModuleScope(out, "PipecatTracer")
      BY <1>1, <1>2, <3>1, LiveKitOther
    <3> QED BY <1>2, <3>2, <3>3 DEF Tracers
  <2>3. CASE Framework(r) = "pipecat"
    <3>1. PICK task, at, n, H, d, L, old, head, new :
             PipecatEdit(r, mode, a.type, file, out, task, at, n, H, d, L, old, head, new)
      BY <1>2, <2>3, PipecatEdits DEF Written, Wrote
    <3>2. Where(code, TracerCalls) = {} /\ Readable(r, file)
      BY <1>2, <3>1, PipecatKeeps DEF PipecatEdit
    <3>3. /\ FileChecks(out, other) # {} /\ Mentions(out, "PipecatTracer")
          /\ ~AtModuleScope(r.code[file], "PipecatTracer") => ~AtModuleScope(out, "PipecatTracer")
      BY <1>1, <1>2, <3>1, PipecatOther
    <3> QED BY <1>2, <3>2, <3>3 DEF Tracers
  <2> QED BY <2>1, <2>2, <2>3
<1>4. out # code
  <2> SUFFICES ASSUME out = code PROVE FALSE
    OBVIOUS
  <2>1. LiveKitFailures(code, other) = {} /\ PipecatFailures(code, other) = {}
    <3>1. ~Existing(r) /\ Readable(r, file)
      BY <1>3 DEF Carried
    <3>2. \A i \in Where(code, {"tracer"}) : code[i].scope = {}
      BY <1>2, <3>1, NothingExisting DEF Written, Wrote
    <3> QED BY <1>2, <1>3, <3>2, QuietFile
  <2> QED BY <1>3, <2>1 DEF FileChecks
<1> QED BY <1>1, <1>2, <1>3, <1>4 DEF TracerFiles

\* When the checks of a command pass, then Python reads what it wrote, and a
\* file that looks like a manifest holds the dependency.
LEMMA ChecksPassed ==
  ASSUME Check, failed' = {}
  PROVE  /\ Garbled = {}
         /\ \E file \in Changed \cap LookAlikes : "cekura" \in TextOf(repo, file)
<1> DEFINE p0 == \E file \in Changed \cap Python : ~Readable(repo, file)
           p1 == ~Supported(repo)
           p2 == ~Existing(repo)
           p3 == \A file \in Changed \cap LookAlikes : "cekura" \notin TextOf(repo, file)
           checks == {<<"syntax", p0>>, <<"still_supported_topology", p1>>,
                      <<"integration_detected", p2>>, <<"dependency_added", p3>>}
<1>1. Failing(checks) = {}
  BY DEF Check
<1>2. ASSUME p3 PROVE FALSE
  <2>1. p3 = TRUE
    BY <1>2
  <2> HIDE DEF p0, p1, p2, p3
  <2>2. PICK x : x = "dependency_added"
    OBVIOUS
  <2>3. <<x, TRUE>> \in checks
    BY <2>1, <2>2
  <2> HIDE DEF checks
  <2>4. x \in Failing(checks)
    BY <2>3, Fails, Zenon
  <2> QED BY <1>1, <2>4
<1>3. ASSUME p0 PROVE FALSE
  <2>1. p0 = TRUE
    BY <1>3
  <2> HIDE DEF p0, p1, p2, p3
  <2>2. PICK x : x = "syntax"
    OBVIOUS
  <2>3. <<x, TRUE>> \in checks
    BY <2>1, <2>2
  <2> HIDE DEF checks
  <2>4. x \in Failing(checks)
    BY <2>3, Fails, Zenon
  <2> QED BY <1>1, <2>4
<1>4. ASSUME NEW file \in Garbled PROVE FALSE
  <2>1. file \in Python /\ "garbage" \in TextOf(repo, file) /\ "garbage" \notin TextOf(base, file)
    BY DEF Garbled
  <2>2. file \in ChangedTexts
    BY <2>1 DEF ChangedTexts, TextOf
  <2> QED BY <2>1, <2>2, <1>3 DEF Changed, Readable
<1> QED BY <1>2, <1>4

\* A file that integrate did not write passes every check.
LEMMA OtherFiles ==
  ASSUME NEW r, WellFormed(r), TracedOnce(r), ~Existing(r), Legible(r), NoStray(r), NEW file \in DOMAIN r.code, NEW mode
  PROVE  FileChecks(r.code[file], mode) = {}
<1>1. /\ Where(r.code[file], TracerCalls) = {}
      /\ \A i \in Where(r.code[file], {"tracer"}) : r.code[file][i].scope = {}
  BY NothingExisting DEF Legible
<1>2. LiveKitFailures(r.code[file], mode) = {} /\ PipecatFailures(r.code[file], mode) = {}
  BY <1>1, QuietFile DEF NoStray
<1> QED BY <1>2 DEF FileChecks

\* If the checks of integrate passed, then verify's pass for its mode and no other.
LEMMA WrittenVerifies ==
  ASSUME NEW r, NEW mode, NEW q, Written(r, mode, q), Supported(q), Legible(q),
         NEW changed \in SUBSET DOMAIN q.code, \A f \in DOMAIN q.code : q.code[f] # r.code[f] => f \in changed,
         CollectChecks(q, changed, mode) = {}
  PROVE  VerifiesAs(q, mode)
<1> DEFINE files == TracerFiles(q)
<1>1. PICK a : Carried(r, mode, q, a)
  BY DEF Written, Wrote
<1>2. /\ \A other \in Modes \ {mode} : FileChecks(q.code[a.file], other) # {}
      /\ a.file \in files /\ q.code[a.file] # r.code[a.file]
  BY <1>1, WrittenOther
<1>3. OnlyChanges(r, q, a.file) /\ ~Existing(r) /\ Legible(r)
  BY <1>1, LegibleBefore DEF Carried
<1>4. a.file \in changed /\ a.file \in DOMAIN q.code
  BY <1>2, <1>3 DEF OnlyChanges
<1>5. FileChecks(q.code[a.file], mode) = {}
  <2>1. \A f \in changed : Readable(q, f)
    BY DEF Legible
  <2>2. \A x : x \notin CollectChecks(q, changed, mode)
    OBVIOUS
  <2> QED BY <1>4, <2>1, <2>2, ChecksAre
<1>6. \A f \in files : FileChecks(q.code[f], mode) = {}
  <2> SUFFICES ASSUME NEW f \in files, f # a.file PROVE FileChecks(q.code[f], mode) = {}
    BY <1>5
  <2>1. f \in DOMAIN r.code /\ q.code[f] = r.code[f]
    BY <1>3 DEF OnlyChanges, TracerFiles
  <2> QED BY <1>3, <2>1, OtherFiles DEF Written, Wrote
<1>7. \A f \in files : Readable(q, f)
  BY DEF Legible, TracerFiles
<1>8. \A m, x : x \in CollectChecks(q, files, m) <=> \E f \in files : x \in FileChecks(q.code[f], m)
  <2> HIDE DEF files
  <2> QED BY <1>7, ChecksAre
<1>9. Failing({<<"topology_supported", ~Supported(q)>>}) = {}
  <2> DEFINE unsupported == ~Supported(q)
  <2>1. ~unsupported
    OBVIOUS
  <2> HIDE DEF unsupported
  <2>2. PICK S : S = {<<"topology_supported", unsupported>>}
    OBVIOUS
  <2>3. \A c \in S : ~c[2]
    BY <2>1, <2>2
  <2>4. Failing(S) = {}
    BY <2>3, FailingIs
  <2> QED BY <2>2, <2>4 DEF unsupported
<1>10. VerifyFailures(q, mode) = {}
  BY <1>2, <1>6, <1>8, <1>9 DEF VerifyFailures
<1>11. \A other \in Modes \ {mode} : VerifyFailures(q, other) # {}
  BY <1>2, <1>8 DEF VerifyFailures
<1> QED BY <1>10, <1>11 DEF VerifiesAs

\* What a command wrote, until it ends, and what verify says afterwards.
VerifyInv ==
  /\ ReportInv
  /\ NoStray(repo)
  /\ pc \in {"check", "platform"} /\ applied => Written(base, cmd.mode, repo)
  /\ pc = "platform" /\ applied /\ failed = {} => CollectChecks(repo, ChangedCode, cmd.mode) = {} /\ Garbled = {}
  /\ done # NoMode /\ Legible(repo) => VerifiesAs(repo, done)
  /\ cmd.name = "verify" => pc = "idle" /\ ended = "report" /\ failed = VerifyFailures(repo, cmd.mode)

\* One lemma per action: each keeps VerifyInv.
LEMMA StartVerifies == ASSUME VerifyInv, StartIntegrate PROVE VerifyInv'
<1>1. ReportInv'
  BY StartReports DEF VerifyInv
<1>2. repo' = repo /\ applied' = FALSE /\ done' = done /\ cmd'.name = "integrate"
  BY DEF StartIntegrate
<1> QED BY <1>1, <1>2 DEF VerifyInv

\* The planner answers and the plan is validated.
LEMMA PlanVerifies == ASSUME VerifyInv, Plan PROVE VerifyInv'
<1>1. ReportInv'
  BY PlanReports DEF VerifyInv
<1>2. repo' = repo /\ base' = base /\ cmd' = cmd /\ applied' = applied /\ done' = done /\ pc = "plan" /\ ~applied
  BY DEF Plan, VerifyInv, ReportInv, IInv
<1> QED BY <1>1, <1>2 DEF VerifyInv

\* The plan is carried out.
LEMMA PatchVerifies == ASSUME VerifyInv, Patch PROVE VerifyInv'
<1> DEFINE after == Build(repo, cmd.mode, plan)
<1>1. ReportInv'
  BY PatchReports DEF VerifyInv
<1>2. /\ base' = base /\ cmd' = cmd /\ pc = "patch"
      /\ \/ repo' = repo /\ applied' = applied /\ done' = done
         \/ repo' = after /\ repo' # repo /\ BuildVerdict(repo, plan) = "ok" /\ pc' = "check" /\ done' = NoMode
  BY DEF Patch, Finish
<1>3. /\ WellFormed(repo) /\ TracedOnce(repo) /\ Supported(repo) /\ ~applied /\ Accepted(repo, cmd.mode, plan)
      /\ NamesAll(repo) /\ NoStray(repo) /\ base = repo /\ cmd.mode \in Modes /\ cmd.name # "verify"
  BY <1>2 DEF VerifyInv, ReportInv, IInv, Accepted
<1> HIDE DEF after
<1>4. CASE repo' = repo /\ applied' = applied /\ done' = done
  BY <1>1, <1>2, <1>3, <1>4 DEF VerifyInv
<1>5. CASE repo' = after /\ repo' # repo /\ BuildVerdict(repo, plan) = "ok" /\ pc' = "check" /\ done' = NoMode
  <2>1. PICK a : Carried(repo, cmd.mode, repo', a)
    BY <1>3, <1>5, CarriedOut DEF after
  <2>2. WellFormed(repo') /\ TracedOnce(repo')
    BY <1>1 DEF ReportInv, IInv
  <2>3. NamesAll(repo') /\ TextsGrow(repo, repo')
    BY <1>1, <1>5, BuildGrows DEF ReportInv, after
  <2>4. Written(repo, cmd.mode, repo')
    BY <1>3, <2>1, <2>2, <2>3 DEF Written, Wrote
  <2>5. NoStray(repo')
    <3> SUFFICES ASSUME NEW f \in DOMAIN repo'.code PROVE ~AtModuleScope(repo'.code[f], "PipecatTracer")
      BY DEF NoStray
    <3>1. CASE f = a.file
      BY <2>1, <2>4, <3>1, WrittenOther
    <3>2. CASE f # a.file
      BY <1>3, <2>1, <3>2 DEF Carried, OnlyChanges, NoStray
    <3> QED BY <3>1, <3>2
  <2> QED BY <1>1, <1>2, <1>3, <1>5, <2>4, <2>5 DEF VerifyInv
<1> QED BY <1>2, <1>4, <1>5

\* The patched repository is checked.
LEMMA CheckVerifies == ASSUME VerifyInv, Check PROVE VerifyInv'
<1>1. ReportInv'
  BY CheckReports DEF VerifyInv
<1>2. /\ repo' = repo /\ base' = base /\ cmd' = cmd /\ applied' = applied /\ done' = done /\ pc = "check"
      /\ CollectChecks(repo, ChangedCode, cmd.mode) \subseteq failed'
  BY DEF Check
<1>3. ChangedCode' = ChangedCode
  BY <1>2 DEF ChangedCode
<1>4. CollectChecks(repo', ChangedCode', cmd'.mode) = CollectChecks(repo, ChangedCode, cmd.mode)
  BY <1>2, <1>3
<1>5. Garbled' = Garbled /\ (failed' = {} => Garbled = {})
  BY <1>2, ChecksPassed DEF Garbled
<1> QED BY <1>1, <1>2, <1>4, <1>5 DEF VerifyInv

\* The platform is prepared.
LEMMA PlatformVerifies == ASSUME VerifyInv, PreparePlatform PROVE VerifyInv'
<1>1. ReportInv'
  BY PlatformReports DEF VerifyInv
<1>2. /\ repo' = repo /\ cmd' = cmd /\ pc = "platform" /\ pc' = "idle"
      /\ done' = done \/ (done' = cmd.mode /\ applied /\ failed = {})
  BY DEF PreparePlatform, Finish
<1>3. CASE done' = done
  BY <1>1, <1>2, <1>3 DEF VerifyInv
<1>4. CASE done' = cmd.mode /\ applied /\ failed = {}
  <2>1. Written(base, cmd.mode, repo) /\ CollectChecks(repo, ChangedCode, cmd.mode) = {} /\ Supported(repo)
    BY <1>2, <1>4 DEF VerifyInv, ReportInv
  <2>2. Legible(repo) => VerifiesAs(repo, cmd.mode)
    <3>1. /\ ChangedCode \in SUBSET DOMAIN repo.code
          /\ \A f \in DOMAIN repo.code : repo.code[f] # base.code[f] => f \in ChangedCode
      BY DEF ChangedCode
    <3> QED BY <2>1, <3>1, WrittenVerifies
  <2> QED BY <1>1, <1>2, <1>4, <2>2 DEF VerifyInv
<1> QED BY <1>2, <1>3, <1>4

\* verify runs.
LEMMA VerifyVerifies == ASSUME VerifyInv, NEW mode \in Modes, VerifyRepo(mode) PROVE VerifyInv'
<1>1. ReportInv'
  BY VerifyReports DEF VerifyInv
<1>2. /\ repo' = repo /\ done' = done /\ pc' = "idle" /\ applied' = FALSE /\ ended' = "report" /\ cmd'.mode = mode
  BY DEF VerifyRepo, Finish, VerifyInv, ReportInv, NoCommand
<1>3. failed' = VerifyFailures(repo, mode)
  BY DEF VerifyRepo, VerifyFailures, TracerFiles
<1> QED BY <1>1, <1>2, <1>3 DEF VerifyInv

\* Any outcome of a customer's edit.
LEMMA EditVerifies ==
  ASSUME VerifyInv, NEW after, CustomerEdits(after), NoStray(after), ReportInv'
  PROVE  VerifyInv'
<1>1. repo' = after /\ done' = NoMode /\ applied' = FALSE /\ cmd'.name = "none"
  BY DEF CustomerEdits, NoCommand
<1> QED BY <1>1 DEF VerifyInv

\* The customer deletes lines.
LEMMA DeletesVerifies ==
  ASSUME VerifyInv, NEW file \in DOMAIN repo.code, NEW i \in DOMAIN repo.code[file], DeletesLine(file, i)
  PROVE  VerifyInv'
<1> DEFINE after == [repo EXCEPT !.code[file] = RemoveAt(@, i)]
           out == RemoveAt(repo.code[file], i)
<1>1. WellFormed(repo) /\ NoStray(repo) /\ ReportInv'
  BY DeletesReports DEF VerifyInv, ReportInv, IInv
<1>2. CustomerEdits(after)
  BY DEF DeletesLine
<1>3. /\ DOMAIN after.code = DOMAIN repo.code
      /\ \A f \in DOMAIN repo.code : after.code[f] = IF f = file THEN out ELSE repo.code[f]
  <2>1. Deleted(repo, after, file, out)
    BY <1>1, DeletedIs
  <2> QED BY <2>1 DEF Deleted
<1>4. repo.code[file] \in Seq(Lines)
  BY <1>1, FileIs DEF CodeOk
<1>5. \A j \in DOMAIN out : \E k \in DOMAIN repo.code[file] : out[j] = repo.code[file][k]
  BY <1>4, RemovedLines
<1> HIDE DEF after, out
<1>6. ~AtModuleScope(out, "PipecatTracer")
  BY <1>1, <1>5 DEF NoStray, AtModuleScope, Where
<1>7. NoStray(after)
  BY <1>1, <1>3, <1>6 DEF NoStray
<1> QED BY <1>1, <1>2, <1>7, EditVerifies

\* The customer adds the dependency.
LEMMA AddsVerifies == ASSUME VerifyInv, NEW m \in ToSet(Manifests), AddsDependency(m) PROVE VerifyInv'
<1>1. WellFormed(repo) /\ ReportInv' /\ NoStray(repo)
  BY AddsReports DEF VerifyInv, ReportInv, IInv
<1>2. PICK after : Added(repo, m, after) /\ CustomerEdits(after)
  BY <1>1, AddsIs
<1>3. NoStray(after)
  BY <1>1, <1>2 DEF Added, NoStray
<1> QED BY <1>1, <1>2, <1>3, EditVerifies

\* Every step keeps VerifyInv.
LEMMA StepVerifies == ASSUME VerifyInv, [Next]_vars PROVE VerifyInv'
<1>1. CASE StartIntegrate BY <1>1, StartVerifies
<1>2. CASE Plan BY <1>2, PlanVerifies
<1>3. CASE Patch BY <1>3, PatchVerifies
<1>4. CASE Check BY <1>4, CheckVerifies
<1>5. CASE PreparePlatform BY <1>5, PlatformVerifies
<1>6. CASE \E mode \in Modes : VerifyRepo(mode) BY <1>6, VerifyVerifies
<1>7. CASE \E file \in DOMAIN repo.code : \E i \in DOMAIN repo.code[file] : DeletesLine(file, i)
  BY <1>7, DeletesVerifies
<1>8. CASE \E m \in ToSet(Manifests) : AddsDependency(m) BY <1>8, AddsVerifies
<1>9. CASE UNCHANGED vars
  <2>1. ReportInv'
    BY <1>9, StepReports DEF VerifyInv
  <2>2. ChangedCode' = ChangedCode /\ Garbled' = Garbled
    BY <1>9 DEF vars, ChangedCode, Garbled
  <2> QED BY <1>9, <2>1, <2>2 DEF vars, VerifyInv
<1> QED BY <1>1, <1>2, <1>3, <1>4, <1>5, <1>6, <1>7, <1>8, <1>9 DEF Next

\* After an integration that succeeded, verify passes for the same mode and for
\* no other (verify_repo and integrate_repo agree), as long as Python reads
\* every file, for all repositories whose tasks take their pipeline by name and
\* which make no Pipecat tracer outside functions: verify fails one of those,
\* and one with an unreadable file that mentions a tracer, in any mode.
THEOREM VerifyAgreesHolds ==
  ASSUME \A r \in Repos : NamesAll(r) /\ NoStray(r)
  PROVE  Spec => [](Legible(repo) => VerifyAgrees)
<1>1. Init => VerifyInv
  <2> SUFFICES ASSUME Init PROVE VerifyInv
    OBVIOUS
  <2>1. IInv /\ NamesAll(repo) /\ NoStray(repo) /\ pc = "idle" /\ cmd.name = "none" /\ done = NoMode
    BY InitHolds DEF Init, NoCommand
  <2> QED BY <2>1 DEF ReportInv, VerifyInv, Integrated
<1>2. VerifyInv /\ [Next]_vars => VerifyInv'
  BY StepVerifies
<1>3. VerifyInv => (Legible(repo) => VerifyAgrees)
  <2> SUFFICES ASSUME VerifyInv, Legible(repo), cmd.name = "verify", done # NoMode PROVE ExitCode = 0 <=> cmd.mode = done
    BY DEF VerifyAgrees
  <2>1. ended = "report" /\ failed = VerifyFailures(repo, cmd.mode) /\ VerifiesAs(repo, done) /\ cmd.mode \in Modes
    BY DEF VerifyInv, ReportInv, IInv, TypeOK, Commands
  <2>2. ExitCode = 0 <=> failed = {}
    BY <2>1 DEF ExitCode
  <2> QED BY <2>1, <2>2 DEF VerifiesAs
<1> QED BY <1>1, <1>2, <1>3, PTL DEF Spec

-----------------------------------------------------------------------------
(* What the checks rule out                                                *)

\* A call after a start of its session does not pass.
LEMMA LateCall ==
  ASSUME NEW code, NEW mode, NEW c \in CallsOf(code, SessionCalls), NEW s \in CallsOf(code, {"start"}),
         c[2] = s[2], code[c[1]].name = code[s[1]].name, c[1] > s[1]
  PROVE  LiveKitFailures(code, mode) # {}
<1> DEFINE p1 == \E b \in CallsOf(code, SessionCalls), z \in CallsOf(code, {"start"}) :
                   /\ b[2] = z[2] /\ code[b[1]].name = code[z[1]].name
                   /\ b[1] > z[1]
<1>1. p1 = TRUE
  OBVIOUS
<1>2. \E checks : LiveKitFailures(code, mode) = Failing(checks) /\ <<"tracer_before_start", p1>> \in checks
  BY DEF LiveKitFailures
<1> HIDE DEF p1
<1>3. PICK checks : LiveKitFailures(code, mode) = Failing(checks) /\ <<"tracer_before_start", TRUE>> \in checks
  BY <1>1, <1>2
<1>4. PICK x : x = "tracer_before_start"
  OBVIOUS
<1>5. <<x, TRUE>> \in checks
  BY <1>3, <1>4
<1>6. x \in Failing(checks)
  BY <1>5, Fails, Zenon
<1> QED BY <1>3, <1>6

\* Nor does a test session without its agent.
LEMMA MissingAgent ==
  ASSUME NEW code, NEW mode, NEW c \in CallsOf(code, SessionCalls),
         code[c[1]].op = "track_session", "agent" \notin code[c[1]].has
  PROVE  LiveKitFailures(code, mode) # {}
<1> DEFINE p1 == \E b \in CallsOf(code, SessionCalls), s \in CallsOf(code, {"start"}) :
                   /\ b[2] = s[2] /\ code[b[1]].name = code[s[1]].name
                   /\ b[1] > s[1]
           p2 == \E b \in CallsOf(code, SessionCalls) : code[b[1]].op = "track_session" /\ "agent" \notin code[b[1]].has
           p3 == TracerInits(code, "LiveKitTracer") # {} /\ ~AtModuleScope(code, "LiveKitTracer")
           p4 == \E b \in CallsOf(code, SessionCalls) : code[b[1]].op # CallFor(mode, SessionCalls)
           p5 == Cardinality(CallsOf(code, SessionCalls)) > 1
<1>1. p2 = TRUE
  OBVIOUS
<1>2. LiveKitFailures(code, mode) =
        Failing({<<"tracer_before_start", p1>>, <<"track_session_has_agent", p2>>, <<"module_scope_init", p3>>,
                 <<"mode_consistent", p4>>, <<"tracer_exactly_once", p5>>})
  BY DEF LiveKitFailures
<1> HIDE DEF p1, p2, p3, p4, p5
<1>3. PICK x : x = "track_session_has_agent"
  OBVIOUS
<1>4. <<x, TRUE>> \in
        {<<"tracer_before_start", p1>>, <<"track_session_has_agent", p2>>, <<"module_scope_init", p3>>,
         <<"mode_consistent", p4>>, <<"tracer_exactly_once", p5>>}
  BY <1>1, <1>3
<1>5. PICK checks : LiveKitFailures(code, mode) = Failing(checks) /\ <<x, TRUE>> \in checks
  BY <1>2, <1>4, Zenon
<1>6. x \in Failing(checks)
  BY <1>5, Fails, Zenon
<1> QED BY <1>5, <1>6

\* A wrapped pipeline without a task, or whose last task lacks a flag, does not pass.
LEMMA MissingFlags ==
  ASSUME NEW code, NEW mode, TracerInits(code, "PipecatTracer") # {},
         CallsOf(code, CreateCalls) = {}, CallsOf(code, WrapCalls) # {},
         ~(/\ Where(code, {"task"}) # {}
           /\ {"enable_tracing", "enable_turn_tracking"} \subseteq code[LastWalked(code, Where(code, {"task"}))].has)
  PROVE  PipecatFailures(code, mode) # {}
<1> DEFINE p3 == CallsOf(code, CreateCalls) = {} /\ CallsOf(code, WrapCalls) # {} /\
                   ~(Where(code, {"task"}) # {} /\
                     {"enable_tracing", "enable_turn_tracking"} \subseteq code[LastWalked(code, Where(code, {"task"}))].has)
<1>1. p3 = TRUE
  OBVIOUS
<1>2. \E checks : PipecatFailures(code, mode) = Failing(checks) /\ <<"multi_step_tracing_flags", p3>> \in checks
  BY DEF PipecatFailures
<1> HIDE DEF p3
<1>3. PICK checks : PipecatFailures(code, mode) = Failing(checks) /\ <<"multi_step_tracing_flags", TRUE>> \in checks
  BY <1>1, <1>2
<1>4. PICK x : x = "multi_step_tracing_flags"
  OBVIOUS
<1>5. <<x, TRUE>> \in checks
  BY <1>3, <1>4
<1>6. x \in Failing(checks)
  BY <1>5, Fails, Zenon
<1> QED BY <1>3, <1>6

\* Nor does one without handlers, or with handlers registered before its last task.
LEMMA EarlyHandlers ==
  ASSUME NEW code, NEW mode, TracerInits(code, "PipecatTracer") # {},
         CallsOf(code, CreateCalls) = {}, CallsOf(code, WrapCalls) # {},
         \/ CallsOf(code, {"register"}) = {}
         \/ /\ Where(code, {"task"}) # {}
            /\ \E g \in CallsOf(code, {"register"}) : g[1] < LastWalked(code, Where(code, {"task"}))
  PROVE  PipecatFailures(code, mode) # {}
<1> DEFINE single == CallsOf(code, CreateCalls)
           wrap == CallsOf(code, WrapCalls)
           register == CallsOf(code, {"register"})
           task == Where(code, {"task"})
           last == LastWalked(code, task)
           p1 == AtModuleScope(code, "PipecatTracer")
           p2 == single = {} /\ wrap = {}
           p3 == single = {} /\ wrap # {} /\
                   ~(task # {} /\ {"enable_tracing", "enable_turn_tracking"} \subseteq code[last].has)
           p4 == single = {} /\ wrap # {} /\
                   (register = {} \/ (task # {} /\ \E c \in register : c[1] < last))
           p5 == \E c \in single \cup wrap :
                   code[c[1]].op \notin {CallFor(mode, CreateCalls), CallFor(mode, WrapCalls)}
           p6 == Cardinality(single \cup wrap) > 1
           p7 == Where(code, {"direct_observe"}) # {}
<1>1. p4 = TRUE
  OBVIOUS
<1>2. PipecatFailures(code, mode) =
        Failing({<<"per_call_tracer", p1>>, <<"integration_style", p2>>, <<"multi_step_tracing_flags", p3>>,
                 <<"register_task_handlers", p4>>, <<"mode_consistent", p5>>, <<"tracer_exactly_once", p6>>,
                 <<"no_direct_observe_duplication", p7>>})
  BY DEF PipecatFailures
<1> HIDE DEF p1, p2, p3, p4, p5, p6, p7
<1>3. PICK x : x = "register_task_handlers"
  OBVIOUS
<1>4. <<x, TRUE>> \in
        {<<"per_call_tracer", p1>>, <<"integration_style", p2>>, <<"multi_step_tracing_flags", p3>>,
         <<"register_task_handlers", p4>>, <<"mode_consistent", p5>>, <<"tracer_exactly_once", p6>>,
         <<"no_direct_observe_duplication", p7>>}
  BY <1>1, <1>3
<1>5. PICK checks : PipecatFailures(code, mode) = Failing(checks) /\ <<x, TRUE>> \in checks
  BY <1>2, <1>4, Zenon
<1>6. x \in Failing(checks)
  BY <1>5, Fails, Zenon
<1> QED BY <1>5, <1>6

-----------------------------------------------------------------------------
(* What the tracer's line can name                                         *)

\* Bound, said of the lines of the file.
ImportedBefore(code, m, t) ==
  \E i \in DOMAIN code : /\ code[i].op = "import" /\ code[i].name = m /\ code[i].scope = {}
                         /\ code[t].scope = {} => i < t

\* An import before a line binds its name there.
LEMMA BoundIs ==
  ASSUME NEW code, NEW m, NEW t, ImportedBefore(code, m, t)
  PROVE  Bound(code, m, t)
BY DEF ImportedBefore, Bound, Where

\* An edit brings the imports its lines need, if those there are can be used.
LEMMA BringsImports ==
  ASSUME NEW code, NEW out, NEW n, NEW H, NEW at, NEW d, NEW L, NEW old, NEW head, NEW new,
         CodeOk(code), Edited(code, out, n, H, at, d, L, old, head, new), d \in {0, 1},
         n = ImportInsertionLine(code),
         NEW m, NEW k \in 1..Len(H), H[k].op = "import", H[k].name = m, H[k].scope = {},
         NEW t \in DOMAIN out, out[t].scope # {} \/ \E l \in 1..Len(H) : t = head[l] /\ k < l
  PROVE  ImportedBefore(out, m, t)
<1>1. head[k] \in DOMAIN out /\ out[head[k]] = H[k]
  BY EditedIs
<1>2. out[t].scope = {} => head[k] < t
  <2> SUFFICES ASSUME NEW l \in 1..Len(H), t = head[l], k < l PROVE head[k] < t
    OBVIOUS
  <2> QED BY DEF Edited, Placed
<1> QED BY <1>1, <1>2 DEF ImportedBefore

\* An import that was there, outside functions, binds its name for the new lines.
LEMMA HasImports ==
  ASSUME NEW code, NEW out, NEW n, NEW H, NEW at, NEW d, NEW L, NEW old, NEW head, NEW new,
         CodeOk(code), Edited(code, out, n, H, at, d, L, old, head, new), d \in {0, 1},
         n = ImportInsertionLine(code), d = 1 => code[at].op # "import",
         NEW m, NEW i \in Where(code, {"import"}), code[i].name = m, code[i].scope = {},
         NEW t \in DOMAIN out, out[t].scope # {} \/ \E l \in 1..Len(H) : t = head[l]
  PROVE  ImportedBefore(out, m, t)
<1>1. i \in DOMAIN code /\ code[i].op = "import" /\ (d = 0 \/ i # at)
  BY DEF Where
<1>2. old[i] \in DOMAIN out /\ out[old[i]] = code[i]
  BY <1>1, EditedIs
<1>3. out[t].scope = {} => old[i] < t
  <2> SUFFICES ASSUME NEW l \in 1..Len(H), t = head[l] PROVE old[i] < t
    OBVIOUS
  <2>1. i < n /\ i \in 1..Len(code)
    BY <1>1, InsertionLineIs DEF CodeOk
  <2> QED BY <2>1 DEF Edited, Placed
<1> QED BY <1>1, <1>2, <1>3 DEF ImportedBefore

-----------------------------------------------------------------------------
(* A file that integrate wrote and the checks passed is traced             *)

\* An import of os that is within reach.
LEMMA OsInReach ==
  ASSUME NEW code, ~OsOutOfReach(code), HasImport(code, "os")
  PROVE  \E i \in Where(code, {"import"}) : code[i].name = "os" /\ code[i].scope = {}
BY DEF OsOutOfReach

\* A call in a function is one that the checks count.
LEMMA CallIn ==
  ASSUME NEW code, CodeOk(code), NEW ops, NEW j \in Where(code, ops), NEW f \in code[j].scope
  PROVE  \E c \in CallsOf(code, ops) : c[1] = j /\ c[2] = f
<1>1. f \in Functions_(code)
  BY DEF CodeOk, Where
<1>2. PICK c : c = <<j, f>>
  OBVIOUS
<1>3. c[1] = j /\ c[2] = f
  BY <1>2
<1>4. c \in CallsOf(code, ops)
  BY <1>1, <1>2, <1>3 DEF CallsOf
<1> QED BY <1>3, <1>4

\* What the lines of a LiveKit edit come to, in the file.
LEMMA LiveKitHonest ==
  ASSUME NEW r, NEW mode \in Modes, NEW file, NEW out, NEW start, NEW at, NEW n, NEW H, NEW d, NEW L,
         NEW old, NEW head, NEW new, LiveKitEdit(r, mode, file, out, start, at, n, H, d, L, old, head, new),
         CodeOk(out), ~OsOutOfReach(r.code[file]), LiveKitFailures(out, mode) = {}
  PROVE  LiveKitTraced(out, start.fn, mode)
<1> DEFINE code == r.code[file]
           f == start.fn
           op == CallFor(mode, SessionCalls)
<1>1. /\ CodeOk(code) /\ Edited(code, out, n, H, at, d, L, old, head, new) /\ d = 0 /\ d \in {0, 1}
      /\ LiveKitLines(code, at, SessionAction(mode), H, L) /\ at \in DOMAIN code /\ f \in code[at].scope
      /\ code[at].op = "start" /\ n = ImportInsertionLine(code)
      /\ \A i \in Where(code, {"import"}) : code[i].name \notin Tracers
  BY DEF LiveKitEdit, LiveKitAnchor, InBody, Body, Where
<1>2. ~OsOutOfReach(code)
  OBVIOUS
<1> HIDE DEF code, f
<1>3. PICK k \in 1..Len(L) : /\ L[k].scope = code[at].scope /\ L[k].name = code[at].name /\ L[k].op = op
                             /\ mode = "test" => "agent" \in L[k].has
  <2>1. mode = "test" => L[1].op = "track_session" /\ L[1].has = {"agent"}
    BY <1>1 DEF LiveKitLines, SessionAction
  <2>2. mode # "test" => L[1].op = "observe_session"
    BY <1>1 DEF LiveKitLines, SessionAction
  <2>3. L[1].op = op
    BY <2>1, <2>2, CallForIs DEF Modes
  <2>4. 1 \in 1..Len(L) /\ L[1].scope = code[at].scope /\ L[1].name = code[at].name
    BY <1>1 DEF LiveKitLines
  <2> QED BY <2>1, <2>3, <2>4
<1> DEFINE call == new[k]
<1>4. call \in DOMAIN out /\ out[call] = L[k]
  BY <1>1, <1>3, EditedIs
<1>5. op \in SessionCalls /\ op # "start"
  BY CallForIs DEF SessionCalls
<1>6. call \in InBody(out, f, {op}) /\ call \in Where(out, SessionCalls)
  BY <1>1, <1>3, <1>4, <1>5 DEF InBody, Body, Where
<1> DEFINE starts == {i \in InBody(out, f, {"start"}) : out[i].name = out[call].name}
<1>7. starts # {}
  <2>1. old[at] \in DOMAIN out /\ out[old[at]] = code[at]
    BY <1>1, EditedIs
  <2>2. old[at] \in starts
    BY <1>1, <1>3, <1>4, <2>1 DEF InBody, Body, Where
  <2> QED BY <2>2
<1>8. ASSUME NEW i \in starts PROVE call < i
  <2>1. i \in DOMAIN out /\ out[i].op = "start" /\ f \in out[i].scope /\ out[i].name = out[call].name
    BY DEF InBody, Body, Where
  <2>2. i \in Nat /\ call \in Nat
    BY <1>4, <2>1 DEF CodeOk
  <2>3. i # call
    BY <1>3, <1>4, <1>5, <2>1
  <2>4. PICK c \in CallsOf(out, SessionCalls) : c[1] = call /\ c[2] = f
    BY <1>6, CallIn DEF InBody, Body
  <2>5. i \in Where(out, {"start"})
    BY <2>1 DEF Where
  <2>6. PICK s \in CallsOf(out, {"start"}) : s[1] = i /\ s[2] = f
    BY <2>1, <2>5, CallIn
  <2>7. ~(c[1] > s[1])
    BY <2>1, <2>4, <2>6, LateCall
  <2> QED BY <2>2, <2>3, <2>4, <2>6, <2>7
<1>9. PICK l \in 1..Len(H) : /\ l = Len(H) /\ H[l].op = "tracer" /\ H[l].name = "LiveKitTracer" /\ H[l].scope = {}
  <2>1. Len(H) \in Nat /\ Len(H) # 0
    BY <1>1 DEF LiveKitLines
  <2> QED BY <1>1, <2>1 DEF LiveKitLines
<1> DEFINE t == head[l]
<1>10. t \in DOMAIN out /\ out[t] = H[l]
  BY <1>1, <1>9, EditedIs
<1>11. ASSUME NEW m, m \in {"os", "LiveKitTracer"}, NEW k1 \in 1..(Len(H) - 1), H[k1].name = m
       PROVE  ImportedBefore(out, m, t)
  <2>1. k1 \in 1..Len(H) /\ k1 < l
    BY <1>9, <1>1 DEF LiveKitLines
  <2>2. H[k1].op = "import" /\ H[k1].scope = {}
    BY <1>1 DEF LiveKitLines, ImportFor
  <2> QED BY <1>1, <1>10, <1>11, <2>1, <2>2, BringsImports
<1>12. PICK os : os = "os"
  OBVIOUS
<1>13. PICK tracer : tracer = "LiveKitTracer"
  OBVIOUS
<1>14. ImportedBefore(out, os, t)
  <2>1. CASE HasImport(code, "os")
    <3>1. PICK i \in Where(code, {"import"}) : code[i].name = os /\ code[i].scope = {}
      BY <1>2, <1>12, <2>1, OsInReach
    <3> QED BY <1>1, <1>9, <1>10, <3>1, HasImports
  <2>2. CASE ~HasImport(code, "os")
    <3>1. PICK k1 \in 1..(Len(H) - 1) : H[k1].name = os
      BY <1>1, <1>12, <2>2 DEF LiveKitLines
    <3> QED BY <1>11, <1>12, <3>1
  <2> QED BY <2>1, <2>2
<1>15. ImportedBefore(out, tracer, t)
  <2>1. ~HasImport(code, "LiveKitTracer")
    BY <1>1 DEF HasImport, Tracers
  <2>2. PICK k1 \in 1..(Len(H) - 1) : H[k1].name = tracer
    BY <1>1, <1>13, <2>1 DEF LiveKitLines
  <2> QED BY <1>11, <1>13, <2>2
<1>16. Bound(out, os, t) /\ Bound(out, tracer, t)
  BY <1>14, <1>15, BoundIs
<1>17. t \in Where(out, {"tracer"}) /\ out[t].name = "LiveKitTracer" /\ out[t].scope = {}
  BY <1>9, <1>10 DEF Where
<1>18. mode = "test" => "agent" \in out[call].has
  BY <1>3, <1>4
<1> HIDE DEF t, call, op
<1>19. \E j \in Where(out, {"tracer"}) :
          /\ out[j].name = "LiveKitTracer" /\ out[j].scope = {}
          /\ Bound(out, "os", j) /\ Bound(out, "LiveKitTracer", j)
  BY <1>12, <1>13, <1>16, <1>17, Zenon
<1>20. LiveKitTraced(out, f, mode)
  <2>1. starts # {} /\ \A i \in starts : call < i
    BY <1>7, <1>8
  <2> QED BY <1>6, <1>18, <1>19, <2>1 DEF LiveKitTraced, op
<1> QED BY <1>20 DEF f

\* The last task of a file whose tasks are all in one function is not before
\* another that is in it.
LEMMA LastTask ==
  ASSUME NEW code, CodeOk(code), NEW f, \A j \in Where(code, {"task"}) : code[j].scope \subseteq {f},
         NEW i \in Where(code, {"task"}), code[i].scope # {}, NEW last, last = LastWalked(code, Where(code, {"task"}))
  PROVE  last \in Where(code, {"task"}) /\ f \in code[last].scope /\ i <= last
<1> DEFINE S == Where(code, {"task"})
<1>1. S \in SUBSET DOMAIN code /\ S # {}
  BY DEF Where
<1>2. last \in S /\ \A j \in S \ {last} : WalkedBefore(code, j, last)
  <2> HIDE DEF S
  <2> QED BY <1>1, LastWalkedIs DEF S
<1>3. i \in Nat /\ last \in Nat /\ code[i].scope = {f} /\ code[last].scope \subseteq {f}
  <2>1. i \in DOMAIN code /\ last \in DOMAIN code
    BY <1>1, <1>2
  <2>2. code[i].scope \subseteq {f} /\ code[last].scope \subseteq {f}
    BY <1>2
  <2>3. DOMAIN code = 1..Len(code) /\ Len(code) \in Nat
    BY DEF CodeOk
  <2> HIDE DEF S
  <2>4. i \in Nat /\ last \in Nat
    BY <2>1, <2>3
  <2>5. code[i].scope = {f}
    BY <2>2
  <2> QED BY <2>2, <2>4, <2>5
<1>4. CASE last = i
  BY <1>2, <1>3, <1>4
<1>5. CASE last # i
  <2>1. WalkedBefore(code, i, last)
    BY <1>2, <1>5
  <2>2. Cardinality({f}) = 1 /\ Cardinality({}) = 0
    BY FS_Singleton, FS_EmptySet
  <2>3. code[last].scope = {} \/ code[last].scope = {f}
    BY <1>3
  <2>4. code[last].scope = {f} /\ i < last
    <3>1. Cardinality(code[i].scope) = 1
      BY <1>3, <2>2
    <3>2. Cardinality(code[last].scope) = 1 \/ Cardinality(code[last].scope) = 0
      BY <2>2, <2>3
    <3>3. \/ Cardinality(code[i].scope) < Cardinality(code[last].scope)
          \/ Cardinality(code[i].scope) = Cardinality(code[last].scope) /\ i < last
      BY <2>1 DEF WalkedBefore
    <3>4. Cardinality(code[last].scope) = 1 /\ i < last
      BY <3>1, <3>2, <3>3
    <3> QED BY <2>2, <2>3, <3>4
  <2> QED BY <1>2, <1>3, <2>4
<1> QED BY <1>4, <1>5

\* Two members of a set of at most one are the same.
LEMMA AtMostOne ==
  ASSUME NEW S, IsFiniteSet(S), Cardinality(S) <= 1, NEW x \in S, NEW y \in S
  PROVE  x = y
<1> SUFFICES ASSUME x # y PROVE FALSE
  OBVIOUS
<1>1. IsFiniteSet(S \ {x}) /\ Cardinality(S \ {x}) = Cardinality(S) - 1
  BY FS_RemoveElement
<1>2. Cardinality(S) \in Nat /\ Cardinality(S \ {x}) \in Nat
  BY <1>1, FS_CardinalityType
<1>3. Cardinality(S \ {x}) = 0
  BY <1>1, <1>2
<1>4. S \ {x} = {}
  BY <1>1, <1>3, FS_EmptySet
<1> QED BY <1>4

\* A file has finitely many lines of a kind.
LEMMA CallsAreFinite ==
  ASSUME NEW code, CodeOk(code), NEW ops
  PROVE  IsFiniteSet(Where(code, ops))
<1>1. DOMAIN code = 1..Len(code) /\ Len(code) \in Nat
  BY DEF CodeOk
<1>2. IsFiniteSet(DOMAIN code)
  BY <1>1, FS_Interval
<1>3. Where(code, ops) \subseteq DOMAIN code
  BY DEF Where
<1> QED BY <1>2, <1>3, FS_Subset

\* What the lines of a Pipecat edit come to, in the file.
LEMMA PipecatHonest ==
  ASSUME NEW r, NEW mode \in Modes, NEW type, NEW file, NEW out, NEW task, NEW at, NEW n, NEW H, NEW d, NEW L,
         NEW old, NEW head, NEW new, PipecatEdit(r, mode, type, file, out, task, at, n, H, d, L, old, head, new),
         CodeOk(out), Cardinality(Where(out, TracerCalls)) <= 1, ~OsOutOfReach(r.code[file]),
         PipecatFailures(out, mode) = {}, \A j \in Where(out, {"task"}) : out[j].scope \subseteq {task.fn}
  PROVE  PipecatTraced(out, task.fn, mode)
<1> DEFINE code == r.code[file]
           f == task.fn
<1>1. /\ CodeOk(code) /\ Edited(code, out, n, H, at, d, L, old, head, new) /\ d = 1 /\ d \in {0, 1}
      /\ PipecatLines(code, at, mode, type, H, L) /\ at \in DOMAIN code /\ f \in code[at].scope
      /\ code[at].op = "task" /\ n = ImportInsertionLine(code) /\ type \in PipecatActions
      /\ \A i \in Where(code, {"import"}) : code[i].name \notin Tracers
      /\ \A k \in 1..Len(L) : L[k].scope = code[at].scope
  BY DEF PipecatEdit, PipecatAnchor, TasksIn, InBody, Body, Where, PipecatLines
<1>2. ~OsOutOfReach(code) /\ \A j \in Where(out, {"task"}) : out[j].scope \subseteq {f}
  OBVIOUS
<1> HIDE DEF code, f
<1>3. PICK k1, k2 \in 1..Len(L) : /\ k1 < k2 /\ k1 = 1 /\ k2 = 2
                                  /\ L[k1].op = "tracer"
                                  /\ L[k2].op = CallFor(mode, IF type = "pipecat_multi_step" THEN WrapCalls ELSE CreateCalls)
  <2>1. 1 \in 1..Len(L) /\ 2 \in 1..Len(L) /\ 1 < 2
    BY <1>1 DEF PipecatLines
  <2> QED BY <1>1, <2>1 DEF PipecatLines
<1>4. \A k \in 1..Len(L) : new[k] \in DOMAIN out /\ out[new[k]] = L[k] /\ f \in out[new[k]].scope
  <2>1. \A k \in 1..Len(L) : new[k] \in DOMAIN out /\ out[new[k]] = L[k]
    BY <1>1, EditedIs
  <2> QED BY <1>1, <2>1
<1>5. \A i, j \in 1..Len(L) : i < j => new[i] < new[j]
  BY <1>1 DEF Edited, Placed
<1> DEFINE t == new[k1]
<1>6. t \in InBody(out, f, {"tracer"}) /\ out[t].scope # {} /\ t \in DOMAIN out
  BY <1>3, <1>4 DEF InBody, Body, Where
<1>7. ASSUME NEW m, m \in {"os", "PipecatTracer"}, NEW k \in 1..Len(H), H[k].name = m
      PROVE  ImportedBefore(out, m, t)
  <2>1. H[k].op = "import" /\ H[k].scope = {}
    BY <1>1 DEF PipecatLines, Imports, ImportFor
  <2> QED BY <1>1, <1>6, <1>7, <2>1, BringsImports
<1>8. PICK os : os = "os"
  OBVIOUS
<1>9. PICK tracer : tracer = "PipecatTracer"
  OBVIOUS
<1>10. ImportedBefore(out, os, t)
  <2>1. CASE HasImport(code, "os")
    <3>1. PICK i \in Where(code, {"import"}) : code[i].name = os /\ code[i].scope = {}
      BY <1>2, <1>8, <2>1, OsInReach
    <3>2. d = 1 => code[at].op # "import"
      BY <1>1
    <3> QED BY <1>1, <1>6, <3>1, <3>2, HasImports
  <2>2. CASE ~HasImport(code, "os")
    <3>1. PICK k \in 1..Len(H) : H[k].name = os
      BY <1>1, <1>8, <2>2 DEF PipecatLines, Imports
    <3> QED BY <1>7, <1>8, <3>1
  <2> QED BY <2>1, <2>2
<1>11. ImportedBefore(out, tracer, t)
  <2>1. ~HasImport(code, "PipecatTracer")
    BY <1>1 DEF HasImport, Tracers
  <2>2. PICK k \in 1..Len(H) : H[k].name = tracer
    BY <1>1, <1>9, <2>1 DEF PipecatLines, Imports
  <2> QED BY <1>7, <1>9, <2>2
<1>12. Bound(out, "os", t) /\ Bound(out, "PipecatTracer", t)
  <2>1. Bound(out, os, t) /\ Bound(out, tracer, t)
    BY <1>10, <1>11, BoundIs
  <2> QED BY <1>8, <1>9, <2>1, Zenon
<1>13. CASE type # "pipecat_multi_step"
  <2>1. L[k2].op = CallFor(mode, CreateCalls)
    BY <1>3, <1>13
  <2>2. new[k2] \in InBody(out, f, {CallFor(mode, CreateCalls)}) /\ t < new[k2]
    BY <1>3, <1>4, <1>5, <2>1 DEF InBody, Body, Where
  <2> HIDE DEF t
  <2>3. PipecatTraced(out, f, mode)
    BY <1>6, <1>12, <2>2 DEF PipecatTraced
  <2> QED BY <2>3 DEF f
<1>14. CASE type = "pipecat_multi_step"
  <2>1. L[k2].op = CallFor(mode, WrapCalls)
    BY <1>3, <1>14
  <2> DEFINE w == new[k2]
  <2>2. w \in InBody(out, f, {CallFor(mode, WrapCalls)}) /\ t < w /\ w \in Where(out, WrapCalls) /\ f \in out[w].scope
    BY <1>3, <1>4, <1>5, <2>1, CallForIs DEF InBody, Body, Where
  <2>3. PICK k3, k4 \in 1..Len(L) : k2 < k3 /\ k3 < k4 /\ L[k3].op = "task" /\ L[k4].op = "register"
    <3>1. Len(L) = 4 /\ L[3].op = "task" /\ L[4].op = "register"
      BY <1>1, <1>14 DEF PipecatLines
    <3>2. 3 \in 1..Len(L) /\ 4 \in 1..Len(L) /\ k2 < 3 /\ 3 < 4
      BY <1>3, <3>1
    <3> QED BY <3>1, <3>2
  <2> DEFINE S == Where(out, {"task"})
             last == LastWalked(out, S)
             g == new[k4]
  <2>4. new[k3] \in S /\ out[new[k3]].scope # {} /\ w < new[k3]
    BY <1>4, <1>5, <2>3 DEF Where
  <2>5. last \in S /\ f \in out[last].scope /\ new[k3] <= last
    BY <1>2, <2>4, LastTask
  <2>6. last \in InBody(out, f, {"task"}) /\ w < last
    <3>1. w \in Nat /\ new[k3] \in Nat /\ last \in Nat
      BY <1>4, <2>4, <2>5 DEF Where, CodeOk
    <3>2. w < last
      <4> HIDE DEF w, last
      <4> QED BY <3>1, <2>4, <2>5
    <3> QED BY <2>5, <3>2 DEF InBody, Body, Where
  <2>7. g \in InBody(out, f, {"register"}) /\ g \in Where(out, {"register"}) /\ f \in out[g].scope
    BY <1>4, <2>3 DEF InBody, Body, Where
  <2>8. CallsOf(out, WrapCalls) # {}
    BY <2>2, CallIn
  <2>9. CallsOf(out, CreateCalls) = {}
    <3> SUFFICES ASSUME NEW c \in CallsOf(out, CreateCalls) PROVE FALSE
      OBVIOUS
    <3>1. c[1] \in Where(out, CreateCalls)
      BY DEF CallsOf
    <3>2. c[1] \in Where(out, TracerCalls) /\ w \in Where(out, TracerCalls)
      BY <2>2, <3>1 DEF Where, TracerCalls
    <3>3. c[1] = w
      <4> HIDE DEF w
      <4>1. IsFiniteSet(Where(out, TracerCalls))
        BY CallsAreFinite
      <4> QED BY <3>2, <4>1, AtMostOne
    <3> QED BY <2>2, <3>1, <3>3 DEF Where, CreateCalls, WrapCalls
  <2>10. TracerInits(out, "PipecatTracer") # {}
    <3>1. L[k1].name = "PipecatTracer"
      BY <1>1, <1>3 DEF PipecatLines
    <3> QED BY <1>3, <1>4, <3>1 DEF TracerInits, Where
  <2>11. {"enable_tracing", "enable_turn_tracking"} \subseteq out[last].has
    BY <2>8, <2>9, <2>10, MissingFlags
  <2>12. last < g
    <3>1. last \in Nat /\ g \in Nat /\ last # g
      BY <1>4, <2>3, <2>5 DEF Where, CodeOk
    <3>2. PICK c \in CallsOf(out, {"register"}) : c[1] = g
      BY <2>7, CallIn
    <3>3. ~(c[1] < last)
      BY <2>4, <2>8, <2>9, <2>10, EarlyHandlers
    <3> HIDE DEF last, g
    <3> QED BY <3>1, <3>2, <3>3
  <2> HIDE DEF t, w, last, g, S
  <2>13. PipecatTraced(out, f, mode)
    BY <1>6, <1>12, <2>2, <2>6, <2>7, <2>11, <2>12 DEF PipecatTraced
  <2> QED BY <2>13 DEF f
<1> QED BY <1>13, <1>14

\* Checks that find nothing find nothing in any of the files.
LEMMA NoFailures ==
  ASSUME NEW r, NEW files, NEW mode, CollectChecks(r, files, mode) = {}, NEW f \in files
  PROVE  Readable(r, f) /\ FileChecks(r.code[f], mode) = {}
<1>1. \A x : x \notin CollectChecks(r, files, mode)
  OBVIOUS
<1>2. Readable(r, f)
  BY <1>1 DEF CollectChecks
<1>3. \A x : x \notin FileChecks(r.code[f], mode)
  BY <1>1, <1>2 DEF CollectChecks, FileChecks
<1> QED BY <1>2, <1>3

\* The checks of a command passed that put nothing into the entrypoint's file but code.
Checked(r, mode, q) ==
  /\ SameGarbage(r, q)
  /\ \E changed \in SUBSET DOMAIN q.code : /\ CollectChecks(q, changed, mode) = {}
                                          /\ \A f \in DOMAIN q.code : q.code[f] # r.code[f] => f \in changed
  /\ \A e \in Entries(q, Framework(q)) : "cekura" \notin TextOf(q, e.file)

\* A changed file passes every check of a run that did.
LEMMA CheckedFile ==
  ASSUME NEW r, NEW mode, NEW q, Checked(r, mode, q), NEW f \in DOMAIN q.code, q.code[f] # r.code[f]
  PROVE  Readable(q, f) /\ FileChecks(q.code[f], mode) = {}
<1>1. PICK changed \in SUBSET DOMAIN q.code : CollectChecks(q, changed, mode) = {} /\ f \in changed
  BY DEF Checked
<1> QED BY <1>1, NoFailures

\* The one call of a file that has been integrated.
LEMMA OneCall ==
  ASSUME NEW q, WellFormed(q), TracedOnce(q), NEW file \in DOMAIN q.code, Where(q.code[file], TracerCalls) # {}
  PROVE  Cardinality(Where(q.code[file], TracerCalls)) = 1
<1> DEFINE S == Where(q.code[file], TracerCalls)
<1>1. IsFiniteSet(S)
  BY FileIs, CallsAreFinite
<1>2. Cardinality(S) <= 1
  BY DEF TracedOnce
<1> HIDE DEF S
<1>3. Cardinality(S) \in Nat
  BY <1>1, FS_CardinalityType
<1>4. S # {}
  BY DEF S
<1>5. Cardinality(S) # 0
  BY <1>1, <1>4, FS_EmptySet
<1>6. Cardinality(S) = 1
  BY <1>2, <1>3, <1>5
<1> QED BY <1>6 DEF S

\* A LiveKit repository that was written, and passed, is traced.
LEMMA LiveKitIsTraced ==
  ASSUME NEW r, NEW mode, NEW q, Wrote(r, mode, q), NEW a, Carried(r, mode, q, a), Framework(r) = "livekit",
         Checked(r, mode, q),
         ~OsOutOfReach(r.code[a.file])
  PROVE  Traced(q, mode)
<1> DEFINE file == a.file
           code == r.code[file]
           out == q.code[file]
<1>1. PICK start, at, n, H, d, L, old, head, new :
           LiveKitEdit(r, mode, file, out, start, at, n, H, d, L, old, head, new)
  BY LiveKitEdits DEF Wrote
<1>2. /\ OnlyChanges(r, q, file) /\ file \in DOMAIN r.code /\ file \in DOMAIN q.code /\ mode \in Modes
      /\ WellFormed(r) /\ WellFormed(q) /\ TracedOnce(q) /\ Supported(r)
  BY DEF Carried, OnlyChanges, Wrote
<1>3. CodeOk(code) /\ CodeOk(out)
  BY <1>2, FileIs
<1>4. PICK fw : fw = "livekit"
  OBVIOUS
<1>5. /\ SameEntries(fw, r, q, file, old) /\ KeepsFrameworks(code, out)
      /\ SameGarbage(r, q) /\ Readable(r, file) /\ Readable(q, file)
  <2>1. KeepsFrameworks(code, out) /\ SameGarbage(r, q) /\ Readable(r, file) /\ Parses(out)
    BY <1>1, LiveKitKeeps DEF Checked
  <2>2. Readable(q, file)
    BY <1>2, <2>1, ReadableKept
  <2> QED BY <1>1, <1>2, <1>4, <2>1, <2>2, LiveKitSame
<1>6. Framework(q) = fw /\ Framework(r) = fw
  BY <1>2, <1>4, <1>5, SameFramework
<1>7. PICK e : Entries(r, fw) = {e}
  BY <1>2, <1>6, OneEntry
<1>8. PICK c : Entries(q, fw) = {c} /\ c.file = e.file /\ c.fn = e.fn
  BY <1>5, <1>7, StillOneEntry
<1>9. c.file = file /\ c.fn = start.fn /\ c.framework = fw
  <2>1. PICK b \in Entries(r, fw) : b.file = file /\ b.fn = start.fn
    BY <1>1, <1>4 DEF LiveKitEdit, LiveKitAnchor
  <2>2. b = e
    BY <1>7, <2>1
  <2>3. c.framework = fw
    BY <1>8 DEF Entries
  <2> QED BY <1>8, <2>1, <2>2, <2>3
<1>10. Where(out, TracerCalls) # {} /\ Mentions(out, "LiveKitTracer") /\ Where(code, TracerCalls) = {}
  <2>1. /\ 1 \in 1..Len(L) /\ L[1].op \in TracerCalls
        /\ Edited(code, out, n, H, at, d, L, old, head, new) /\ d \in {0, 1}
        /\ Len(H) \in 1..Len(H) /\ H[Len(H)].op = "tracer" /\ H[Len(H)].name = "LiveKitTracer"
    <3>1. /\ Edited(code, out, n, H, at, d, L, old, head, new) /\ d \in {0, 1}
          /\ LiveKitLines(code, at, SessionAction(mode), H, L)
      BY <1>1 DEF LiveKitEdit
    <3> HIDE DEF code, out
    <3>2. Len(H) \in Nat /\ Len(H) # 0
      BY <3>1 DEF LiveKitLines
    <3> QED BY <3>1, <3>2 DEF LiveKitLines, TracerCalls, SessionCalls
  <2>2. PICK k \in 1..Len(L) : L[k].op \in TracerCalls
    BY <2>1
  <2>3. PICK m \in 1..Len(H) : H[m].op = "tracer" /\ H[m].name = "LiveKitTracer"
    BY <2>1
  <2>4. new[k] \in DOMAIN out /\ out[new[k]] = L[k] /\ head[m] \in DOMAIN out /\ out[head[m]] = H[m]
    <3> HIDE DEF code, out
    <3> QED BY <1>3, <2>1, <2>2, <2>3, EditedIs
  <2>5. Where(code, TracerCalls) = {}
    BY <1>1 DEF LiveKitEdit
  <2> QED BY <2>2, <2>3, <2>4, <2>5 DEF Mentions, Where
<1>11. FileChecks(out, mode) = {}
  <2>1. out # code
    BY <1>10
  <2> QED BY <1>2, <2>1, CheckedFile
<1>12. LiveKitFailures(out, mode) = {}
  BY <1>10, <1>11 DEF FileChecks
<1>13. LiveKitTraced(out, start.fn, mode)
  BY <1>1, <1>2, <1>3, <1>12, LiveKitHonest
<1>14. Cardinality(Where(out, TracerCalls)) = 1
  BY <1>2, <1>10, OneCall
<1> HIDE DEF file, code
<1>15. /\ c \in Entries(q, Framework(q)) /\ c.framework = "livekit" /\ q.code[c.file] = out
       /\ "cekura" \notin TextOf(q, c.file)
  BY <1>4, <1>6, <1>8, <1>9 DEF Checked
<1> QED BY <1>9, <1>13, <1>14, <1>15 DEF Traced

\* A Pipecat repository that was written, and passed, is traced.
LEMMA PipecatIsTraced ==
  ASSUME NEW r, NEW mode, NEW q, Wrote(r, mode, q), NEW a, Carried(r, mode, q, a), Framework(r) = "pipecat",
         Checked(r, mode, q),
         ~OsOutOfReach(r.code[a.file])
  PROVE  Traced(q, mode)
<1> DEFINE file == a.file
           code == r.code[file]
           out == q.code[file]
<1>2. /\ OnlyChanges(r, q, file) /\ file \in DOMAIN r.code /\ file \in DOMAIN q.code /\ mode \in Modes
      /\ WellFormed(r) /\ WellFormed(q) /\ TracedOnce(q) /\ Supported(r)
  BY DEF Carried, OnlyChanges, Wrote
<1>1. PICK task, at, n, H, d, L, old, head, new :
           PipecatEdit(r, mode, a.type, file, out, task, at, n, H, d, L, old, head, new)
  BY <1>2, PipecatEdits DEF Wrote
<1>3. CodeOk(code) /\ CodeOk(out)
  BY <1>2, FileIs
<1>4. PICK fw : fw = "pipecat"
  OBVIOUS
<1>5. Where(out, TracerCalls) # {} /\ Mentions(out, "PipecatTracer") /\ Where(code, TracerCalls) = {}
  <2>1. /\ 1 \in 1..Len(L) /\ L[1].op = "tracer" /\ L[1].name = "PipecatTracer"
        /\ 2 \in 1..Len(L) /\ L[2].op \in TracerCalls
        /\ Edited(code, out, n, H, at, d, L, old, head, new) /\ d \in {0, 1}
    BY <1>1, <1>2, CallForIs DEF PipecatEdit, PipecatLines, TracerCalls
  <2>2. PICK k \in 1..Len(L) : L[k].op \in TracerCalls
    BY <2>1
  <2>3. PICK m \in 1..Len(L) : L[m].op = "tracer" /\ L[m].name = "PipecatTracer"
    BY <2>1
  <2>4. new[k] \in DOMAIN out /\ out[new[k]] = L[k] /\ new[m] \in DOMAIN out /\ out[new[m]] = L[m]
    <3> HIDE DEF code, out
    <3> QED BY <1>3, <2>1, <2>2, <2>3, EditedIs
  <2>5. Where(code, TracerCalls) = {}
    BY <1>1 DEF PipecatEdit
  <2> QED BY <2>2, <2>3, <2>4, <2>5 DEF Mentions, Where
<1>6. Readable(q, file) /\ FileChecks(out, mode) = {}
  <2>1. out # code
    BY <1>5
  <2> QED BY <1>2, <2>1, CheckedFile
<1>7. PipecatFailures(out, mode) = {}
  BY <1>5, <1>6 DEF FileChecks
<1>8. /\ SameEntries(fw, r, q, file, old) /\ KeepsFrameworks(code, out)
      /\ SameGarbage(r, q) /\ Readable(r, file)
  <2>1. KeepsFrameworks(code, out) /\ SameGarbage(r, q) /\ Readable(r, file) /\ Parses(out)
    BY <1>1, <1>2, <1>6, PipecatKeeps DEF Checked, Readable
  <2> QED BY <1>1, <1>2, <1>4, <1>6, <2>1, PipecatSame
<1>9. Framework(q) = fw /\ Framework(r) = fw
  BY <1>2, <1>4, <1>6, <1>8, SameFramework
<1>10. PICK e : Entries(r, fw) = {e}
  BY <1>2, <1>9, OneEntry
<1>11. PICK c : Entries(q, fw) = {c} /\ c.file = e.file /\ c.fn = e.fn
  BY <1>8, <1>10, StillOneEntry
<1>12. c.file = file /\ c.fn = task.fn /\ c.framework = fw /\ file \notin ScannerTests
  <2>1. PICK b \in Entries(r, fw) : b.file = file /\ b.fn = task.fn
    BY <1>1, <1>4 DEF PipecatEdit, PipecatAnchor
  <2>2. b = e
    BY <1>10, <2>1
  <2>3. c.framework = fw
    BY <1>11 DEF Entries
  <2>4. file \notin ScannerTests
    BY <1>1 DEF PipecatEdit, PipecatAnchor
  <2> QED BY <1>11, <2>1, <2>2, <2>3, <2>4
<1>13. ASSUME NEW j \in Where(out, {"task"}), NEW f \in out[j].scope PROVE f = task.fn
  <2>1. j \in TasksIn(out, f)
    BY <1>13 DEF TasksIn, InBody, Body, Where
  <2>2. f \in Functions_(out)
    BY <1>3, <1>13 DEF CodeOk, Where
  <2>3. PICK i \in Where(out, {"def"}) : out[i].name = f
    BY <2>2 DEF Functions_
  <2>4. EntryAt(q, fw, file, i)
    BY <1>2, <1>4, <1>6, <1>12, <2>1, <2>3 DEF EntryAt
  <2>5. PICK b \in Entries(q, fw) : b.fn = out[i].name
    BY <2>4, EntryIn
  <2> QED BY <1>11, <1>12, <2>3, <2>5
<1>14. PipecatTraced(out, task.fn, mode)
  <2>1. \A j \in Where(out, {"task"}) : out[j].scope \subseteq {task.fn}
    BY <1>13
  <2>2. Cardinality(Where(out, TracerCalls)) <= 1
    BY <1>2 DEF TracedOnce
  <2> HIDE DEF out
  <2> QED BY <1>1, <1>2, <1>3, <1>7, <2>1, <2>2, PipecatHonest
<1>15. Cardinality(Where(out, TracerCalls)) = 1
  BY <1>2, <1>5, OneCall
<1> HIDE DEF file, code
<1>16. /\ c \in Entries(q, Framework(q)) /\ c.framework # "livekit" /\ q.code[c.file] = out
       /\ "cekura" \notin TextOf(q, c.file)
  BY <1>4, <1>9, <1>11, <1>12 DEF Checked
<1> QED BY <1>12, <1>14, <1>15, <1>16 DEF Traced

\* What integrate wrote and the checks passed is traced, unless the file
\* imports os where the tracer cannot use it.
LEMMA WrittenTraces ==
  ASSUME NEW r, NEW mode, NEW q, Wrote(r, mode, q), Checked(r, mode, q),
         \A file \in DOMAIN r.code : ~OsOutOfReach(r.code[file])
  PROVE  Traced(q, mode)
<1>1. PICK a : Carried(r, mode, q, a)
  BY DEF Wrote
<1>2. ~OsOutOfReach(r.code[a.file])
  BY <1>1 DEF Carried, OnlyChanges
<1>3. Framework(r) \in {"livekit", "pipecat"}
  BY SupportedIs DEF SupportedFacts, Wrote
<1>4. CASE Framework(r) = "livekit"
  BY <1>1, <1>2, <1>4, LiveKitIsTraced
<1>5. CASE Framework(r) = "pipecat"
  BY <1>1, <1>2, <1>5, PipecatIsTraced
<1> QED BY <1>3, <1>4, <1>5

\* A file that looks like a manifest holds the dependency, or lines went astray.
Depends == HasDependency(repo) \/ Changed \cap Misplaced(repo) # {}

\* What a command wrote, until it ends, and what its checks make of it.
HonestInv ==
  /\ IInv
  /\ pc \in {"check", "platform"} /\ applied => Wrote(base, cmd.mode, repo)
  /\ pc = "platform" /\ applied /\ failed = {} =>
        CollectChecks(repo, ChangedCode, cmd.mode) = {} /\ Garbled = {} /\ Depends
  /\ HonestExit

\* Each action keeps the invariant.
LEMMA PatchIsHonest == ASSUME HonestInv, Patch PROVE HonestInv'
<1> DEFINE after == Build(repo, cmd.mode, plan)
<1>1. IInv'
  BY PatchHolds DEF HonestInv
<1>2. /\ base' = base /\ cmd' = cmd /\ pc = "patch"
      /\ \/ repo' = repo /\ applied' = applied
         \/ repo' = after /\ repo' # repo /\ BuildVerdict(repo, plan) = "ok" /\ pc' = "check"
  BY DEF Patch, Finish
<1>3. /\ WellFormed(repo) /\ TracedOnce(repo) /\ Supported(repo) /\ ~applied /\ Accepted(repo, cmd.mode, plan)
      /\ base = repo /\ cmd.mode \in Modes
  BY <1>2 DEF HonestInv, IInv, Accepted, TypeOK, Commands
<1> HIDE DEF after
<1>4. CASE repo' = repo /\ applied' = applied
  <2>1. ~applied'
    BY <1>3, <1>4
  <2> QED BY <1>1, <2>1 DEF HonestInv, HonestExit
<1>5. CASE repo' = after /\ repo' # repo /\ BuildVerdict(repo, plan) = "ok" /\ pc' = "check"
  <2>1. PICK a : Carried(repo, cmd.mode, repo', a)
    BY <1>3, <1>5, CarriedOut DEF after
  <2>2. WellFormed(repo') /\ TracedOnce(repo')
    BY <1>1 DEF IInv
  <2>3. TextsGrow(repo, repo')
    BY <1>5, BuildGrows DEF after
  <2>4. Wrote(repo, cmd.mode, repo')
    BY <1>3, <2>1, <2>2, <2>3 DEF Wrote
  <2> QED BY <1>1, <1>2, <1>3, <1>5, <2>4 DEF HonestInv, HonestExit, Integrated
<1> QED BY <1>2, <1>4, <1>5

\* The check that the dependency is added.
LEMMA DependencyChecked ==
  ASSUME Check, failed' = {}
  PROVE  Depends
<1>1. PICK file \in Changed \cap LookAlikes : "cekura" \in TextOf(repo, file)
  BY ChecksPassed
<1>2. file \in DOMAIN repo.deps /\ TextOf(repo, file) = repo.deps[file]
  BY <1>1 DEF TextOf
<1>3. CASE file \in ToSet(Manifests) /\ "garbage" \notin TextOf(repo, file)
  BY <1>1, <1>3 DEF Depends, HasDependency
<1>4. CASE file \notin ToSet(Manifests) \/ "garbage" \in TextOf(repo, file)
  BY <1>1, <1>2, <1>4 DEF Depends, Misplaced
<1> QED BY <1>3, <1>4

\* Only the repository, and what the command found, decide that.
LEMMA SameDepends ==
  ASSUME repo' = repo, base' = base
  PROVE  ChangedCode' = ChangedCode /\ Garbled' = Garbled /\ Changed' = Changed /\ (Depends' <=> Depends)
<1>1. ChangedCode' = ChangedCode /\ ChangedTexts' = ChangedTexts /\ Garbled' = Garbled
  BY DEF ChangedCode, ChangedTexts, Garbled
<1>2. Changed' = Changed
  BY <1>1 DEF Changed
<1>3. (HasDependency(repo)' <=> HasDependency(repo)) /\ Misplaced(repo)' = Misplaced(repo)
  BY DEF HasDependency, Misplaced
<1> QED BY <1>1, <1>2, <1>3 DEF Depends

\* The checks are of the files that the patch changed.
LEMMA CheckIsHonest == ASSUME HonestInv, Check PROVE HonestInv'
<1>1. IInv'
  BY CheckHolds DEF HonestInv
<1>2. /\ repo' = repo /\ base' = base /\ cmd' = cmd /\ applied' = applied /\ pc = "check" /\ pc' = "platform"
      /\ CollectChecks(repo, ChangedCode, cmd.mode) \subseteq failed'
  BY DEF Check
<1>3. ChangedCode' = ChangedCode /\ Garbled' = Garbled /\ (Depends' <=> Depends)
  BY <1>2, SameDepends
<1>4. CollectChecks(repo', ChangedCode', cmd'.mode) = CollectChecks(repo, ChangedCode, cmd.mode)
  BY <1>2, <1>3
<1>5. failed' = {} => Depends' /\ Garbled' = {}
  BY <1>3, ChecksPassed, DependencyChecked
<1>6. failed' = {} => CollectChecks(repo', ChangedCode', cmd'.mode) = {}
  BY <1>2, <1>4
<1>7. HonestExit'
  BY <1>2 DEF HonestExit, Integrated
<1>8. applied' => Wrote(base', cmd'.mode, repo')
  BY <1>2 DEF HonestInv
<1> QED BY <1>1, <1>2, <1>5, <1>6, <1>7, <1>8 DEF HonestInv

\* The command ends, with exit code 0 if no check failed.
LEMMA PlatformIsHonest == ASSUME HonestInv, PreparePlatform PROVE HonestInv'
<1>1. IInv'
  BY PlatformHolds DEF HonestInv
<1>2. /\ repo' = repo /\ base' = base /\ cmd' = cmd /\ applied' = applied /\ failed' = failed
      /\ pc = "platform" /\ pc' = "idle"
  BY DEF PreparePlatform, Finish
<1>3. ASSUME applied, failed = {},
             \A file \in DOMAIN base.code : ~OsOutOfReach(base.code[file]),
             \A e \in Entries(repo, Framework(repo)) : "cekura" \notin TextOf(repo, e.file)
      PROVE  Traced(repo, cmd.mode)
  <2>1. Wrote(base, cmd.mode, repo) /\ CollectChecks(repo, ChangedCode, cmd.mode) = {} /\ Garbled = {}
    BY <1>2, <1>3 DEF HonestInv
  <2>2. SameGarbage(base, repo)
    BY <2>1, NothingGarbled DEF Wrote, Garbled
  <2>3. Checked(base, cmd.mode, repo)
    <3>1. /\ ChangedCode \in SUBSET DOMAIN repo.code
          /\ \A f \in DOMAIN repo.code : repo.code[f] # base.code[f] => f \in ChangedCode
      BY DEF ChangedCode
    <3> QED BY <1>3, <2>1, <2>2, <3>1 DEF Checked
  <2> QED BY <1>3, <2>1, <2>3, WrittenTraces
<1>4. HonestExit'
  <2>1. ExitCode' = 0 => failed' = {}
    BY DEF ExitCode
  <2>2. /\ Depends' <=> Depends
        /\ Traced(repo, cmd.mode)' <=> Traced(repo, cmd.mode)
    BY <1>2, SameDepends
  <2>3. applied /\ failed = {} => Depends
    BY <1>2 DEF HonestInv
  <2> QED BY <1>2, <1>3, <2>1, <2>2, <2>3 DEF HonestExit, Depends
<1> QED BY <1>1, <1>2, <1>4 DEF HonestInv

\* HonestInv is inductive.
LEMMA StepIsHonest == ASSUME HonestInv, [Next]_vars PROVE HonestInv'
<1>1. IInv'
  BY StepHolds DEF HonestInv
<1>2. CASE StartIntegrate
  <2>1. ~applied'
    BY <1>2 DEF StartIntegrate
  <2> QED BY <1>1, <2>1 DEF HonestInv, HonestExit
<1>3. CASE Plan
  <2>1. ~applied'
    BY <1>3 DEF Plan, HonestInv, IInv
  <2> QED BY <1>1, <2>1 DEF HonestInv, HonestExit
<1>4. CASE Patch BY <1>4, PatchIsHonest
<1>5. CASE Check BY <1>5, CheckIsHonest
<1>6. CASE PreparePlatform BY <1>6, PlatformIsHonest
<1>7. CASE \E mode \in Modes : VerifyRepo(mode)
  <2>1. ~applied'
    BY <1>7 DEF VerifyRepo
  <2> QED BY <1>1, <2>1 DEF HonestInv, HonestExit
<1>8. CASE \E file \in DOMAIN repo.code : \E i \in DOMAIN repo.code[file] : DeletesLine(file, i)
  <2>1. ~applied'
    BY <1>8 DEF DeletesLine, CustomerEdits
  <2> QED BY <1>1, <2>1 DEF HonestInv, HonestExit
<1>9. CASE \E m \in ToSet(Manifests) : AddsDependency(m)
  <2>1. ~applied'
    BY <1>9 DEF AddsDependency, CustomerEdits
  <2> QED BY <1>1, <2>1 DEF HonestInv, HonestExit
<1>10. CASE UNCHANGED vars
  <2>1. /\ repo' = repo /\ base' = base /\ cmd' = cmd /\ pc' = pc /\ applied' = applied /\ failed' = failed
        /\ ended' = ended
    BY <1>10 DEF vars
  <2>2. ChangedCode' = ChangedCode /\ Garbled' = Garbled /\ (Depends' <=> Depends)
    BY <2>1, SameDepends
  <2>3. HonestExit'
    BY <2>1, <2>2 DEF HonestInv, HonestExit, Integrated, ExitCode, Depends
  <2> QED BY <1>1, <2>1, <2>2, <2>3 DEF HonestInv
<1> QED BY <1>2, <1>3, <1>4, <1>5, <1>6, <1>7, <1>8, <1>9, <1>10 DEF Next

\* An integrate --apply that patched files and exits 0 leaves a repository that
\* traces a session of its entrypoint in the mode asked for, with the SDK in a
\* manifest, whatever plan a model proposed (integrate_repo, validate_plan,
\* collect_checks), unless a file imports os in functions only, or the plan put
\* requirements or placeholders where they do not belong: for all repositories.
THEOREM HonestExitHolds == Spec => []HonestExit
<1>1. Init => HonestInv
  BY InitHolds DEF Init, HonestInv, HonestExit
<1>2. HonestInv /\ [Next]_vars => HonestInv'
  BY StepIsHonest
<1>3. HonestInv => HonestExit
  BY DEF HonestInv
<1> QED BY <1>1, <1>2, <1>3, PTL DEF Spec
=============================================================================
