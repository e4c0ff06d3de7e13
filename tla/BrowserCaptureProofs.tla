------------------------ MODULE BrowserCaptureProofs ------------------------
(***************************************************************************)
(* Proofs about what the imports make of a recording, for every set of     *)
(* places, reports, sessions to record and bounds: the state and every     *)
(* session accepted are of their type (TypeOK), an accepted session goes   *)
(* on exactly where the browser stopped (SequencesFollow), it is bound to  *)
(* a form that is there (RootIsLive), and a receipt profile says of the    *)
(* report what is true of it (ReceiptProfileIsTrue).                       *)
(*                                                                         *)
(* The imports see only the file.  The invariant relates it to the page    *)
(* and to Dynamics: every exchange since the page was loaded went to its   *)
(* place, saw no more than the page has seen, and was acknowledged no      *)
(* further than Dynamics has come; the last one that could be parsed       *)
(* brought the page where it is (PageOK).  A page that was loaded begins   *)
(* with an exchange without a language, which is how an import tells the   *)
(* pages apart (BeginningOK).                                              *)
(*                                                                         *)
(* About the forms it says (FormsInv): the answers that succeeded since    *)
(* any exchange of the page brought exactly what the page has seen since,  *)
(* once and in order (WireOK); a form that was made is there, or a later   *)
(* message deleted it (Told); a command was on a form that was made before *)
(* (CommandOK).                                                            *)
(*                                                                         *)
(* About receipts it says (ReceiptInv): forms are stacked, and the messages*)
(* account for all but those of the start (StackInv); as long as all was   *)
(* recorded on one page, the parsed answers are what the page has seen     *)
(* (AllSeen), and the count an OK brought stands, with the file uploaded   *)
(* last among the receipts, until a file is checked again (OKsAttach).     *)
(***************************************************************************)
EXTENDS BrowserCapture, SequenceTheorems, FiniteSetTheorems, WellFoundedInduction, TLAPS

-----------------------------------------------------------------------------
(* Numbers and sequences.                                                  *)

(* Induction over the natural numbers, for a set.                          *)
LEMMA SetInduction ==
  ASSUME NEW S, 0 \in S, \A n \in Nat : n \in S => n + 1 \in S
  PROVE  Nat \subseteq S
<1> DEFINE T == Nat \ S
           R == OpToRel(<, Nat)
<1>1. SUFFICES ASSUME T # {} PROVE FALSE
  OBVIOUS
<1>2. \E x \in T : \A y \in T : ~(<<y, x>> \in R)
  BY <1>1, NatLessThanWellFounded, WFMin
<1>3. \A x, y \in Nat : y < x => <<y, x>> \in R
  BY DEF OpToRel
<1> HIDE DEF R
<1>4. PICK x \in T : \A y \in T : ~(<<y, x>> \in R)
  BY <1>2
<1>5. \A y \in T : ~(y < x)
  BY <1>3, <1>4
<1>6. x # 0 /\ x - 1 \in Nat
  BY <1>4
<1>7. x - 1 \notin T
  BY <1>5, <1>6
<1> QED
  BY <1>4, <1>6, <1>7

(* Numbers that have a bound have a greatest.                              *)
LEMMA BoundedHasMax ==
  ASSUME NEW s \in SUBSET Nat, NEW b \in Nat, s # {}, \A x \in s : x <= b
  PROVE  /\ Max(s) \in s /\ \A x \in s : x <= Max(s)
         /\ \A k \in s : (\A x \in s : x <= k) => k = Max(s)
<1>1. \E x \in s : \A y \in s : x >= y
  <2> DEFINE T == {k \in Nat : \A t \in SUBSET Nat :
                     (t # {} /\ \A y \in t : y <= k) => \E x \in t : \A y \in t : x >= y}
  <2>1. 0 \in T
    <3> SUFFICES ASSUME NEW t \in SUBSET Nat, t # {}, \A y \in t : y <= 0
                 PROVE  \E x \in t : \A y \in t : x >= y
      OBVIOUS
    <3>1. \A y \in t : y = 0
      OBVIOUS
    <3> QED
      BY <3>1
  <2>2. ASSUME NEW k \in Nat, k \in T PROVE k + 1 \in T
    <3> SUFFICES ASSUME NEW t \in SUBSET Nat, t # {}, \A y \in t : y <= k + 1
                 PROVE  \E x \in t : \A y \in t : x >= y
      OBVIOUS
    <3>1. CASE k + 1 \in t
      BY <3>1
    <3>2. CASE k + 1 \notin t
      <4>1. \A y \in t : y <= k
        BY <3>2
      <4> QED
        BY <2>2, <4>1
    <3> QED
      BY <3>1, <3>2
  <2> HIDE DEF T
  <2>3. b \in T
    BY <2>1, <2>2, SetInduction
  <2> QED
    BY <2>3 DEF T
<1>2. Max(s) = CHOOSE x \in s : \A y \in s : x >= y
  BY DEF Max
<1>3. Max(s) \in s /\ \A y \in s : Max(s) >= y
  BY <1>1, <1>2
<1>4. \A x \in s : x <= Max(s)
  BY <1>3
<1>5. ASSUME NEW k \in s, \A x \in s : x <= k PROVE k = Max(s)
  <2>1. k <= Max(s) /\ Max(s) <= k
    BY <1>3, <1>4, <1>5
  <2>2. k \in Nat /\ Max(s) \in Nat
    BY <1>3
  <2> QED
    BY <2>1, <2>2
<1> QED
  BY <1>3, <1>4, <1>5

(* Of sets of indices, a greatest and a least.                             *)
LEMMA LeastIndex ==
  ASSUME NEW n \in Nat, NEW s \in SUBSET (1 .. n), s # {}
  PROVE  Min(s) \in s /\ \A x \in s : Min(s) <= x
<1> DEFINE t == {n - x : x \in s}
<1>1. t \in SUBSET Nat /\ t # {} /\ \A y \in t : y <= n
  <2>1. \A x \in s : n - x \in Nat /\ n - x <= n
    <3> TAKE x \in s
    <3>1. x \in 1 .. n
      OBVIOUS
    <3> QED
      BY <3>1
  <2>2. t # {}
    OBVIOUS
  <2>3. \A y \in t : y \in Nat /\ y <= n
    BY <2>1
  <2> QED
    BY <2>2, <2>3
<1> HIDE DEF t
<1>2. Max(t) \in t /\ \A y \in t : y <= Max(t)
  BY <1>1, BoundedHasMax
<1>3. PICK x \in s : Max(t) = n - x
  BY <1>2 DEF t
<1>4. \A y \in s : x <= y
  <2> TAKE y \in s
  <2>1. n - y \in t
    BY DEF t
  <2>2. n - y <= n - x
    BY <1>2, <1>3, <2>1
  <2> QED
    BY <2>2
<1>5. Min(s) = CHOOSE z \in s : \A y \in s : z <= y
  BY DEF Min
<1> QED
  BY <1>4, <1>5

IsSeq(s) == \E S : s \in Seq(S)

LEMMA AppendIs ==
  ASSUME NEW s, IsSeq(s), NEW e
  PROVE  /\ IsSeq(Append(s, e)) /\ Len(s) \in Nat /\ Len(Append(s, e)) = Len(s) + 1
         /\ DOMAIN s = 1 .. Len(s) /\ DOMAIN Append(s, e) = 1 .. (Len(s) + 1)
         /\ \A i \in 1 .. Len(s) : Append(s, e)[i] = s[i]
         /\ Append(s, e)[Len(s) + 1] = e
<1>1. PICK S : s \in Seq(S)
  BY DEF IsSeq
<1>2. s \in Seq(S \cup {e}) /\ e \in S \cup {e}
  BY <1>1
<1>3. Append(s, e) \in Seq(S \cup {e})
  BY <1>2
<1>4. IsSeq(Append(s, e))
  BY <1>3 DEF IsSeq
<1> QED
  BY <1>2, <1>4

LEMMA EmptyIs == IsSeq(<<>>) /\ Len(<<>>) = 0 /\ DOMAIN <<>> = {}
<1>1. <<>> \in Seq({})
  OBVIOUS
<1> QED
  BY <1>1 DEF IsSeq

LEMMA RestIs ==
  ASSUME NEW s, IsSeq(s), NEW m \in 1 .. (Len(s) + 1)
  PROVE  /\ IsSeq(SubSeq(s, m, Len(s))) /\ Len(SubSeq(s, m, Len(s))) = Len(s) - m + 1
         /\ DOMAIN SubSeq(s, m, Len(s)) = 1 .. (Len(s) - m + 1)
         /\ \A i \in 1 .. (Len(s) - m + 1) : SubSeq(s, m, Len(s))[i] = s[m + i - 1]
<1>1. PICK S : s \in Seq(S)
  BY DEF IsSeq
<1>2. Len(s) \in (m - 1) .. Len(s) /\ Len(s) \in Nat
  BY <1>1
<1>3. /\ SubSeq(s, m, Len(s)) \in Seq(S)
      /\ Len(SubSeq(s, m, Len(s))) = Len(s) - m + 1
      /\ \A i \in 1 .. (Len(s) - m + 1) : SubSeq(s, m, Len(s))[i] = s[m + i - 1]
  BY <1>1, <1>2, SubSeqProperties
<1>4. IsSeq(SubSeq(s, m, Len(s)))
  BY <1>3 DEF IsSeq
<1> QED
  BY <1>2, <1>3, <1>4

LEMMA EqualIs ==
  ASSUME NEW s, NEW t, IsSeq(s), IsSeq(t), Len(s) = Len(t), \A i \in 1 .. Len(s) : s[i] = t[i]
  PROVE  s = t
<1>1. PICK S : s \in Seq(S)
  BY DEF IsSeq
<1>2. PICK T : t \in Seq(T)
  BY DEF IsSeq
<1>3. s \in Seq(S \cup T) /\ t \in Seq(S \cup T)
  BY <1>1, <1>2
<1> QED
  BY <1>3, SeqEqual

LEMMA ConcatIs ==
  ASSUME NEW s, NEW t, IsSeq(s), IsSeq(t)
  PROVE  /\ IsSeq(s \o t) /\ Len(s) \in Nat /\ Len(t) \in Nat
         /\ Len(s \o t) = Len(s) + Len(t)
         /\ \A i \in 1 .. (Len(s) + Len(t)) :
              (s \o t)[i] = IF i <= Len(s) THEN s[i] ELSE t[i - Len(s)]
<1>1. PICK S : s \in Seq(S)
  BY DEF IsSeq
<1>2. PICK T : t \in Seq(T)
  BY DEF IsSeq
<1>3. s \in Seq(S \cup T) /\ t \in Seq(S \cup T)
  BY <1>1, <1>2
<1>4. s \o t \in Seq(S \cup T)
  BY <1>3
<1>5. IsSeq(s \o t)
  BY <1>4 DEF IsSeq
<1> QED
  BY <1>3, <1>5, ConcatProperties

RestOf(exs, a) == SubSeq(exs, a, Len(exs))

LEMMA RestOfAppend ==
  ASSUME NEW s, IsSeq(s), NEW e, NEW a \in 1 .. (Len(s) + 1)
  PROVE  RestOf(Append(s, e), a) =
           IF a = Len(s) + 1 THEN Append(<<>>, e) ELSE Append(RestOf(s, a), e)
<1> DEFINE t == Append(s, e)
           n == Len(s)
<1>1. /\ IsSeq(t) /\ n \in Nat /\ Len(t) = n + 1
      /\ \A i \in 1 .. n : t[i] = s[i]
      /\ t[n + 1] = e
  BY AppendIs
<1> DEFINE r == RestOf(t, a)
<1>2. /\ IsSeq(r) /\ Len(r) = n + 1 - a + 1
      /\ \A i \in 1 .. (n + 1 - a + 1) : r[i] = t[a + i - 1]
  <2> HIDE DEF t
  <2>1. a \in 1 .. (Len(t) + 1)
    BY <1>1
  <2> QED
    BY <1>1, <2>1, RestIs DEF RestOf
<1>3. CASE a = n + 1
  <2> DEFINE u == Append(<<>>, e)
  <2>1. IsSeq(u) /\ Len(u) = 1 /\ u[1] = e
    <3> DEFINE z == <<>>
    <3>1. IsSeq(z) /\ Len(z) = 0
      BY EmptyIs
    <3> HIDE DEF z
    <3>2. /\ IsSeq(Append(z, e)) /\ Len(Append(z, e)) = Len(z) + 1
          /\ Append(z, e)[Len(z) + 1] = e
      BY <3>1, AppendIs
    <3>3. IsSeq(Append(z, e)) /\ Len(Append(z, e)) = 1 /\ Append(z, e)[1] = e
      BY <3>1, <3>2
    <3> QED
      BY <3>3 DEF z
  <2> HIDE DEF t, r, u, n
  <2>2. Len(r) = 1 /\ r[1] = e
    BY <1>1, <1>2, <1>3
  <2>3. r = u
    BY <1>2, <2>1, <2>2, EqualIs
  <2> QED
    BY <1>3, <2>3 DEF r, t, u, n
<1>4. CASE a # n + 1
  <2> DEFINE v == RestOf(s, a)
             u == Append(v, e)
  <2>1. IsSeq(v) /\ Len(v) = n - a + 1 /\ \A i \in 1 .. (n - a + 1) : v[i] = s[a + i - 1]
    <3>1. a \in 1 .. (Len(s) + 1)
      OBVIOUS
    <3> QED
      BY <3>1, RestIs DEF RestOf
  <2> HIDE DEF v
  <2>2. /\ IsSeq(u) /\ Len(u) = n - a + 1 + 1
        /\ \A i \in 1 .. (n - a + 1) : u[i] = v[i]
        /\ u[n - a + 1 + 1] = e
    <3>1. /\ IsSeq(u) /\ Len(u) = Len(v) + 1
          /\ \A i \in 1 .. Len(v) : u[i] = v[i]
          /\ u[Len(v) + 1] = e
      BY <2>1, AppendIs
    <3> HIDE DEF u, n
    <3> QED
      BY <2>1, <3>1
  <2> HIDE DEF t, r, u
  <2>3. a \in 1 .. n
    BY <1>1, <1>4
  <2> HIDE DEF n
  <2>4. ASSUME NEW i \in 1 .. (n + 1 - a + 1) PROVE r[i] = u[i]
    <3>1. r[i] = t[a + i - 1]
      BY <1>2
    <3>2. CASE i = n - a + 1 + 1
      <4>1. a + i - 1 = n + 1
        BY <1>1, <2>3, <3>2
      <4> QED
        BY <1>1, <2>2, <3>1, <3>2, <4>1
    <3>3. CASE i # n - a + 1 + 1
      <4>1. i \in 1 .. (n - a + 1) /\ a + i - 1 \in 1 .. n
        BY <1>1, <2>3, <3>3
      <4> QED
        BY <1>1, <2>1, <2>2, <3>1, <4>1
    <3> QED
      BY <3>2, <3>3
  <2>5. Len(r) = Len(u) /\ Len(r) = n + 1 - a + 1
    BY <1>1, <1>2, <2>2, <2>3
  <2>6. r = u
    BY <1>2, <2>2, <2>4, <2>5, EqualIs
  <2> QED
    BY <1>4, <2>6 DEF r, t, u, v, n
<1> QED
  BY <1>3, <1>4

\* The messages ms are those of s after the first a, up to the one at b.
Slice(ms, s, a, b) ==
  IsSeq(ms) /\ Len(ms) = b - a /\ \A i \in 1 .. (b - a) : ms[i] = s[a + i]

LEMMA SlicesJoin ==
  ASSUME NEW s, NEW l, NEW r, NEW a \in Nat, NEW b \in Nat, NEW c \in Nat, a <= b, b <= c,
         Slice(l, s, a, b), Slice(r, s, b, c)
  PROVE  Slice(l \o r, s, a, c)
<1>1. /\ IsSeq(l \o r) /\ Len(l \o r) = (b - a) + (c - b)
      /\ \A i \in 1 .. ((b - a) + (c - b)) :
           (l \o r)[i] = IF i <= b - a THEN l[i] ELSE r[i - (b - a)]
  <2>1. IsSeq(l) /\ IsSeq(r) /\ Len(l) = b - a /\ Len(r) = c - b
    BY DEF Slice
  <2> DEFINE t == l \o r
  <2>2. /\ IsSeq(t) /\ Len(t) = Len(l) + Len(r)
        /\ \A i \in 1 .. (Len(l) + Len(r)) : t[i] = IF i <= Len(l) THEN l[i] ELSE r[i - Len(l)]
    BY <2>1, ConcatIs
  <2> HIDE DEF t
  <2>3. /\ IsSeq(t) /\ Len(t) = (b - a) + (c - b)
        /\ \A i \in 1 .. ((b - a) + (c - b)) : t[i] = IF i <= b - a THEN l[i] ELSE r[i - (b - a)]
    BY <2>1, <2>2
  <2> QED
    BY <2>3 DEF t
<1>2. (b - a) + (c - b) = c - a
  OBVIOUS
<1> DEFINE t == l \o r
<1> HIDE DEF t
<1>3. ASSUME NEW i \in 1 .. (c - a) PROVE t[i] = s[a + i]
  <2>1. t[i] = IF i <= b - a THEN l[i] ELSE r[i - (b - a)]
    BY <1>1, <1>2 DEF t
  <2>2. CASE i <= b - a
    <3>1. i \in 1 .. (b - a)
      BY <2>2
    <3> QED
      BY <2>1, <2>2, <3>1 DEF Slice
  <2>3. CASE ~(i <= b - a)
    <3>1. i - (b - a) \in 1 .. (c - b) /\ b + (i - (b - a)) = a + i
      BY <2>3
    <3> QED
      BY <2>1, <2>3, <3>1 DEF Slice
  <2> QED
    BY <2>2, <2>3
<1> QED
  BY <1>1, <1>2, <1>3 DEF Slice, t

-----------------------------------------------------------------------------
(* Recursion over a sequence.                                              *)

\* Those of the first elements, of as many as the argument says.
UpTo(h, P, g) ==
  g = [n \in 0 .. Len(h) |->
         IF n = 0 THEN <<>>
         ELSE IF n \in P THEN Append(g[n - 1], h[n]) ELSE g[n - 1]]

LEMMA UpToExists == \A h, P : Len(h) \in Nat => \E g : UpTo(h, P, g)
<1> SUFFICES ASSUME NEW h, NEW P, Len(h) \in Nat PROVE \E g : UpTo(h, P, g)
  OBVIOUS
<1> DEFINE Is(k, g) == g = [n \in 0 .. k |->
             IF n = 0 THEN <<>>
             ELSE IF n \in P THEN Append(g[n - 1], h[n]) ELSE g[n - 1]]
           T == {k \in Nat : \E g : Is(k, g)}
<1>1. 0 \in T
  <2> DEFINE g == [n \in 0 .. 0 |-> <<>>]
  <2>1. Is(0, g)
    OBVIOUS
  <2> QED
    BY <2>1
<1>2. ASSUME NEW k \in Nat, k \in T PROVE k + 1 \in T
  <2>1. PICK f : Is(k, f)
    BY <1>2
  <2> DEFINE g == [n \in 0 .. (k + 1) |->
       IF n <= k THEN f[n] ELSE IF n \in P THEN Append(f[k], h[n]) ELSE f[k]]
  <2>2. ASSUME NEW n \in 0 .. (k + 1)
        PROVE  g[n] = IF n = 0 THEN <<>>
                      ELSE IF n \in P THEN Append(g[n - 1], h[n]) ELSE g[n - 1]
    <3>1. CASE n = k + 1
      <4>1. g[n - 1] = f[k] /\ n # 0
        BY <3>1
      <4>2. g[n] = IF n \in P THEN Append(f[k], h[n]) ELSE f[k]
        BY <3>1
      <4> HIDE DEF g
      <4> QED
        BY <4>1, <4>2
    <3>2. CASE n \in 1 .. k
      <4>1. g[n - 1] = f[n - 1] /\ g[n] = f[n] /\ n # 0
        BY <3>2
      <4>2. f[n] = IF n \in P THEN Append(f[n - 1], h[n]) ELSE f[n - 1]
        <5>1. n \in 0 .. k /\ n # 0
          BY <3>2
        <5> QED
          BY <2>1, <5>1
      <4> HIDE DEF g
      <4> QED
        BY <4>1, <4>2
    <3>3. CASE n = 0
      BY <2>1, <3>3
    <3> QED
      BY <3>1, <3>2, <3>3
  <2>3. g = [n \in 0 .. (k + 1) |-> g[n]]
    OBVIOUS
  <2> HIDE DEF g
  <2>4. Is(k + 1, g)
    BY <2>2, <2>3
  <2> HIDE DEF Is
  <2> QED
    BY <2>4
<1> HIDE DEF T
<1>3. Len(h) \in T
  BY <1>1, <1>2, SetInduction
<1> QED
  BY <1>3 DEF T, UpTo

LEMMA UpToIs ==
  ASSUME NEW h, NEW P, NEW g, NEW m \in Nat, m = Len(h), UpTo(h, P, g)
  PROVE  /\ g[0] = <<>>
         /\ \A i \in 0 .. m : i # 0 =>
              g[i] = IF i \in P THEN Append(g[i - 1], h[i]) ELSE g[i - 1]
<1>1. g = [n \in 0 .. m |-> IF n = 0 THEN <<>>
                           ELSE IF n \in P THEN Append(g[n - 1], h[n]) ELSE g[n - 1]]
  BY DEF UpTo
<1>2. 0 \in 0 .. m
  OBVIOUS
<1>3. g[0] = <<>>
  BY <1>1, <1>2
<1>4. ASSUME NEW i \in 0 .. m, i # 0
      PROVE  g[i] = IF i \in P THEN Append(g[i - 1], h[i]) ELSE g[i - 1]
  BY <1>1, <1>4
<1> QED
  BY <1>3, <1>4

LEMMA ThoseUpTo ==
  ASSUME NEW h, IsSeq(h), NEW P
  PROVE  \E g : UpTo(h, P, g) /\ Those(h, P) = g[Len(h)]
<1>1. Len(h) \in Nat
  BY DEF IsSeq
<1>2. \E g : UpTo(h, P, g)
  BY <1>1, UpToExists
<1>3. Those(h, P) = (CHOOSE g : UpTo(h, P, g))[Len(h)]
  BY DEF Those, UpTo
<1> QED
  BY <1>2, <1>3

LEMMA ThoseOfEmpty == \A P : Those(<<>>, P) = <<>>
<1> TAKE P
<1>1. IsSeq(<<>>) /\ Len(<<>>) = 0
  BY EmptyIs
<1>2. PICK g : UpTo(<<>>, P, g) /\ Those(<<>>, P) = g[0]
  BY <1>1, ThoseUpTo
<1> QED
  BY <1>1, <1>2 DEF UpTo

LEMMA ThoseOfAppend ==
  ASSUME NEW h, IsSeq(h), NEW e, NEW P, NEW Q, \A i \in 1 .. Len(h) : i \in P <=> i \in Q
  PROVE  Those(Append(h, e), Q) = IF Len(h) + 1 \in Q THEN Append(Those(h, P), e)
                                  ELSE Those(h, P)
<1> DEFINE d == Append(h, e)
           m == Len(h)
<1>1. /\ IsSeq(d) /\ m \in Nat /\ Len(d) = m + 1
      /\ \A i \in 1 .. m : d[i] = h[i]
      /\ d[m + 1] = e
  BY AppendIs
<1> HIDE DEF d
<1>2. PICK f : UpTo(h, P, f) /\ Those(h, P) = f[m]
  BY ThoseUpTo
<1>3. PICK g : UpTo(d, Q, g) /\ Those(d, Q) = g[m + 1]
  BY <1>1, ThoseUpTo
<1>4. /\ f[0] = <<>>
      /\ \A i \in 0 .. m : i # 0 =>
           f[i] = IF i \in P THEN Append(f[i - 1], h[i]) ELSE f[i - 1]
  BY <1>1, <1>2, UpToIs
<1>5. /\ g[0] = <<>>
      /\ \A i \in 0 .. (m + 1) : i # 0 =>
           g[i] = IF i \in Q THEN Append(g[i - 1], d[i]) ELSE g[i - 1]
  <2>1. m + 1 \in Nat /\ m + 1 = Len(d)
    BY <1>1
  <2> QED
    BY <1>3, <2>1, UpToIs
<1>6. \A i \in 1 .. m : i \in P <=> i \in Q
  OBVIOUS
<1> HIDE DEF m
<1> DEFINE T == {n \in Nat : n <= m => f[n] = g[n]}
<1>7. 0 \in T
  BY <1>4, <1>5
<1>8. ASSUME NEW n \in Nat, n \in T PROVE n + 1 \in T
  <2> SUFFICES ASSUME n + 1 <= m PROVE f[n + 1] = g[n + 1]
    OBVIOUS
  <2>1. f[n] = g[n]
    BY <1>1, <1>8
  <2>2. /\ n + 1 \in 0 .. m /\ n + 1 \in 0 .. (m + 1) /\ n + 1 # 0 /\ (n + 1) - 1 = n
        /\ n + 1 \in 1 .. m
    BY <1>1
  <2>3. d[n + 1] = h[n + 1] /\ (n + 1 \in P <=> n + 1 \in Q)
    BY <1>1, <1>6, <2>2
  <2>4. f[n + 1] = IF n + 1 \in P THEN Append(f[n], h[n + 1]) ELSE f[n]
    BY <1>4, <2>2
  <2>5. g[n + 1] = IF n + 1 \in Q THEN Append(g[n], d[n + 1]) ELSE g[n]
    BY <1>5, <2>2
  <2> QED
    BY <2>1, <2>3, <2>4, <2>5
<1> HIDE DEF T
<1>9. m \in T
  BY <1>1, <1>7, <1>8, SetInduction
<1>10. f[m] = g[m]
  BY <1>1, <1>9 DEF T
<1>11. m + 1 \in 0 .. (m + 1) /\ m + 1 # 0 /\ (m + 1) - 1 = m
  BY <1>1
<1>12. g[m + 1] = IF m + 1 \in Q THEN Append(g[m], d[m + 1]) ELSE g[m]
  BY <1>5, <1>11
<1>13. Those(d, Q) = IF m + 1 \in Q THEN Append(Those(h, P), e) ELSE Those(h, P)
  <2>1. d[m + 1] = e
    BY <1>1
  <2>2. g[m + 1] = IF m + 1 \in Q THEN Append(f[m], e) ELSE f[m]
    BY <1>10, <1>12, <2>1
  <2> QED
    BY <1>2, <1>3, <2>2
<1> QED
  BY <1>13 DEF d, m

(* Those elements are a sequence, of elements.                             *)
LEMMA ThoseIs ==
  ASSUME NEW h, IsSeq(h), NEW P
  PROVE  /\ IsSeq(Those(h, P))
         /\ \A k \in DOMAIN Those(h, P) : \E i \in 1 .. Len(h) : i \in P /\ Those(h, P)[k] = h[i]
<1> DEFINE m == Len(h)
<1>1. m \in Nat
  BY DEF IsSeq
<1>2. PICK f : UpTo(h, P, f) /\ Those(h, P) = f[m]
  BY ThoseUpTo
<1>3. /\ f[0] = <<>>
      /\ \A i \in 0 .. m : i # 0 =>
           f[i] = IF i \in P THEN Append(f[i - 1], h[i]) ELSE f[i - 1]
  BY <1>1, <1>2, UpToIs
<1> HIDE DEF m
<1> DEFINE Is(s) == IsSeq(s) /\ \A k \in DOMAIN s : \E i \in 1 .. m : i \in P /\ s[k] = h[i]
           T == {n \in Nat : n <= m => Is(f[n])}
<1>4. 0 \in T
  BY <1>3, EmptyIs
<1>5. ASSUME NEW n \in Nat, n \in T PROVE n + 1 \in T
  <2> SUFFICES ASSUME n + 1 <= m PROVE Is(f[n + 1])
    OBVIOUS
  <2>1. Is(f[n])
    BY <1>1, <1>5
  <2>2. n + 1 \in 0 .. m /\ n + 1 # 0 /\ (n + 1) - 1 = n /\ n + 1 \in 1 .. m
    BY <1>1
  <2>3. f[n + 1] = IF n + 1 \in P THEN Append(f[n], h[n + 1]) ELSE f[n]
    BY <1>3, <2>2
  <2>4. CASE n + 1 \notin P
    BY <2>1, <2>3, <2>4
  <2>5. CASE n + 1 \in P
    <3> DEFINE s == f[n]
               t == Append(s, h[n + 1])
    <3>1. /\ IsSeq(t) /\ Len(s) \in Nat /\ DOMAIN s = 1 .. Len(s)
          /\ DOMAIN t = 1 .. (Len(s) + 1)
          /\ \A i \in 1 .. Len(s) : t[i] = s[i]
          /\ t[Len(s) + 1] = h[n + 1]
      BY <2>1, AppendIs
    <3> HIDE DEF t
    <3>2. ASSUME NEW k \in DOMAIN t PROVE \E i \in 1 .. m : i \in P /\ t[k] = h[i]
      <4>1. CASE k = Len(s) + 1
        BY <2>2, <2>5, <3>1, <4>1
      <4>2. CASE k # Len(s) + 1
        <5>1. k \in DOMAIN s /\ t[k] = s[k]
          BY <3>1, <4>2
        <5> QED
          BY <2>1, <5>1
      <4> QED
        BY <4>1, <4>2
    <3>3. f[n + 1] = t
      BY <2>3, <2>5 DEF t
    <3> QED
      BY <3>1, <3>2, <3>3
  <2> QED
    BY <2>4, <2>5
<1> HIDE DEF T
<1>6. m \in T
  BY <1>1, <1>4, <1>5, SetInduction
<1>7. Is(f[m])
  BY <1>1, <1>6 DEF T
<1> QED
  BY <1>2, <1>7 DEF m

\* The first elements of a sequence of sequences in one.
FlatTo(F, f) ==
  f = [i \in 1 .. Len(F) |-> IF i = 1 THEN F[i] ELSE f[i - 1] \o F[i]]

LEMMA FlatToExists == \A F : Len(F) \in Nat => \E f : FlatTo(F, f)
<1> SUFFICES ASSUME NEW F, Len(F) \in Nat PROVE \E f : FlatTo(F, f)
  OBVIOUS
<1> DEFINE Is(k, f) == f = [i \in 1 .. k |-> IF i = 1 THEN F[i] ELSE f[i - 1] \o F[i]]
           T == {k \in Nat : \E f : Is(k, f)}
<1>1. 0 \in T
  <2> DEFINE f == [i \in 1 .. 0 |-> F[i]]
  <2>1. Is(0, f)
    OBVIOUS
  <2> QED
    BY <2>1
<1>2. ASSUME NEW k \in Nat, k \in T PROVE k + 1 \in T
  <2>1. PICK f : Is(k, f)
    BY <1>2
  <2> DEFINE g == [i \in 1 .. (k + 1) |->
                     IF i <= k THEN f[i] ELSE IF i = 1 THEN F[i] ELSE f[k] \o F[i]]
  <2>2. ASSUME NEW i \in 1 .. (k + 1)
        PROVE  g[i] = IF i = 1 THEN F[i] ELSE g[i - 1] \o F[i]
    <3>1. CASE i = 1
      <4>1. k = 0 \/ 1 \in 1 .. k
        OBVIOUS
      <4>2. 1 \in 1 .. k => f[1] = F[1]
        BY <2>1
      <4> QED
        BY <3>1, <4>1, <4>2
    <3>2. CASE i # 1 /\ i = k + 1
      <4>1. g[i - 1] = f[k]
        BY <3>2
      <4>2. g[i] = f[k] \o F[i]
        <5>1. ~(i <= k)
          BY <3>2
        <5> QED
          BY <3>2, <5>1
      <4> HIDE DEF g
      <4> QED
        BY <3>2, <4>1, <4>2
    <3>3. CASE i # 1 /\ i \in 1 .. k
      <4>1. g[i - 1] = f[i - 1] /\ g[i] = f[i]
        BY <3>3
      <4>2. f[i] = f[i - 1] \o F[i]
        BY <2>1, <3>3
      <4> HIDE DEF g
      <4> QED
        BY <3>3, <4>1, <4>2
    <3> QED
      BY <3>1, <3>2, <3>3
  <2>3. g = [i \in 1 .. (k + 1) |-> g[i]]
    OBVIOUS
  <2> HIDE DEF g
  <2>4. Is(k + 1, g)
    BY <2>2, <2>3
  <2> HIDE DEF Is
  <2> QED
    BY <2>4
<1> HIDE DEF T
<1>3. Len(F) \in T
  BY <1>1, <1>2, SetInduction
<1> QED
  BY <1>3 DEF T, FlatTo

LEMMA SeqIntro == \A n \in Nat : \A f : f = [i \in 1 .. n |-> f[i]] => IsSeq(f) /\ Len(f) = n
<1> SUFFICES ASSUME NEW n \in Nat, NEW f, f = [i \in 1 .. n |-> f[i]]
             PROVE  IsSeq(f) /\ Len(f) = n
  OBVIOUS
<1> DEFINE S == {f[i] : i \in 1 .. n}
<1>1. f \in [1 .. n -> S]
  OBVIOUS
<1> HIDE DEF S
<1>2. f \in Seq(S) /\ Len(f) = n
  BY <1>1
<1> QED
  BY <1>2 DEF IsSeq

(* The messages of exchanges are those of the first, and so on.            *)
LEMMA MessagesFlat ==
  ASSUME NEW G, IsSeq(G), Len(G) # 0
  PROVE  \E f : /\ MessagesOf(G) = f[Len(G)]
                /\ f[1] = G[1].messages
                /\ \A i \in 2 .. Len(G) : f[i] = f[i - 1] \o G[i].messages
<1> DEFINE F == [i \in DOMAIN G |-> G[i].messages]
           n == Len(G)
<1>1. n \in Nat /\ DOMAIN G = 1 .. n
  BY DEF IsSeq
<1>2. Len(F) = n
  <2>1. F = [i \in 1 .. n |-> F[i]]
    BY <1>1
  <2> HIDE DEF F, n
  <2> QED
    BY <1>1, <2>1, SeqIntro
<1>3. \A i \in 1 .. n : F[i] = G[i].messages
  BY <1>1
<1>4. MessagesOf(G) = FlattenSeq(F)
  BY DEF MessagesOf
<1> HIDE DEF F, n
<1>5. n # 0
  BY DEF n
<1>6. FlattenSeq(F) = (CHOOSE f : FlatTo(F, f))[n]
  BY <1>2, <1>5 DEF FlattenSeq, FlatTo
<1>7. \E f : FlatTo(F, f)
  BY <1>1, <1>2, FlatToExists
<1>8. PICK f : FlatTo(F, f) /\ FlattenSeq(F) = f[n]
  BY <1>6, <1>7
<1>9. \A i \in 1 .. n : f[i] = IF i = 1 THEN F[i] ELSE f[i - 1] \o F[i]
  BY <1>2, <1>8 DEF FlatTo
<1>10. f[1] = G[1].messages
  BY <1>1, <1>3, <1>5, <1>9
<1>11. \A i \in 2 .. n : f[i] = f[i - 1] \o G[i].messages
  <2> TAKE i \in 2 .. n
  <2>1. i \in 1 .. n /\ i # 1
    BY <1>1
  <2> QED
    BY <1>3, <1>9, <2>1
<1> QED
  BY <1>4, <1>8, <1>10, <1>11 DEF n

LEMMA MessagesOfNone == MessagesOf(<<>>) = <<>>
<1> DEFINE F == [i \in DOMAIN <<>> |-> <<>>[i].messages]
<1>1. DOMAIN <<>> = {}
  BY EmptyIs
<1>2. F = [i \in 1 .. 0 |-> F[i]]
  BY <1>1
<1> HIDE DEF F
<1>3. IsSeq(F) /\ Len(F) = 0
  BY <1>2, SeqIntro
<1>4. F = <<>>
  BY <1>3, EmptyIs, EqualIs
<1>5. FlattenSeq(F) = F
  BY <1>3 DEF FlattenSeq
<1> QED
  BY <1>4, <1>5 DEF MessagesOf, F

LEMMA MessagesOfAppend ==
  ASSUME NEW G, IsSeq(G), NEW e, IsSeq(e.messages), \A i \in DOMAIN G : IsSeq(G[i].messages)
  PROVE  /\ IsSeq(MessagesOf(G))
         /\ MessagesOf(Append(G, e)) = MessagesOf(G) \o e.messages
<1> DEFINE H == Append(G, e)
           n == Len(G)
<1>1. /\ IsSeq(H) /\ n \in Nat /\ Len(H) = n + 1 /\ DOMAIN G = 1 .. n
      /\ \A i \in 1 .. n : H[i] = G[i]
      /\ H[n + 1] = e
  BY AppendIs
<1> HIDE DEF H
<1>2. PICK g : /\ MessagesOf(H) = g[n + 1]
               /\ g[1] = H[1].messages
               /\ \A i \in 2 .. (n + 1) : g[i] = g[i - 1] \o H[i].messages
  <2>1. Len(H) # 0 /\ IsSeq(H)
    BY <1>1
  <2>2. PICK g : /\ MessagesOf(H) = g[Len(H)]
                 /\ g[1] = H[1].messages
                 /\ \A i \in 2 .. Len(H) : g[i] = g[i - 1] \o H[i].messages
    BY <2>1, MessagesFlat
  <2>3. Len(H) = n + 1
    BY <1>1
  <2> QED
    BY <2>2, <2>3
<1>3. CASE n = 0
  <2>1. G = <<>>
    BY <1>3, EmptyIs, EqualIs
  <2>2. MessagesOf(G) = <<>> /\ IsSeq(MessagesOf(G))
    BY <2>1, MessagesOfNone, EmptyIs
  <2>3. MessagesOf(H) = e.messages
    BY <1>1, <1>2, <1>3
  <2>4. PICK S : e.messages \in Seq(S)
    BY DEF IsSeq
  <2>5. <<>> \o e.messages = e.messages
    BY <2>4, ConcatEmptySeq
  <2> QED
    BY <2>2, <2>3, <2>5 DEF H
<1>4. CASE n # 0
  <2>1. PICK f : /\ MessagesOf(G) = f[n]
                 /\ f[1] = G[1].messages
                 /\ \A i \in 2 .. n : f[i] = f[i - 1] \o G[i].messages
    BY <1>4, MessagesFlat
  <2> HIDE DEF n
  <2> DEFINE T == {k \in Nat : k + 1 <= n => f[k + 1] = g[k + 1] /\ IsSeq(f[k + 1])}
  <2>2. 0 \in T
    <3>1. 1 \in 1 .. n /\ 0 + 1 = 1
      BY <1>1, <1>4
    <3>2. f[1] = g[1] /\ IsSeq(f[1])
      BY <1>1, <1>2, <2>1, <3>1
    <3> QED
      BY <3>2
  <2>3. ASSUME NEW k \in Nat, k \in T PROVE k + 1 \in T
    <3> SUFFICES ASSUME (k + 1) + 1 <= n
                 PROVE  f[(k + 1) + 1] = g[(k + 1) + 1] /\ IsSeq(f[(k + 1) + 1])
      OBVIOUS
    <3>1. f[k + 1] = g[k + 1] /\ IsSeq(f[k + 1])
      BY <1>1, <2>3
    <3> DEFINE i == (k + 1) + 1
    <3>2. i \in 2 .. n /\ i \in 2 .. (n + 1) /\ i \in 1 .. n /\ i - 1 = k + 1
      BY <1>1
    <3> HIDE DEF i
    <3>3. f[i] = f[k + 1] \o G[i].messages /\ g[i] = g[k + 1] \o H[i].messages
      BY <1>2, <2>1, <3>2
    <3>4. H[i] = G[i] /\ IsSeq(G[i].messages)
      BY <1>1, <3>2
    <3>5. IsSeq(f[k + 1] \o G[i].messages)
      BY <3>1, <3>4, ConcatIs
    <3> QED
      BY <3>1, <3>3, <3>4, <3>5 DEF i
  <2> HIDE DEF T
  <2>4. n - 1 \in T
    <3>1. n - 1 \in Nat
      BY <1>1, <1>4
    <3> QED
      BY <2>2, <2>3, <3>1, SetInduction
  <2>5. f[n] = g[n] /\ IsSeq(f[n])
    <3>1. n - 1 \in Nat /\ (n - 1) + 1 = n
      BY <1>1, <1>4
    <3> QED
      BY <2>4, <3>1 DEF T
  <2>6. g[n + 1] = g[n] \o H[n + 1].messages
    <3>1. n + 1 \in 2 .. (n + 1) /\ (n + 1) - 1 = n
      BY <1>1, <1>4
    <3> QED
      BY <1>2, <3>1
  <2> QED
    BY <1>1, <1>2, <2>1, <2>5, <2>6 DEF H
<1> QED
  BY <1>3, <1>4

-----------------------------------------------------------------------------
(* Exchanges, and those of them that succeeded.                            *)

LEMMA ExchangesOfEmpty == Exchanges(<<>>) = <<>>
  BY ThoseOfEmpty DEF Exchanges

LEMMA ExchangesOfAppend ==
  ASSUME NEW h, IsSeq(h), NEW e
  PROVE  Exchanges(Append(h, e)) = IF IsExchange(e) THEN Append(Exchanges(h), e)
                                   ELSE Exchanges(h)
<1> DEFINE d == Append(h, e)
           P == {i \in DOMAIN h : IsExchange(h[i])}
           Q == {i \in DOMAIN d : IsExchange(d[i])}
<1>1. /\ Len(h) \in Nat /\ DOMAIN h = 1 .. Len(h) /\ DOMAIN d = 1 .. (Len(h) + 1)
      /\ \A i \in 1 .. Len(h) : d[i] = h[i]
      /\ d[Len(h) + 1] = e
  BY AppendIs
<1> HIDE DEF d
<1>2. /\ \A i \in 1 .. Len(h) : i \in P <=> i \in Q
      /\ Len(h) + 1 \in Q <=> IsExchange(e)
  BY <1>1
<1> HIDE DEF P, Q
<1>3. Those(d, Q) = IF Len(h) + 1 \in Q THEN Append(Those(h, P), e) ELSE Those(h, P)
  BY <1>2, ThoseOfAppend DEF d
<1>4. Exchanges(d) = Those(d, Q) /\ Exchanges(h) = Those(h, P)
  BY DEF Exchanges, P, Q
<1> QED
  BY <1>2, <1>3, <1>4 DEF d

LEMMA SucceededOfAppend ==
  ASSUME NEW h, IsSeq(h), NEW e
  PROVE  SucceededOf(Append(h, e)) = IF Succeeded(e) THEN Append(SucceededOf(h), e)
                                     ELSE SucceededOf(h)
<1> DEFINE d == Append(h, e)
           P == {i \in DOMAIN h : Succeeded(h[i])}
           Q == {i \in DOMAIN d : Succeeded(d[i])}
<1>1. /\ Len(h) \in Nat /\ DOMAIN h = 1 .. Len(h) /\ DOMAIN d = 1 .. (Len(h) + 1)
      /\ \A i \in 1 .. Len(h) : d[i] = h[i]
      /\ d[Len(h) + 1] = e
  BY AppendIs
<1> HIDE DEF d
<1>2. /\ \A i \in 1 .. Len(h) : i \in P <=> i \in Q
      /\ Len(h) + 1 \in Q <=> Succeeded(e)
  BY <1>1
<1> HIDE DEF P, Q
<1>3. Those(d, Q) = IF Len(h) + 1 \in Q THEN Append(Those(h, P), e) ELSE Those(h, P)
  BY <1>2, ThoseOfAppend DEF d
<1>4. SucceededOf(d) = Those(d, Q) /\ SucceededOf(h) = Those(h, P)
  BY DEF SucceededOf, P, Q
<1> QED
  BY <1>2, <1>3, <1>4 DEF d

LEMMA SucceededOfNone == SucceededOf(<<>>) = <<>>
  BY ThoseOfEmpty DEF SucceededOf

(* The messages of the successful ones.                                    *)
LEMMA WireOfAppend ==
  ASSUME NEW G, IsSeq(G), NEW e, IsSeq(e.messages), \A i \in DOMAIN G : IsSeq(G[i].messages)
  PROVE  /\ IsSeq(MessagesOf(SucceededOf(G)))
         /\ MessagesOf(SucceededOf(Append(G, e))) =
              IF Succeeded(e) THEN MessagesOf(SucceededOf(G)) \o e.messages
              ELSE MessagesOf(SucceededOf(G))
<1> DEFINE H == SucceededOf(G)
<1>1. DOMAIN G = 1 .. Len(G)
  BY DEF IsSeq
<1>2. IsSeq(H) /\ \A i \in DOMAIN H : IsSeq(H[i].messages)
  <2>1. /\ IsSeq(H)
        /\ \A k \in DOMAIN H : \E i \in 1 .. Len(G) : H[k] = G[i]
    <3> DEFINE P == {i \in DOMAIN G : Succeeded(G[i])}
    <3>1. H = Those(G, P)
      BY DEF SucceededOf
    <3> HIDE DEF P, H
    <3>2. /\ IsSeq(Those(G, P))
          /\ \A k \in DOMAIN Those(G, P) : \E i \in 1 .. Len(G) : i \in P /\ Those(G, P)[k] = G[i]
      BY ThoseIs
    <3> QED
      BY <3>1, <3>2
  <2> HIDE DEF H
  <2> QED
    BY <1>1, <2>1
<1>3. SucceededOf(Append(G, e)) = IF Succeeded(e) THEN Append(H, e) ELSE H
  BY SucceededOfAppend
<1> HIDE DEF H
<1>4. IsSeq(MessagesOf(H)) /\ MessagesOf(Append(H, e)) = MessagesOf(H) \o e.messages
  BY <1>2, MessagesOfAppend
<1> QED
  BY <1>3, <1>4 DEF H

-----------------------------------------------------------------------------
(* What Dynamics answers.                                                  *)

AnyReport == AllReports \cup {NoReport}
Kinds == {"none", "workspace", "new", "details", "dialog"}
Names == {"", "Load", "New", "Leave", "Create", "Add", "Save", "Submit", "Cancel", "Open",
          "CheckFile", "CloseUpload", "OK"}
FormSet == [id : Nat, kind : Kinds, report : AnyReport]
CommandSet == [name : Names, root : FormSet \cup {None}, file : Nat, report : AnyReport]
PageSet == [where : Places, language : BOOLEAN, auth : Auths, next : Nat, pending : Nat,
            command : CommandSet, seen : Nat, first : Nat]
UploadSet == [stage : {"open", "checked", "uploaded", "closed"}, file : Nat]

\* A command on a form says which.
IsCommand(c) == c \in CommandSet /\ (c.name \notin {"", "Load"} => c.root \in FormSet)

FormsOK == /\ forms \subseteq FormSet /\ lastForm \in Nat
           /\ \A f \in forms : f.id <= lastForm

(* The form in front is a form.                                            *)
LEMMA TopIs ==
  ASSUME FormsOK
  PROVE  Top \in FormSet /\ (Top.kind # "none" => Top \in forms)
<1>1. CASE forms = {}
  <2>1. NoForms \in FormSet /\ NoForms.kind = "none"
    BY DEF NoForms, FormSet, Kinds, AnyReport
  <2> QED
    BY <1>1, <2>1 DEF Top
<1>2. CASE forms # {}
  <2> DEFINE ids == {f.id : f \in forms}
  <2>1. \A f \in forms : f.id \in Nat /\ f.id <= lastForm
    BY DEF FormsOK, FormSet
  <2>2. ids \in SUBSET Nat /\ ids # {} /\ lastForm \in Nat /\ \A x \in ids : x <= lastForm
    BY <1>2, <2>1 DEF FormsOK
  <2> HIDE DEF ids
  <2>3. Max(ids) \in ids /\ \A x \in ids : x <= Max(ids)
    BY <2>2, BoundedHasMax
  <2>4. PICK f \in forms : f.id = Max(ids)
    BY <2>3 DEF ids
  <2>5. \A g \in forms : g.id <= f.id
    BY <2>3, <2>4 DEF ids
  <2>6. Top = CHOOSE t \in forms : \A g \in forms : g.id <= t.id
    BY <1>2 DEF Top
  <2>7. Top \in forms
    BY <2>5, <2>6
  <2> QED
    BY <2>7 DEF FormsOK
<1> QED
  BY <1>1, <1>2

(* A message has the next number, and makes one form at most, a new one.   *)
LEMMA AnswerIs ==
  ASSUME NEW c, IsCommand(c)
  PROVE  /\ Answer(c).n = Len(sent) + 1
         /\ \/ Answer(c).made = {}
            \/ \E kind \in Kinds, report \in AnyReport :
                 Answer(c).made = {Form(lastForm + 1, kind, report)}
<1> DEFINE Is(a) == /\ a.n = Len(sent) + 1
                    /\ \/ a.made = {}
                       \/ \E kind \in Kinds, report \in AnyReport :
                            a.made = {Form(lastForm + 1, kind, report)}
<1>1. NoReport \in AnyReport /\ Created \in AnyReport /\ c.report \in AnyReport
  BY DEF AnyReport, AllReports, IsCommand, CommandSet
<1>2. c.name \in Names
  BY DEF IsCommand, CommandSet
<1>3. {"workspace", "new", "details", "dialog"} \subseteq Kinds
  BY DEF Kinds
<1>4. CASE c.name = "Load"
  <2>1. Answer(c) = [Quiet EXCEPT !.made = {New("workspace", NoReport)}]
    BY <1>4 DEF Answer
  <2>2. /\ Answer(c).n = Len(sent) + 1
        /\ Answer(c).made = {Form(lastForm + 1, "workspace", NoReport)}
    BY <2>1 DEF Quiet, New
  <2> QED
    BY <1>1, <1>3, <2>2
<1>5. CASE c.name = "New"
  <2>1. Answer(c) = [Quiet EXCEPT !.made = {New("new", NoReport)}]
    BY <1>5 DEF Answer
  <2>2. /\ Answer(c).n = Len(sent) + 1
        /\ Answer(c).made = {Form(lastForm + 1, "new", NoReport)}
    BY <2>1 DEF Quiet, New
  <2> QED
    BY <1>1, <1>3, <2>2
<1>6. CASE c.name = "Create"
  <2>1. PICK statuses, counts :
          Answer(c) = [[Quiet EXCEPT !.made = {New("details", Created)}, !.statuses = statuses,
                                     !.counts = counts] EXCEPT !.deleted = {c.root}]
    BY <1>6 DEF Answer
  <2>2. /\ Answer(c).n = Len(sent) + 1
        /\ Answer(c).made = {Form(lastForm + 1, "details", Created)}
    BY <2>1 DEF Quiet, New
  <2> QED
    BY <1>1, <1>3, <2>2
<1>7. CASE c.name = "Open"
  <2>1. PICK statuses, counts :
          Answer(c) = [Quiet EXCEPT !.made = {New("details", c.report)}, !.statuses = statuses,
                                    !.counts = counts]
    BY <1>7 DEF Answer
  <2>2. /\ Answer(c).n = Len(sent) + 1
        /\ Answer(c).made = {Form(lastForm + 1, "details", c.report)}
    BY <2>1 DEF Quiet, New
  <2> QED
    BY <1>1, <1>3, <2>2
<1>8. CASE c.name = "Add"
  <2>1. Answer(c) = [Quiet EXCEPT !.made = {New("dialog", c.root.report)}, !.shown = {c.root}]
    BY <1>8 DEF Answer
  <2>2. /\ Answer(c).n = Len(sent) + 1
        /\ Answer(c).made = {Form(lastForm + 1, "dialog", c.root.report)}
    BY <2>1 DEF Quiet, New
  <2>3. c.root.report \in AnyReport
    BY <1>8 DEF IsCommand, FormSet
  <2> QED
    BY <1>3, <2>2, <2>3
<1>9. CASE c.name = "OK"
  <2>1. PICK shown, statuses, counts :
          Answer(c) = [Quiet EXCEPT !.deleted = {c.root}, !.shown = shown,
                                    !.statuses = statuses, !.counts = counts]
    BY <1>9 DEF Answer
  <2> QED
    BY <2>1 DEF Quiet
<1>10. CASE c.name = "Save"
  <2>1. PICK shown : Answer(c) = [Quiet EXCEPT !.deleted = {c.root}, !.shown = shown,
                                               !.listed = AllReports]
    BY <1>10 DEF Answer
  <2> QED
    BY <2>1 DEF Quiet
<1>11. CASE c.name \in {"Cancel", "Leave"}
  <2>1. Answer(c) = [Quiet EXCEPT !.deleted = {c.root}]
    BY <1>11 DEF Answer
  <2> QED
    BY <2>1 DEF Quiet
<1>12. CASE c.name \in {"", "Submit", "CheckFile", "CloseUpload"}
  <2>1. Answer(c) = Quiet
    BY <1>12 DEF Answer
  <2> QED
    BY <2>1 DEF Quiet
<1> QED
  BY <1>2, <1>4, <1>5, <1>6, <1>7, <1>8, <1>9, <1>10, <1>11, <1>12 DEF Names

(* What handling a command changes keeps its shape.                        *)
LEMMA HandleIs ==
  ASSUME NEW c, IsCommand(c), Handle(c), FormsOK, upload \in UploadSet
  PROVE  /\ FormsOK' /\ upload' \in UploadSet
         /\ \E a : sent' = Append(sent, a) /\ a.n = Len(sent) + 1
<1> DEFINE a == Answer(c)
<1>1. /\ a.n = Len(sent) + 1
      /\ \/ a.made = {}
         \/ \E kind \in Kinds, report \in AnyReport :
              a.made = {Form(lastForm + 1, kind, report)}
  BY AnswerIs
<1>2. /\ forms' = (forms \ a.deleted) \cup a.made
      /\ lastForm' = lastForm + Cardinality(a.made)
      /\ sent' = Append(sent, a)
  BY DEF Handle
<1>3. upload' \in UploadSet
  <2>1. \/ upload' = [stage |-> "open", file |-> upload.file]
        \/ upload' = [upload EXCEPT !.stage = "checked"]
        \/ upload' = [upload EXCEPT !.stage = "closed"]
        \/ upload' = upload
    BY DEF Handle
  <2> QED
    BY <2>1 DEF UploadSet
<1> HIDE DEF a
<1>4. CASE a.made = {}
  <2>1. Cardinality(a.made) = 0
    BY <1>4, FS_EmptySet
  <2>2. forms' \subseteq forms /\ lastForm' = lastForm
    BY <1>2, <1>4, <2>1 DEF FormsOK
  <2>3. FormsOK'
    BY <2>2 DEF FormsOK
  <2> QED
    BY <1>1, <1>2, <1>3, <2>3
<1>5. ASSUME NEW kind \in Kinds, NEW report \in AnyReport,
             a.made = {Form(lastForm + 1, kind, report)}
      PROVE  FormsOK'
  <2>1. Cardinality(a.made) = 1
    BY <1>5, FS_Singleton
  <2>2. lastForm' = lastForm + 1 /\ lastForm \in Nat
    BY <1>2, <2>1 DEF FormsOK
  <2>3. /\ Form(lastForm + 1, kind, report) \in FormSet
        /\ Form(lastForm + 1, kind, report).id = lastForm + 1
    BY <2>2 DEF Form, FormSet
  <2>4. ASSUME NEW f \in forms' PROVE f \in FormSet /\ f.id <= lastForm'
    <3>1. CASE f \in forms
      <4>1. f \in FormSet /\ f.id <= lastForm /\ f.id \in Nat
        BY <3>1 DEF FormsOK, FormSet
      <4> QED
        BY <2>2, <4>1
    <3>2. CASE f = Form(lastForm + 1, kind, report)
      BY <2>2, <2>3, <3>2
    <3> QED
      BY <1>2, <1>5, <2>4, <3>1, <3>2
  <2> QED
    BY <2>2, <2>4 DEF FormsOK
<1> QED
  BY <1>1, <1>2, <1>3, <1>4, <1>5

-----------------------------------------------------------------------------
(* The invariant.                                                          *)

StateOK ==
  /\ session \in Sessions /\ IsSeq(har) /\ IsSeq(sent) /\ FormsOK
  /\ page \in PageSet /\ IsCommand(page.command) /\ upload \in UploadSet
  /\ accepted \in Nat /\ faults \in Nat
  /\ Len(har) <= session.entries /\ faults <= session.faults

\* Nothing is numbered higher than there are entries for.
NumbersOK ==
  /\ \A i \in DOMAIN sent : sent[i].n = i
  /\ page.seen <= Len(sent) /\ Len(sent) <= Len(har)
  /\ accepted < page.next /\ page.pending \in {0, page.next - 1}
  /\ page.next <= Len(har) + 2
  /\ page.pending = 0 => accepted + 1 = page.next
  /\ page.first \in 1 .. (Len(har) + 1)

EntryOK(e, i) ==
  /\ e.type \in {"exchange", "upload"}
  /\ e.type = "exchange" =>
       /\ e.entry = i /\ e.where \in Places /\ e.auth \in Auths
       /\ ~Parsed(e) => e.messages = <<>>
EntriesOK == \A i \in DOMAIN har : EntryOK(har[i], i)

Recorded(ex, n) ==
  /\ ex.entry \in 1 .. n /\ ex.where \in Places
  /\ ex.sent \in 0 .. (n + 2) /\ ex.acked \in 0 .. (n + 2)
  /\ ex.ack \in 0 .. n /\ ServerNumbers(ex) \subseteq 0 .. n
\* The exchanges of the file are numbered in its order.
FileOK ==
  /\ IsSeq(Exchanges(har))
  /\ \A k \in DOMAIN Exchanges(har) : Recorded(Exchanges(har)[k], Len(har))
  /\ \A j, k \in DOMAIN Exchanges(har) : j < k => Exchanges(har)[j].entry < Exchanges(har)[k].entry

OnPage(ex, at) == ex.entry >= at.first
\* What an exchange of a page went with, the page has seen since.
Follows(ex, at, handled) ==
  /\ ex.where = at.where
  /\ ex.ack <= at.seen /\ \A n \in ServerNumbers(ex) : n <= at.seen
  /\ ex.sent < at.next /\ ex.acked <= handled
Brought(ex, at, handled) ==
  /\ at.seen \in {ex.ack} \cup ServerNumbers(ex)
  /\ at.pending = 0 => ex.acked = handled
PageOK ==
  \A k \in DOMAIN Exchanges(har) :
    OnPage(Exchanges(har)[k], page) =>
      /\ Follows(Exchanges(har)[k], page, accepted)
      /\ k = Len(Exchanges(har)) => Exchanges(har)[k].acked = accepted
      /\ (/\ Parsed(Exchanges(har)[k])
          /\ \A j \in DOMAIN Exchanges(har) : j > k => ~Parsed(Exchanges(har)[j]))
         => Brought(Exchanges(har)[k], page, accepted)
\* A page that was loaded begins with an exchange without a language.
BeginningOK ==
  page.first # 1 =>
    IF PageIsRecorded
    THEN \E k \in DOMAIN Exchanges(har) :
           Exchanges(har)[k].entry = page.first /\ Exchanges(har)[k].language = NoLanguage
    ELSE ~page.language /\ page.pending # 0

IInv == StateOK /\ NumbersOK /\ EntriesOK /\ FileOK /\ PageOK /\ BeginningOK

-----------------------------------------------------------------------------
(* Sessions.                                                               *)

LEMMA MaxIs ==
  ASSUME NEW b \in Nat, NEW s, b \in s, \A x \in s : x \in Nat /\ x <= b
  PROVE  Max(s) = b
<1>1. s \in SUBSET Nat /\ s # {} /\ \A x \in s : x <= b
  OBVIOUS
<1>2. \A k \in s : (\A x \in s : x <= k) => k = Max(s)
  BY <1>1, BoundedHasMax
<1> QED
  BY <1>1, <1>2

LEMMA LastAnswered ==
  ASSUME NEW G, IsSeq(G), HasSession(G)
  PROVE  Max(Answered(G)) \in DOMAIN G /\ Max(Answered(G)) \in Answered(G)
<1>1. DOMAIN G = 1 .. Len(G) /\ Len(G) \in Nat
  BY DEF IsSeq
<1>2. Answered(G) \in SUBSET Nat /\ Answered(G) # {} /\ \A i \in Answered(G) : i <= Len(G)
  BY <1>1 DEF HasSession, Answered
<1>3. Max(Answered(G)) \in Answered(G)
  BY <1>1, <1>2, BoundedHasMax
<1> QED
  BY <1>3 DEF Answered

(* What a session is made of, whatever page its exchanges are from.        *)
LEMMA SessionIs ==
  ASSUME NEW G, IsSeq(G), NEW n \in Nat, \A i \in DOMAIN G : Recorded(G[i], n), HasSession(G)
  PROVE  LET s == SessionOf(G) IN
           s.where \in Places /\ s.language # NoLanguage /\ s.next > 0 /\ s.last >= 0
<1> DEFINE m == Max(Answered(G))
<1>1. m \in DOMAIN G /\ m \in Answered(G)
  BY LastAnswered
<1>2. G[m].where \in Places
  BY <1>1 DEF Recorded
<1>3. G[m].language # NoLanguage
  BY DEF HasSession
<1>4. \A i \in Answered(G) : i \in DOMAIN G
  BY DEF Answered
<1>5. /\ ClientNumbers(G) \in SUBSET Nat /\ ClientNumbers(G) # {}
      /\ \A x \in ClientNumbers(G) : x <= n + 2
  <2>1. \A x \in ClientNumbers(G) : x \in 0 .. (n + 2)
    BY <1>4 DEF ClientNumbers, Recorded
  <2>2. G[m].sent \in ClientNumbers(G)
    BY <1>1 DEF ClientNumbers
  <2> QED
    BY <2>1, <2>2
<1>6. Max(ClientNumbers(G)) \in Nat
  <2>1. n + 2 \in Nat
    OBVIOUS
  <2>2. Max(ClientNumbers(G)) \in ClientNumbers(G)
    BY <1>5, <2>1, BoundedHasMax
  <2> QED
    BY <1>5, <2>2
<1>7. /\ ServerSeen(G) \in SUBSET Nat /\ ServerSeen(G) # {}
      /\ \A x \in ServerSeen(G) : x <= n
  <2>1. \A i \in Answered(G) : G[i].ack \in 0 .. n /\ ServerNumbers(G[i]) \subseteq 0 .. n
    BY <1>4 DEF Recorded
  <2>2. \A x \in ServerSeen(G) : x \in 0 .. n
    BY <2>1 DEF ServerSeen
  <2>3. G[m].ack \in ServerSeen(G)
    BY <1>1 DEF ServerSeen
  <2> QED
    BY <2>2, <2>3
<1>8. Max(ServerSeen(G)) \in Nat
  <2>1. Max(ServerSeen(G)) \in ServerSeen(G)
    BY <1>7, BoundedHasMax
  <2> QED
    BY <1>7, <2>1
<1>9. /\ SessionOf(G).where = G[m].where /\ SessionOf(G).language = G[m].language
      /\ SessionOf(G).next = Max(ClientNumbers(G)) + 1
      /\ SessionOf(G).last = Max(ServerSeen(G))
  BY DEF SessionOf
<1> HIDE DEF m
<1> QED
  BY <1>2, <1>3, <1>6, <1>8, <1>9

\* The exchanges of the file from one on.
IsRest(G, a) ==
  LET E == Exchanges(har) IN
  /\ a \in 1 .. Len(E)
  /\ IsSeq(G) /\ Len(G) = Len(E) - a + 1 /\ DOMAIN G = 1 .. (Len(E) - a + 1)
  /\ \A i \in 1 .. (Len(E) - a + 1) : G[i] = E[a + i - 1]

(* The session of exchanges of this page continues the page.               *)
LEMMA SessionFollows ==
  ASSUME StateOK, NumbersOK, FileOK, PageOK, NEW G, NEW a, IsRest(G, a), HasSession(G),
         \A k \in a .. Len(Exchanges(har)) : OnPage(Exchanges(har)[k], page)
  PROVE  LET s == SessionOf(G) IN
           /\ s.where = page.where /\ s.entries \subseteq page.first .. Len(har)
           /\ s.last = page.seen
           /\ s.next # accepted + 1 => page.pending # 0
           /\ Succeeded(Last(Exchanges(har))) => s.next > accepted
<1> DEFINE E == Exchanges(har)
           N == Len(E)
<1>1. DOMAIN E = 1 .. N /\ N \in Nat
  BY DEF FileOK, IsSeq
<1>2. /\ a \in 1 .. N /\ IsSeq(G) /\ Len(G) = N - a + 1 /\ DOMAIN G = 1 .. (N - a + 1)
      /\ \A i \in 1 .. (N - a + 1) : G[i] = E[a + i - 1]
  BY DEF IsRest
<1>3. \A k \in 1 .. N : k >= a =>
         /\ Recorded(E[k], Len(har)) /\ OnPage(E[k], page) /\ Follows(E[k], page, accepted)
         /\ k = N => E[k].acked = accepted
         /\ (Parsed(E[k]) /\ \A j \in 1 .. N : j > k => ~Parsed(E[j])) => Brought(E[k], page, accepted)
  <2> SUFFICES ASSUME NEW k \in 1 .. N, k >= a
               PROVE  /\ Recorded(E[k], Len(har)) /\ OnPage(E[k], page) /\ Follows(E[k], page, accepted)
                      /\ k = N => E[k].acked = accepted
                      /\ (Parsed(E[k]) /\ \A j \in 1 .. N : j > k => ~Parsed(E[j]))
                         => Brought(E[k], page, accepted)
    OBVIOUS
  <2>1. OnPage(E[k], page)
    BY <1>1, <1>2
  <2>2. Recorded(E[k], Len(har))
    BY <1>1 DEF FileOK
  <2> QED
    BY <1>1, <2>1, <2>2 DEF PageOK
<1>4. accepted \in Nat /\ page.seen \in Nat /\ page.next \in Nat /\ page.first \in Nat
  BY DEF StateOK, PageSet
<1>5. page.pending = 0 => page.next = accepted + 1
  BY DEF NumbersOK
<1>6. Len(har) \in Nat
  BY DEF StateOK, IsSeq
<1> HIDE DEF E
<1>7. \A i \in DOMAIN G : a + i - 1 \in 1 .. N /\ a + i - 1 >= a /\ G[i] = E[a + i - 1]
  BY <1>1, <1>2
<1> HIDE DEF N
<1>8. \A i \in DOMAIN G :
        /\ G[i].entry \in page.first .. Len(har) /\ G[i].where = page.where
        /\ G[i].ack \in 0 .. page.seen /\ ServerNumbers(G[i]) \subseteq 0 .. page.seen
        /\ G[i].sent \in Nat /\ G[i].sent < page.next /\ G[i].acked \in 0 .. accepted
  <2> TAKE i \in DOMAIN G
  <2> DEFINE ex == G[i]
  <2>1. Recorded(ex, Len(har)) /\ OnPage(ex, page) /\ Follows(ex, page, accepted)
    BY <1>3, <1>7
  <2> HIDE DEF ex
  <2>2. /\ ex.entry \in page.first .. Len(har) /\ ex.where = page.where
        /\ ex.sent \in Nat /\ ex.sent < page.next
    BY <1>4, <1>6, <2>1 DEF Recorded, OnPage, Follows
  <2>3. ex.ack \in 0 .. page.seen /\ ex.acked \in 0 .. accepted
    BY <1>4, <1>6, <2>1 DEF Recorded, Follows
  <2>4. ServerNumbers(ex) \subseteq 0 .. page.seen
    BY <1>4, <1>6, <2>1 DEF Recorded, Follows
  <2> QED
    BY <2>2, <2>3, <2>4 DEF ex
<1>9. Max(Answered(G)) \in DOMAIN G
  BY <1>2, LastAnswered
<1>10. SessionOf(G).where = page.where
  BY <1>8, <1>9 DEF SessionOf
<1>11. SessionOf(G).entries \subseteq page.first .. Len(har)
  <2>1. SessionOf(G).entries = {G[i].entry : i \in DOMAIN G}
    BY DEF SessionOf
  <2> QED
    BY <1>8, <2>1
\* The last answer that could be parsed.
<1>12. PICK p \in DOMAIN G : /\ p \in Answered(G) /\ Parsed(G[p]) /\ Brought(G[p], page, accepted)
  <2> DEFINE P == {i \in DOMAIN G : Parsed(G[i])}
  <2>1. P # {}
    BY DEF HasSession, Answered, Parsed, Unparsed
  <2>2. P \in SUBSET Nat /\ Len(G) \in Nat /\ \A i \in P : i <= Len(G)
    BY <1>1, <1>2
  <2>3. PICK p \in P : \A i \in P : i <= p
    <3> HIDE DEF P
    <3> QED
      BY <2>1, <2>2, BoundedHasMax
  <2>4. p \in DOMAIN G /\ Parsed(G[p])
    BY <2>3
  <2>5. p \in Answered(G)
    BY <2>4 DEF Answered, Parsed
  <2>6. ASSUME NEW j \in 1 .. N, j > a + p - 1 PROVE ~Parsed(E[j])
    <3>1. p \in Nat /\ a \in Nat /\ p >= 1
      BY <1>1, <1>2, <2>4
    <3>2. j - a + 1 \in DOMAIN G /\ a + (j - a + 1) - 1 = j /\ j - a + 1 > p
      BY <1>1, <1>2, <2>4, <2>6, <3>1
    <3>3. G[j - a + 1] = E[j]
      BY <1>7, <3>2
    <3>4. j - a + 1 \notin P
      BY <2>3, <3>1, <3>2
    <3> QED
      BY <3>2, <3>3, <3>4
  <2>7. Brought(E[a + p - 1], page, accepted)
    <3>1. a + p - 1 \in 1 .. N /\ a + p - 1 >= a /\ G[p] = E[a + p - 1]
      BY <1>7, <2>4
    <3> QED
      BY <1>3, <2>4, <2>6, <3>1
  <2> QED
    BY <1>7, <2>4, <2>5, <2>7
<1>13. SessionOf(G).last = page.seen
  <2>1. \A i \in Answered(G) : i \in DOMAIN G
    BY DEF Answered
  <2>2. \A x \in ServerSeen(G) : x \in 0 .. page.seen
    BY <1>8, <2>1 DEF ServerSeen
  <2>3. page.seen \in ServerSeen(G)
    BY <1>12 DEF ServerSeen, Brought
  <2>4. Max(ServerSeen(G)) = page.seen
    BY <1>4, <2>2, <2>3, MaxIs
  <2> QED
    BY <2>4 DEF SessionOf
<1>14. \A i \in Answered(G) : i \in DOMAIN G
  BY DEF Answered
<1>15. SessionOf(G).next # accepted + 1 => page.pending # 0
  <2> SUFFICES ASSUME page.pending = 0 PROVE SessionOf(G).next = accepted + 1
    OBVIOUS
  <2>1. \A i \in DOMAIN G : G[i].sent \in 0 .. accepted /\ G[i].acked \in 0 .. accepted
    BY <1>4, <1>5, <1>8
  <2>2. \A x \in ClientNumbers(G) : x \in 0 .. accepted
    BY <1>14, <2>1 DEF ClientNumbers
  <2>3. accepted \in ClientNumbers(G)
    BY <1>12 DEF ClientNumbers, Brought
  <2>4. Max(ClientNumbers(G)) = accepted
    <3>1. accepted \in Nat /\ \A x \in ClientNumbers(G) : x \in Nat /\ x <= accepted
      BY <1>4, <2>2
    <3> QED
      BY <2>3, <3>1, MaxIs
  <2> QED
    BY <2>4 DEF SessionOf
<1>16. ASSUME Succeeded(Last(E)) PROVE SessionOf(G).next > accepted
  <2>1. N \in 1 .. N /\ N >= a /\ Last(E) = E[N]
    BY <1>1, <1>2 DEF Last, N
  <2>2. E[N].acked = accepted
    BY <1>3, <2>1
  <2>3. Len(G) \in DOMAIN G /\ G[Len(G)] = E[N]
    BY <1>1, <1>2
  <2>4. accepted \in ClientNumbers(G)
    BY <1>16, <2>1, <2>2, <2>3 DEF ClientNumbers, Answered, Succeeded, Parsed
  <2>5. \A x \in ClientNumbers(G) : x \in Nat /\ x <= page.next + accepted
    BY <1>4, <1>8, <1>14 DEF ClientNumbers
  <2>6. ClientNumbers(G) \in SUBSET Nat /\ ClientNumbers(G) # {} /\ page.next + accepted \in Nat
    <3>1. page.next + accepted \in Nat
      BY <1>4
    <3>2. ClientNumbers(G) \in SUBSET Nat
      BY <2>5
    <3> QED
      BY <2>4, <3>1, <3>2
  <2>7. accepted <= Max(ClientNumbers(G)) /\ Max(ClientNumbers(G)) \in Nat
    <3>1. /\ Max(ClientNumbers(G)) \in ClientNumbers(G)
          /\ \A x \in ClientNumbers(G) : x <= Max(ClientNumbers(G))
      BY <2>5, <2>6, BoundedHasMax
    <3> QED
      BY <2>4, <2>6, <3>1
  <2>8. SessionOf(G).next = Max(ClientNumbers(G)) + 1
    BY DEF SessionOf
  <2> QED
    BY <1>4, <2>7, <2>8
<1> QED
  BY <1>10, <1>11, <1>13, <1>15, <1>16 DEF E

(* The latest group are the last exchanges, all of one key.                *)
LEMMA LatestGroupIs ==
  ASSUME FileOK, Exchanges(har) # <<>>
  PROVE  \E a \in 1 .. Len(Exchanges(har)) :
           /\ IsRest(LatestGroup(Exchanges(har)), a)
           /\ \A k \in a .. Len(Exchanges(har)) :
                BootstrapKey(Exchanges(har)[k]) = BootstrapKey(Last(Exchanges(har)))
<1> DEFINE E == Exchanges(har)
           N == Len(E)
           tails == {i \in DOMAIN E :
                       \A j \in i .. Len(E) : BootstrapKey(E[j]) = BootstrapKey(Last(E))}
<1>1. IsSeq(E) /\ DOMAIN E = 1 .. N /\ N \in Nat /\ N >= 1
  <2>1. PICK S : E \in Seq(S)
    BY DEF FileOK, IsSeq
  <2>2. E # <<>>
    OBVIOUS
  <2> HIDE DEF E
  <2>3. DOMAIN E = 1 .. N /\ N \in Nat
    BY <2>1
  <2>4. N # 0
    BY <2>1, <2>2
  <2> QED
    BY <2>1, <2>3, <2>4 DEF IsSeq
<1>2. LatestGroup(E) = SubSeq(E, Min(tails), N)
  BY DEF LatestGroup
<1> HIDE DEF E
<1>3. tails \in SUBSET (1 .. N) /\ N \in tails
  <2>1. \A j \in N .. N : j = N
    <3> HIDE DEF N
    <3> QED
      BY <1>1
  <2> QED
    BY <1>1, <2>1 DEF Last
<1>4. Min(tails) \in tails
  <2> HIDE DEF tails
  <2> QED
    BY <1>1, <1>3, LeastIndex
<1> DEFINE a == Min(tails)
<1>5. a \in 1 .. N /\ \A j \in a .. N : BootstrapKey(E[j]) = BootstrapKey(Last(E))
  BY <1>1, <1>4
<1> HIDE DEF a, N
<1>6. a \in 1 .. (N + 1)
  BY <1>1, <1>5
<1>7. /\ IsSeq(SubSeq(E, a, N)) /\ Len(SubSeq(E, a, N)) = N - a + 1
      /\ DOMAIN SubSeq(E, a, N) = 1 .. (N - a + 1)
      /\ \A i \in 1 .. (N - a + 1) : SubSeq(E, a, N)[i] = E[a + i - 1]
  BY <1>1, <1>6, RestIs DEF N
<1>8. LatestGroup(E) = SubSeq(E, a, N)
  BY <1>2 DEF a, N
<1>9. IsRest(LatestGroup(E), a)
  BY <1>5, <1>7, <1>8 DEF IsRest, E, N
<1> QED
  BY <1>5, <1>9 DEF E, N

(* What is accepted rests on the latest group, or on the whole file.       *)
LEMMA BootstrapIs ==
  ASSUME NEW s \in BootstrapSessions
  PROVE  LET E == Exchanges(har)
             G == LatestGroup(E)
             W == WithFormLoad(E, G)
         IN  /\ UsableGroup(E)
             /\ \/ s = SessionOf(G)
                \/ s = [SessionOf(G) EXCEPT !.entries = {W[i].entry : i \in DOMAIN W}]
<1> DEFINE E == Exchanges(har)
           G == LatestGroup(E)
           W == WithFormLoad(E, G)
<1>1. CASE s \in {p.session : p \in Bootstrap(har)}
  <2>1. PICK p \in Bootstrap(har) : s = p.session
    BY <1>1
  <2>2. UsableGroup(E)
    BY <2>1 DEF Bootstrap
  <2>3. PICK r, o : p = [session |-> SessionOf(G), root |-> r, observed |-> o]
    BY <2>1 DEF Bootstrap
  <2> QED
    BY <2>1, <2>2, <2>3
<1>2. CASE s \in UNION {{p.session : p \in BootstrapWith(har, f)} : f \in RenderedRoots}
  <2>0. PICK f \in RenderedRoots : \E p \in BootstrapWith(har, f) : s = p.session
    BY <1>2
  <2>1. PICK p \in BootstrapWith(har, f) : s = p.session
    BY <2>0
  <2>2. UsableGroup(E)
    BY <2>1 DEF BootstrapWith
  <2>3. PICK t : p = [session |-> [SessionOf(G) EXCEPT
                                     !.entries = {W[i].entry : i \in DOMAIN W}],
                      root |-> f, targets |-> t]
    BY <2>1 DEF BootstrapWith
  <2> QED
    BY <2>1, <2>2, <2>3
<1> QED
  BY <1>1, <1>2 DEF BootstrapSessions

LEMMA FlowIs ==
  ASSUME NEW s \in FlowSessions
  PROVE  LET E == Exchanges(har) IN
         E # <<>> /\ OneSession(E) /\ HasSession(E) /\ s = SessionOf(E)
<1> DEFINE E == Exchanges(har)
<1>1. CASE s \in {p.session : p \in DraftProfile(har)}
  <2>1. PICK p \in DraftProfile(har) : s = p.session
    BY <1>1
  <2>2. E # <<>> /\ OneSession(E) /\ HasSession(E)
    BY <2>1 DEF DraftProfile
  <2>3. PICK r : p = [session |-> SessionOf(E), root |-> r]
    BY <2>1 DEF DraftProfile
  <2> QED
    BY <2>1, <2>2, <2>3
<1>2. CASE s \in {p.session : p \in ReceiptProfile(har)}
  <2>1. PICK p \in ReceiptProfile(har) : s = p.session
    BY <1>2
  <2>2. E # <<>> /\ OneSession(E) /\ HasSession(E)
    BY <2>1 DEF ReceiptProfile
  <2>3. PICK current : p \in UploadedProfiles(har, E, current)
    BY <2>1 DEF ReceiptProfile
  <2>4. PICK dialog, up, file : p \in AttachedProfiles(E, current, dialog, up, file)
    BY <2>3 DEF UploadedProfiles
  <2>5. PICK after, ok : p \in SavedProfiles(E, current, after, ok)
    BY <2>4 DEF AttachedProfiles
  <2>6. PICK report : p = [root |-> current, report |-> report, count |-> after.count,
                           attachedTo |-> after.root, session |-> SessionOf(E)]
    BY <2>5 DEF SavedProfiles
  <2> QED
    BY <2>1, <2>2, <2>6
<1> QED
  BY <1>1, <1>2 DEF FlowSessions

(* Every session accepted is one that validateSessionProfile lets pass.    *)
LEMMA SessionsValid ==
  ASSUME StateOK, FileOK, NEW s \in BootstrapSessions \cup FlowSessions
  PROVE  s.where \in Places /\ s.language # NoLanguage /\ s.next > 0 /\ s.last >= 0
<1> DEFINE E == Exchanges(har)
           G == LatestGroup(E)
<1>1. IsSeq(E) /\ Len(har) \in Nat /\ \A k \in DOMAIN E : Recorded(E[k], Len(har))
  BY DEF StateOK, FileOK, IsSeq
<1>2. DOMAIN E = 1 .. Len(E) /\ Len(E) \in Nat
  BY <1>1 DEF IsSeq
<1>3. CASE s \in BootstrapSessions
  <2>1. UsableGroup(E)
    BY <1>3, BootstrapIs
  <2>2. PICK W : \/ s = SessionOf(G)
                 \/ s = [SessionOf(G) EXCEPT !.entries = {W[i].entry : i \in DOMAIN W}]
    BY <1>3, BootstrapIs
  <2>3. E # <<>> /\ HasSession(G)
    BY <2>1 DEF UsableGroup
  <2>4. PICK a : IsRest(G, a)
    BY <2>3, LatestGroupIs
  <2>5. IsSeq(G) /\ \A i \in DOMAIN G : Recorded(G[i], Len(har))
    <3> HIDE DEF G
    <3>1. \A i \in DOMAIN G : a + i - 1 \in 1 .. Len(E) /\ G[i] = E[a + i - 1]
      BY <1>2, <2>4 DEF IsRest
    <3>2. IsSeq(G)
      BY <2>4 DEF IsRest
    <3> HIDE DEF E
    <3> QED
      BY <1>1, <1>2, <3>1, <3>2
  <2> HIDE DEF G
  <2>6. /\ SessionOf(G).where \in Places /\ SessionOf(G).language # NoLanguage
        /\ SessionOf(G).next > 0 /\ SessionOf(G).last >= 0
    BY <1>1, <2>3, <2>5, SessionIs
  <2>7. /\ s.where = SessionOf(G).where /\ s.language = SessionOf(G).language
        /\ s.next = SessionOf(G).next /\ s.last = SessionOf(G).last
    BY <2>2 DEF SessionOf
  <2> QED
    BY <2>6, <2>7
<1>4. CASE s \in FlowSessions
  <2>1. HasSession(E) /\ s = SessionOf(E)
    BY <1>4, FlowIs
  <2> HIDE DEF E
  <2>2. /\ SessionOf(E).where \in Places /\ SessionOf(E).language # NoLanguage
        /\ SessionOf(E).next > 0 /\ SessionOf(E).last >= 0
    BY <1>1, <2>1, SessionIs
  <2> QED
    BY <2>1, <2>2
<1> QED
  BY <1>3, <1>4

(* Exchanges with a language are of this page, and so is the one before.   *)
LEMMA TailIsOnPage ==
  ASSUME StateOK, NumbersOK, FileOK, BeginningOK, PageIsRecorded,
         NEW a \in 1 .. Len(Exchanges(har)),
         \A k \in a .. Len(Exchanges(har)) : Exchanges(har)[k].language # NoLanguage
  PROVE  \A k \in 1 .. Len(Exchanges(har)) : k >= a - 1 => OnPage(Exchanges(har)[k], page)
<1> DEFINE E == Exchanges(har)
           N == Len(E)
<1>1. DOMAIN E = 1 .. N /\ N \in Nat
  BY DEF FileOK, IsSeq
<1>2. \A k \in 1 .. N : E[k].entry \in Nat /\ E[k].entry >= 1
  BY <1>1 DEF FileOK, Recorded
<1>3. \A j, k \in 1 .. N : j < k => E[j].entry < E[k].entry
  BY <1>1 DEF FileOK
<1>4. page.first # 1 => \E k \in 1 .. N : E[k].entry = page.first /\ E[k].language = NoLanguage
  BY <1>1 DEF BeginningOK
<1>5. \A k \in 1 .. N : k >= a => E[k].language # NoLanguage
  BY <1>1
<1>6. a \in 1 .. N
  OBVIOUS
<1> HIDE DEF E, N
<1>7. CASE page.first = 1
  <2>1. \A k \in 1 .. N : OnPage(E[k], page)
    BY <1>2, <1>7 DEF OnPage
  <2> QED
    BY <2>1 DEF E, N
<1>8. CASE page.first # 1
  <2>1. PICK b \in 1 .. N : E[b].entry = page.first /\ E[b].language = NoLanguage
    BY <1>4, <1>8
  <2>2. b < a
    BY <1>1, <1>5, <1>6, <2>1
  <2>3. ASSUME NEW k \in 1 .. N, k >= a - 1 PROVE OnPage(E[k], page)
    <3>1. b = k \/ b < k
      BY <1>1, <1>6, <2>2, <2>3
    <3>2. E[b].entry <= E[k].entry
      BY <1>2, <1>3, <3>1
    <3>3. E[k].entry \in Nat /\ page.first \in Nat
      BY <1>2, <2>1
    <3> QED
      BY <2>1, <3>2, <3>3 DEF OnPage
  <2> QED
    BY <2>3 DEF E, N
<1> QED
  BY <1>7, <1>8

(* An accepted session continues the page that is open.                    *)
LEMMA SessionsFollow ==
  ASSUME StateOK, NumbersOK, FileOK, PageOK, BeginningOK
  PROVE  SequencesFollow
<1> DEFINE E == Exchanges(har)
           G == LatestGroup(E)
           W == WithFormLoad(E, G)
<1> SUFFICES ASSUME PageIsRecorded
             PROVE  /\ \A s \in BootstrapSessions \cup FlowSessions :
                         /\ s.where = page.where /\ s.entries \subseteq page.first .. Len(har)
                         /\ s.last = page.seen
                         /\ s.next # accepted + 1 => page.pending # 0
                    /\ \A s \in BootstrapSessions : s.next > accepted
  BY DEF SequencesFollow
<1>1. IsSeq(E) /\ DOMAIN E = 1 .. Len(E) /\ Len(E) \in Nat
  BY DEF FileOK, IsSeq
<1>2. \A k \in DOMAIN E : E[k].entry \in 1 .. Len(har)
  BY DEF FileOK, Recorded
<1>3. ASSUME NEW s \in BootstrapSessions
      PROVE  /\ s.where = page.where /\ s.entries \subseteq page.first .. Len(har)
             /\ s.last = page.seen
             /\ s.next # accepted + 1 => page.pending # 0
             /\ s.next > accepted
  <2>1. UsableGroup(E)
    BY <1>3, BootstrapIs
  <2>2. \/ s = SessionOf(G)
        \/ s = [SessionOf(G) EXCEPT !.entries = {W[i].entry : i \in DOMAIN W}]
    BY <1>3, BootstrapIs
  <2>3. E # <<>> /\ HasSession(G) /\ Succeeded(Last(E))
    BY <2>1 DEF UsableGroup
  <2>4. PICK a \in 1 .. Len(E) : /\ IsRest(G, a)
                                 /\ \A k \in a .. Len(E) :
                                      BootstrapKey(E[k]) = BootstrapKey(Last(E))
    BY <2>3, LatestGroupIs
  <2>5. \A k \in a .. Len(E) : E[k].language # NoLanguage
    <3> DEFINE m == Max(Answered(G))
    <3>1. IsSeq(G)
      BY <2>4 DEF IsRest
    <3>2. m \in DOMAIN G /\ G[m].language # NoLanguage
      BY <2>3, <3>1, LastAnswered DEF HasSession
    <3> HIDE DEF m
    <3>3. a + m - 1 \in a .. Len(E) /\ G[m] = E[a + m - 1]
      BY <1>1, <2>4, <3>2 DEF IsRest
    <3>4. BootstrapKey(E[a + m - 1]) = BootstrapKey(Last(E))
      BY <2>4, <3>3
    <3>5. E[a + m - 1].language = Last(E).language
      BY <3>4 DEF BootstrapKey, Key
    <3>6. \A k \in a .. Len(E) : E[k].language = Last(E).language
      BY <2>4 DEF BootstrapKey, Key
    <3> QED
      BY <3>2, <3>3, <3>5, <3>6
  <2>6. \A k \in 1 .. Len(E) : k >= a - 1 => OnPage(E[k], page)
    BY <2>5, TailIsOnPage
  <2>7. \A k \in a .. Len(E) : OnPage(E[k], page)
    BY <1>1, <2>6
  <2>8. /\ SessionOf(G).where = page.where
        /\ SessionOf(G).entries \subseteq page.first .. Len(har)
        /\ SessionOf(G).last = page.seen
        /\ SessionOf(G).next # accepted + 1 => page.pending # 0
        /\ SessionOf(G).next > accepted
    BY <2>3, <2>4, <2>7, SessionFollows
  <2>9. {W[i].entry : i \in DOMAIN W} \subseteq page.first .. Len(har)
    <3>1. \A k \in 1 .. Len(E) : k >= a - 1 => E[k].entry \in page.first .. Len(har)
      <4>1. Len(har) \in Nat /\ page.first \in Nat
        BY DEF StateOK, IsSeq, PageSet
      <4> HIDE DEF E
      <4> QED
        BY <1>1, <1>2, <2>6, <4>1 DEF OnPage
    <3>2. /\ IsSeq(G) /\ Len(G) = Len(E) - a + 1 /\ DOMAIN G = 1 .. (Len(E) - a + 1)
          /\ \A i \in 1 .. (Len(E) - a + 1) : G[i] = E[a + i - 1]
      BY <2>4 DEF IsRest
    <3>3. \A i \in DOMAIN G : G[i].entry \in page.first .. Len(har)
      <4> TAKE i \in DOMAIN G
      <4>1. a + i - 1 \in 1 .. Len(E) /\ a + i - 1 >= a - 1
        BY <1>1, <3>2
      <4> QED
        BY <3>1, <3>2, <4>1
    <3>4. \/ W = G
          \/ W = <<E[Len(E) - Len(G)]>> \o G /\ Len(E) - Len(G) > 0
      BY DEF WithFormLoad
    <3>5. CASE W = G
      BY <3>3, <3>5
    <3>6. CASE W = <<E[Len(E) - Len(G)]>> \o G /\ Len(E) - Len(G) > 0
      <4>1. Len(E) - Len(G) = a - 1
        BY <1>1, <3>2
      <4>2. a - 1 \in 1 .. Len(E)
        BY <1>1, <3>6, <4>1
      <4> DEFINE p == E[a - 1]
      <4>3. p.entry \in page.first .. Len(har)
        BY <3>1, <4>2
      <4>4. W = <<p>> \o G
        BY <3>6, <4>1
      <4>5. PICK S : G \in Seq(S)
        BY <3>2 DEF IsSeq
      <4> HIDE DEF p, W, G, E
      <4>6. \A i \in DOMAIN W : W[i] = p \/ \E j \in DOMAIN G : W[i] = G[j]
        <5>1. /\ DOMAIN W = 1 .. (Len(G) + 1) /\ Len(G) \in Nat /\ DOMAIN G = 1 .. Len(G)
              /\ \A i \in 1 .. (Len(G) + 1) : W[i] = IF i <= 1 THEN <<p>>[i] ELSE G[i - 1]
          <6>1. <<p>> \in Seq(S \cup {p}) /\ G \in Seq(S \cup {p}) /\ Len(<<p>>) = 1
            BY <4>5
          <6> QED
            BY <4>4, <6>1
        <5>2. ASSUME NEW i \in DOMAIN W PROVE W[i] = p \/ \E j \in DOMAIN G : W[i] = G[j]
          <6>1. CASE i = 1
            BY <5>1, <6>1
          <6>2. CASE i # 1
            <7>1. i - 1 \in DOMAIN G /\ W[i] = G[i - 1]
              BY <5>1, <6>2
            <7> QED
              BY <7>1
          <6> QED
            BY <6>1, <6>2
        <5> QED
          BY <5>2
      <4> QED
        BY <3>3, <4>3, <4>6
    <3> QED
      BY <3>4, <3>5, <3>6
  <2> HIDE DEF G, W
  <2>10. /\ s.where = SessionOf(G).where /\ s.last = SessionOf(G).last
         /\ s.next = SessionOf(G).next
         /\ s.entries \in {SessionOf(G).entries, {W[i].entry : i \in DOMAIN W}}
    BY <2>2 DEF SessionOf
  <2> QED
    BY <2>8, <2>9, <2>10
<1>4. ASSUME NEW s \in FlowSessions
      PROVE  /\ s.where = page.where /\ s.entries \subseteq page.first .. Len(har)
             /\ s.last = page.seen
             /\ s.next # accepted + 1 => page.pending # 0
  <2>1. E # <<>> /\ OneSession(E) /\ HasSession(E) /\ s = SessionOf(E)
    BY <1>4, FlowIs
  <2>2. Max(Answered(E)) \in DOMAIN E /\ E[Max(Answered(E))].language # NoLanguage
    BY <1>1, <2>1, LastAnswered DEF HasSession
  <2>3. \A k \in DOMAIN E : E[k].language = E[1].language
    BY <2>1 DEF OneSession, FlowKey, Key
  <2>4. \A k \in 1 .. Len(E) : E[k].language # NoLanguage
    BY <1>1, <2>2, <2>3
  <2>5. 1 \in 1 .. Len(E)
    BY <1>1, <2>2
  <2>6. \A k \in 1 .. Len(E) : OnPage(E[k], page)
    <3>1. \A k \in 1 .. Len(E) : k >= 1 - 1 => OnPage(E[k], page)
      BY <2>4, <2>5, TailIsOnPage
    <3> QED
      BY <1>1, <3>1
  <2>7. IsRest(E, 1)
    <3> HIDE DEF E
    <3>1. Len(E) - 1 + 1 = Len(E) /\ \A i \in 1 .. Len(E) : 1 + i - 1 = i
      BY <1>1
    <3> QED
      BY <1>1, <2>5, <3>1 DEF IsRest, E
  <2>8. /\ SessionOf(E).where = page.where
        /\ SessionOf(E).entries \subseteq page.first .. Len(har)
        /\ SessionOf(E).last = page.seen
        /\ SessionOf(E).next # accepted + 1 => page.pending # 0
    BY <2>1, <2>6, <2>7, SessionFollows
  <2> QED
    BY <2>1, <2>8
<1> QED
  BY <1>3, <1>4

-----------------------------------------------------------------------------
(* The invariant holds at first, and every step keeps it.                  *)

LEMMA InitInv == Init => IInv
<1> SUFFICES ASSUME Init PROVE IInv
  OBVIOUS
<1>1. IsSeq(<<>>) /\ Len(<<>>) = 0 /\ DOMAIN <<>> = {}
  BY EmptyIs
<1>2. /\ session \in Sessions /\ har = <<>> /\ sent = <<>> /\ accepted = 0 /\ faults = 0
      /\ lastForm = 3 /\ upload = [stage |-> "open", file |-> 0]
      /\ forms \in StartForms(session.start)
  BY DEF Init
<1>3. /\ session.start \in {"none", "workspace", "dialog"}
      /\ session.entries \in Nat /\ session.faults \in Nat
  BY <1>2, SessionsAssumption
<1>4. NoCommand \in CommandSet /\ Command("Load", None) \in CommandSet
  BY DEF NoCommand, Command, CommandSet, Names, AnyReport
<1>5. \/ page = FreshPage(Home, 0)
      \/ page = [FreshPage(Home, 0) EXCEPT !.language = TRUE, !.next = 1, !.pending = 0,
                                           !.command = NoCommand]
  BY DEF Init
<1>6. FreshPage(Home, 0) \in PageSet
  BY <1>1, <1>2, <1>4, SessionsAssumption DEF FreshPage, PageSet
<1>7. page \in PageSet /\ IsCommand(page.command)
  <2>1. CASE page = FreshPage(Home, 0)
    BY <1>4, <1>6, <2>1 DEF FreshPage, IsCommand, Command
  <2>2. CASE page = [FreshPage(Home, 0) EXCEPT !.language = TRUE, !.next = 1, !.pending = 0,
                                               !.command = NoCommand]
    <3>1. page \in PageSet
      BY <1>4, <1>6, <2>2 DEF PageSet
    <3>2. page.command = NoCommand
      BY <1>6, <2>2 DEF PageSet
    <3>3. page.command.name = ""
      <4>1. NoCommand.name = ""
        BY DEF NoCommand, Command
      <4> QED
        BY <3>2, <4>1
    <3>4. page.command \in CommandSet
      BY <1>4, <3>2
    <3> QED
      BY <3>1, <3>3, <3>4 DEF IsCommand
  <2> QED
    BY <1>5, <2>1, <2>2
<1>8. /\ page.seen = 0 /\ page.first = 1
      /\ \/ page.next = 2 /\ page.pending = 1
         \/ page.next = 1 /\ page.pending = 0
  <2>1. /\ FreshPage(Home, 0).seen = 0 /\ FreshPage(Home, 0).first = 1
        /\ FreshPage(Home, 0).next = 2 /\ FreshPage(Home, 0).pending = 1
    BY <1>1, <1>2 DEF FreshPage
  <2>2. CASE page = FreshPage(Home, 0)
    BY <2>1, <2>2
  <2>3. CASE page = [FreshPage(Home, 0) EXCEPT !.language = TRUE, !.next = 1, !.pending = 0,
                                               !.command = NoCommand]
    BY <1>6, <2>1, <2>3 DEF PageSet
  <2> QED
    BY <1>5, <2>2, <2>3
<1>9. FormsOK
  <2>1. {"workspace", "details", "dialog"} \subseteq Kinds
    BY DEF Kinds
  <2>2. NoReport \in AnyReport /\ \A r \in Drafts : r \in AnyReport
    BY SessionsAssumption DEF AnyReport, AllReports
  <2>3. \/ forms = {}
        \/ forms = {Form(1, "workspace", NoReport)}
        \/ \E r \in Drafts : forms = {Form(1, "workspace", NoReport), Form(2, "details", r),
                                      Form(3, "dialog", r)}
    BY <1>2, <1>3 DEF StartForms
  <2>4. \A f \in forms : f \in FormSet /\ f.id <= 3
    BY <2>1, <2>2, <2>3 DEF Form, FormSet
  <2> QED
    BY <1>2, <2>4 DEF FormsOK
<1>10. StateOK
  BY <1>1, <1>2, <1>3, <1>7, <1>9 DEF StateOK, UploadSet
<1>11. NumbersOK
  BY <1>1, <1>2, <1>8 DEF NumbersOK
<1>12. EntriesOK
  BY <1>1, <1>2 DEF EntriesOK
<1>13. Exchanges(har) = <<>>
  BY <1>2, ExchangesOfEmpty
<1>14. FileOK /\ PageOK
  BY <1>1, <1>13 DEF FileOK, PageOK
<1>15. BeginningOK
  BY <1>8 DEF BeginningOK
<1> QED
  BY <1>10, <1>11, <1>12, <1>14, <1>15 DEF IInv

\* Which message a request sends: the one pending, or the next.
Sends(n, c) ==
  /\ IsCommand(c)
  /\ n = page.pending \/ (n = page.next /\ page.pending = 0)

(* What a request leaves, the entry e recorded.                            *)
Requested(n, c, e, parsed) ==
  /\ har' = Append(har, e) /\ Len(har) < session.entries /\ session' = session
  /\ faults' \in Nat /\ faults' <= session.faults
  /\ e.type = "exchange" /\ e.entry = Len(har) + 1
  /\ e.where = page.where /\ e.auth = page.auth
  /\ e.language = (IF page.language THEN "en" ELSE NoLanguage)
  /\ e.sent = n /\ e.ack = page.seen /\ e.acked = accepted'
  /\ Parsed(e) <=> parsed
  /\ parsed \in BOOLEAN
  /\ ~parsed => e.messages = <<>>
  /\ parsed => e.messages = SubSeq(sent', page.seen + 1, Len(sent'))
  /\ \/ accepted' = accepted /\ sent' = sent
     \/ n > accepted /\ accepted' = n /\ \E a : sent' = Append(sent, a) /\ a.n = Len(sent) + 1
  /\ FormsOK' /\ upload' \in UploadSet
  /\ page' \in PageSet /\ IsCommand(page'.command)
  /\ page'.where = page.where /\ page'.first = page.first
  /\ page'.next = (IF n = page.next THEN n + 1 ELSE page.next)
  /\ page'.pending = (IF parsed /\ accepted' >= n THEN 0 ELSE n)
  /\ page'.seen = (IF parsed THEN Len(sent') ELSE page.seen)

\* What becomes of its command.
Carried(n, c, e, parsed) ==
  /\ e.command = c
  /\ page'.command = (IF parsed /\ accepted' >= n THEN NoCommand ELSE c)
  /\ page.language => page'.language
  /\ \/ accepted' = accepted /\ sent' = sent /\ forms' = forms
     \/ /\ n > accepted /\ accepted' = n /\ sent' = Append(sent, Answer(c))
        /\ forms' = (forms \ Answer(c).deleted) \cup Answer(c).made

LEMMA RequestIs ==
  ASSUME StateOK, NumbersOK, NEW n, NEW c, Sends(n, c), Request(n, c)
  PROVE  \E e : \E parsed \in BOOLEAN : Requested(n, c, e, parsed) /\ Carried(n, c, e, parsed)
<1>0. PICK handled \in BOOLEAN, ok \in BOOLEAN, body \in BOOLEAN :
       /\ ok \/ body
       /\ ok /\ ~body => session.bodiless
       /\ LET new == n > accepted
              parsed == ok /\ body
              lost == new /\ ~handled
          IN  /\ handled => new
              /\ accepted' = IF handled THEN n ELSE accepted
              /\ IF handled THEN Handle(c) ELSE DoNotHandle
              /\ Fault((IF parsed THEN 0 ELSE 1) + (IF lost /\ parsed THEN 1 ELSE 0))
              /\ har' = Append(har,
                   [type |-> "exchange", entry |-> Len(har) + 1, where |-> page.where,
                    language |-> IF page.language THEN "en" ELSE NoLanguage,
                    auth |-> page.auth, ok |-> ok, body |-> body, ack |-> page.seen,
                    sent |-> n, command |-> c, acked |-> accepted',
                    messages |-> IF parsed THEN Unseen ELSE <<>>])
              /\ page' = [page EXCEPT
                   !.next = IF n = page.next THEN n + 1 ELSE @,
                   !.pending = IF parsed /\ accepted' >= n THEN 0 ELSE n,
                   !.command = IF parsed /\ accepted' >= n THEN NoCommand ELSE c,
                   !.seen = IF parsed THEN Len(sent') ELSE @,
                   !.language = @ \/ (parsed /\ Len(sent') > 0)]
  BY DEF Request
<1>1. /\ handled => n > accepted
      /\ accepted' = (IF handled THEN n ELSE accepted)
      /\ IF handled THEN Handle(c) ELSE DoNotHandle
      /\ Fault((IF ok /\ body THEN 0 ELSE 1)
               + (IF (n > accepted /\ ~handled) /\ (ok /\ body) THEN 1 ELSE 0))
      /\ har' = Append(har,
           [type |-> "exchange", entry |-> Len(har) + 1, where |-> page.where,
            language |-> IF page.language THEN "en" ELSE NoLanguage,
            auth |-> page.auth, ok |-> ok, body |-> body, ack |-> page.seen,
            sent |-> n, command |-> c, acked |-> accepted',
            messages |-> IF ok /\ body THEN Unseen ELSE <<>>])
      /\ page' = [page EXCEPT
           !.next = IF n = page.next THEN n + 1 ELSE @,
           !.pending = IF ok /\ body /\ accepted' >= n THEN 0 ELSE n,
           !.command = IF ok /\ body /\ accepted' >= n THEN NoCommand ELSE c,
           !.seen = IF ok /\ body THEN Len(sent') ELSE @,
           !.language = @ \/ (ok /\ body /\ Len(sent') > 0)]
  BY <1>0
<1> DEFINE parsed == ok /\ body
           e == [type |-> "exchange", entry |-> Len(har) + 1, where |-> page.where,
                 language |-> IF page.language THEN "en" ELSE NoLanguage,
                 auth |-> page.auth, ok |-> ok, body |-> body, ack |-> page.seen,
                 sent |-> n, command |-> c, acked |-> accepted',
                 messages |-> IF ok /\ body THEN Unseen ELSE <<>>]
<1>2. Len(har) < session.entries /\ session' = session
  BY DEF Request
<1>3. faults' \in Nat /\ faults' <= session.faults
  <2>1. PICK k \in Nat : Fault(k)
    <3>1. \/ Fault(0 + 0) \/ Fault(1 + 0) \/ Fault(0 + 1) \/ Fault(1 + 1)
      BY <1>1
    <3> QED
      BY <3>1
  <2> QED
    BY <2>1 DEF Fault, StateOK
<1>4. /\ e.type = "exchange" /\ e.entry = Len(har) + 1
      /\ e.where = page.where /\ e.auth = page.auth
      /\ e.language = (IF page.language THEN "en" ELSE NoLanguage)
      /\ e.sent = n /\ e.ack = page.seen /\ e.acked = accepted'
      /\ Parsed(e) <=> parsed
      /\ ~parsed => e.messages = <<>>
      /\ parsed => e.messages = SubSeq(sent', page.seen + 1, Len(sent'))
  BY DEF Parsed, Unseen
<1>5. parsed \in BOOLEAN
  OBVIOUS
<1>6. n \in Nat
  BY DEF Sends, StateOK, PageSet
<1>7. /\ \/ accepted' = accepted /\ sent' = sent
         \/ n > accepted /\ accepted' = n /\ \E a : sent' = Append(sent, a) /\ a.n = Len(sent) + 1
      /\ FormsOK' /\ upload' \in UploadSet
  <2>1. CASE handled
    <3>1. Handle(c) /\ n > accepted /\ accepted' = n
      BY <1>1, <2>1
    <3>2. /\ FormsOK' /\ upload' \in UploadSet
          /\ \E a : sent' = Append(sent, a) /\ a.n = Len(sent) + 1
      BY <3>1, HandleIs DEF StateOK, Sends
    <3> QED
      BY <3>1, <3>2
  <2>2. CASE ~handled
    <3>1. DoNotHandle /\ accepted' = accepted
      BY <1>1, <2>2
    <3> QED
      BY <3>1 DEF DoNotHandle, StateOK, FormsOK
  <2> QED
    BY <2>1, <2>2
<1>8. Len(sent') \in Nat
  <2>1. IsSeq(sent) /\ Len(sent) \in Nat
    BY DEF StateOK, IsSeq
  <2>2. CASE sent' = sent
    BY <2>1, <2>2
  <2>3. ASSUME NEW a, sent' = Append(sent, a) PROVE Len(sent') \in Nat
    <3>1. Len(Append(sent, a)) = Len(sent) + 1
      BY <2>1, AppendIs
    <3> QED
      BY <2>1, <2>3, <3>1
  <2> QED
    BY <1>7, <2>2, <2>3
<1>9. NoCommand \in CommandSet /\ c \in CommandSet /\ IsCommand(NoCommand) /\ IsCommand(c)
  BY DEF NoCommand, Command, CommandSet, Names, AnyReport, IsCommand, Sends
<1>10. page \in PageSet
  BY DEF StateOK
<1>11. PICK next, pending, command, seen, language :
         /\ page' = [page EXCEPT !.next = next, !.pending = pending, !.command = command,
                                 !.seen = seen, !.language = language]
         /\ next = (IF n = page.next THEN n + 1 ELSE page.next)
         /\ pending = (IF parsed /\ accepted' >= n THEN 0 ELSE n)
         /\ command = (IF parsed /\ accepted' >= n THEN NoCommand ELSE c)
         /\ seen = (IF parsed THEN Len(sent') ELSE page.seen)
         /\ language = (page.language \/ (parsed /\ Len(sent') > 0))
  BY <1>1
<1>12. /\ next \in Nat /\ pending \in Nat /\ command \in CommandSet /\ IsCommand(command)
       /\ seen \in Nat /\ language \in BOOLEAN
  <2>1. next \in Nat /\ pending \in Nat
    BY <1>6, <1>10, <1>11 DEF PageSet
  <2>2. seen \in Nat
    BY <1>8, <1>10, <1>11 DEF PageSet
  <2>3. command \in CommandSet /\ IsCommand(command)
    BY <1>9, <1>11
  <2>4. language \in BOOLEAN
    BY <1>11
  <2> QED
    BY <2>1, <2>2, <2>3, <2>4
<1>13. page' \in PageSet
  <2>1. /\ page.where \in Places /\ page.auth \in Auths /\ page.first \in Nat
        /\ page = [where |-> page.where, language |-> page.language, auth |-> page.auth,
                    next |-> page.next, pending |-> page.pending, command |-> page.command,
                    seen |-> page.seen, first |-> page.first]
    BY <1>10 DEF PageSet
  <2>2. page' = [where |-> page.where, language |-> language, auth |-> page.auth,
                 next |-> next, pending |-> pending, command |-> command,
                 seen |-> seen, first |-> page.first]
    BY <1>11, <2>1
  <2> QED
    BY <1>12, <2>1, <2>2 DEF PageSet
<1>14. /\ page'.where = page.where /\ page'.first = page.first /\ page'.next = next
       /\ page'.pending = pending /\ page'.seen = seen /\ page'.command = command
       /\ page'.language = language
  BY <1>10, <1>11 DEF PageSet
<1>15. har' = Append(har, e) /\ e.command = c
  BY <1>1
<1>16a. \/ accepted' = accepted /\ sent' = sent /\ forms' = forms
        \/ /\ n > accepted /\ accepted' = n /\ sent' = Append(sent, Answer(c))
           /\ forms' = (forms \ Answer(c).deleted) \cup Answer(c).made
  <2>1. CASE handled
    BY <1>1, <2>1 DEF Handle
  <2>2. CASE ~handled
    BY <1>1, <2>2 DEF DoNotHandle
  <2> QED
    BY <2>1, <2>2
<1> HIDE DEF e, parsed
<1>16. IsCommand(page'.command)
  BY <1>12, <1>14
<1>17. /\ page'.next = (IF n = page.next THEN n + 1 ELSE page.next)
       /\ page'.pending = (IF parsed /\ accepted' >= n THEN 0 ELSE n)
       /\ page'.seen = (IF parsed THEN Len(sent') ELSE page.seen)
  BY <1>11, <1>14
<1>18. Requested(n, c, e, parsed)
  BY <1>2, <1>3, <1>4, <1>5, <1>7, <1>13, <1>14, <1>15, <1>16, <1>17 DEF Requested
<1>19. Carried(n, c, e, parsed)
  BY <1>11, <1>14, <1>15, <1>16a DEF Carried
<1> QED
  BY <1>5, <1>18, <1>19

(* A request keeps the invariant.                                          *)
LEMMA RequestedKeeps ==
  ASSUME IInv, NEW n, NEW c, Sends(n, c), NEW e, NEW parsed \in BOOLEAN, Requested(n, c, e, parsed)
  PROVE  IInv'
<1> DEFINE E == Exchanges(har)
           L == Len(har)
           M == Len(sent)
           N == Len(E)
<1>1. /\ har' = Append(har, e) /\ L < session.entries /\ session' = session
      /\ faults' \in Nat /\ faults' <= session.faults
      /\ e.type = "exchange" /\ e.entry = L + 1
      /\ e.where = page.where /\ e.auth = page.auth
      /\ e.language = (IF page.language THEN "en" ELSE NoLanguage)
      /\ e.sent = n /\ e.ack = page.seen /\ e.acked = accepted'
      /\ Parsed(e) <=> parsed
      /\ ~parsed => e.messages = <<>>
      /\ parsed => e.messages = SubSeq(sent', page.seen + 1, Len(sent'))
      /\ FormsOK' /\ upload' \in UploadSet
      /\ page' \in PageSet /\ IsCommand(page'.command)
      /\ page'.where = page.where /\ page'.first = page.first
      /\ page'.seen = (IF parsed THEN Len(sent') ELSE page.seen)
  BY DEF Requested
<1>2. /\ \/ accepted' = accepted /\ sent' = sent
         \/ n > accepted /\ accepted' = n /\ \E a : sent' = Append(sent, a) /\ a.n = M + 1
      /\ page'.next = (IF n = page.next THEN n + 1 ELSE page.next)
      /\ page'.pending = (IF parsed /\ accepted' >= n THEN 0 ELSE n)
  BY DEF Requested
<1>3. /\ StateOK /\ NumbersOK /\ EntriesOK /\ FileOK /\ PageOK /\ BeginningOK
  BY DEF IInv
<1>4. /\ session \in Sessions /\ IsSeq(har) /\ IsSeq(sent) /\ page \in PageSet
      /\ accepted \in Nat /\ faults \in Nat /\ L \in Nat /\ M \in Nat
  BY <1>3 DEF StateOK, IsSeq
<1>5. /\ page.next \in Nat /\ page.pending \in Nat /\ page.seen \in Nat /\ page.first \in Nat
      /\ page.where \in Places /\ page.auth \in Auths
  BY <1>4 DEF PageSet
<1>6. session.entries \in Nat /\ session.faults \in Nat
  BY <1>4, SessionsAssumption
<1>7. /\ \A i \in DOMAIN sent : sent[i].n = i
      /\ page.seen <= M /\ M <= L
      /\ accepted < page.next /\ page.pending \in {0, page.next - 1}
      /\ page.next <= L + 2
      /\ page.pending = 0 => accepted + 1 = page.next
      /\ page.first \in 1 .. (L + 1)
  BY <1>3 DEF NumbersOK
<1>8. n = page.pending \/ (n = page.next /\ page.pending = 0)
  BY DEF Sends
<1>9. n \in Nat
  BY <1>5, <1>8
<1>10. /\ IsSeq(har') /\ Len(har') = L + 1 /\ DOMAIN har = 1 .. L /\ DOMAIN har' = 1 .. (L + 1)
       /\ \A i \in 1 .. L : har'[i] = har[i]
       /\ har'[L + 1] = e
  BY <1>1, <1>4, AppendIs
<1>11. Exchanges(har') = Append(E, e)
  <2>1. IsExchange(e)
    BY <1>1 DEF IsExchange
  <2>2. Exchanges(Append(har, e)) = Append(E, e)
    BY <1>4, <2>1, ExchangesOfAppend
  <2> QED
    BY <1>1, <2>2
<1>12. /\ IsSeq(Exchanges(har')) /\ Len(Exchanges(har')) = N + 1 /\ N \in Nat
       /\ DOMAIN E = 1 .. N /\ DOMAIN Exchanges(har') = 1 .. (N + 1)
       /\ \A k \in 1 .. N : Exchanges(har')[k] = E[k]
       /\ Exchanges(har')[N + 1] = e
  <2>1. IsSeq(E)
    BY <1>3 DEF FileOK
  <2> HIDE DEF E
  <2> QED
    BY <1>11, <2>1, AppendIs
\* What Dynamics has sent.
<1>13. /\ IsSeq(sent') /\ Len(sent') \in {M, M + 1} /\ DOMAIN sent' = 1 .. Len(sent')
       /\ \A i \in DOMAIN sent' : sent'[i].n = i
       /\ sent' = sent \/ Len(sent') = M + 1
  <2>1. CASE sent' = sent
    <3>1. DOMAIN sent = 1 .. Len(sent)
      BY <1>4, AppendIs
    <3> QED
      BY <1>4, <1>7, <2>1, <3>1
  <2>2. ASSUME NEW a, sent' = Append(sent, a), a.n = M + 1
        PROVE  /\ IsSeq(sent') /\ Len(sent') = M + 1 /\ DOMAIN sent' = 1 .. Len(sent')
               /\ \A i \in DOMAIN sent' : sent'[i].n = i
    <3>1. /\ IsSeq(Append(sent, a)) /\ Len(Append(sent, a)) = M + 1
          /\ DOMAIN sent = 1 .. M /\ DOMAIN Append(sent, a) = 1 .. (M + 1)
          /\ \A i \in 1 .. M : Append(sent, a)[i] = sent[i]
          /\ Append(sent, a)[M + 1] = a
      BY <1>4, AppendIs
    <3> HIDE DEF M
    <3>2. ASSUME NEW i \in 1 .. (M + 1) PROVE sent'[i].n = i
      <4>1. CASE i = M + 1
        BY <2>2, <3>1, <4>1
      <4>2. CASE i # M + 1
        <5>1. i \in 1 .. M
          BY <1>4, <4>2
        <5> QED
          BY <1>7, <2>2, <3>1, <5>1
      <4> QED
        BY <4>1, <4>2
    <3> QED
      BY <2>2, <3>1, <3>2
  <2> QED
    BY <1>2, <1>4, <2>1, <2>2
<1> HIDE DEF L, M, N, E
<1>13a. PICK K \in Nat : K = Len(sent') /\ (K = M \/ K = M + 1)
  <2>1. Len(sent') \in {M, M + 1}
    BY <1>13
  <2>2. Len(sent') \in Nat
    BY <1>4, <2>1
  <2> QED
    BY <2>1, <2>2
\* The messages the exchange has brought.
<1>14. ServerNumbers(e) = IF parsed THEN (page.seen + 1) .. K ELSE {}
  <2>1. CASE parsed
    <3> DEFINE m == page.seen + 1
    <3>1. m \in 1 .. (K + 1)
      BY <1>4, <1>5, <1>7, <1>13a
    <3>2. /\ DOMAIN SubSeq(sent', m, Len(sent')) = 1 .. (Len(sent') - m + 1)
          /\ \A i \in 1 .. (Len(sent') - m + 1) : SubSeq(sent', m, Len(sent'))[i] = sent'[m + i - 1]
      <4> HIDE DEF m
      <4>1. m \in 1 .. (Len(sent') + 1)
        BY <1>13a, <3>1
      <4> QED
        BY <1>13, <4>1, RestIs
    <3>3. e.messages = SubSeq(sent', m, Len(sent'))
      BY <1>1, <2>1
    <3>4. DOMAIN e.messages = 1 .. (K - m + 1)
      BY <1>13a, <3>2, <3>3
    <3>5. \A i \in 1 .. (K - m + 1) : e.messages[i].n = m + i - 1
      <4> TAKE i \in 1 .. (K - m + 1)
      <4>1. m + i - 1 \in 1 .. K
        BY <1>13a, <3>1
      <4>2. sent'[m + i - 1].n = m + i - 1
        BY <1>13, <1>13a, <4>1
      <4> QED
        BY <1>13a, <3>2, <3>3, <4>2
    <3> HIDE DEF m
    <3>6. \A x \in m .. K : x - m + 1 \in 1 .. (K - m + 1) /\ m + (x - m + 1) - 1 = x
      BY <1>13a, <3>1
    <3>7. \A i \in 1 .. (K - m + 1) : m + i - 1 \in m .. K
      BY <1>13a, <3>1
    <3>8. ServerNumbers(e) = {e.messages[i].n : i \in 1 .. (K - m + 1)}
      BY <3>4 DEF ServerNumbers
    <3>9. ServerNumbers(e) = m .. K
      <4>1. \A x \in ServerNumbers(e) : x \in m .. K
        BY <3>5, <3>7, <3>8
      <4>2. ASSUME NEW x \in m .. K PROVE x \in ServerNumbers(e)
        <5>1. e.messages[x - m + 1].n = x
          BY <3>5, <3>6
        <5> QED
          BY <3>6, <3>8, <5>1
      <4> QED
        BY <4>1, <4>2
    <3> QED
      BY <2>1, <3>9 DEF m
  <2>2. CASE ~parsed
    <3>1. e.messages = <<>>
      BY <1>1, <2>2
    <3>2. DOMAIN e.messages = {}
      BY <3>1, EmptyIs
    <3> QED
      BY <2>2, <3>2 DEF ServerNumbers
  <2> QED
    BY <2>1, <2>2
<1>15. accepted' \in Nat /\ accepted' >= accepted /\ accepted' <= page.next
  BY <1>2, <1>4, <1>5, <1>7, <1>8, <1>9
<1>16. K >= M /\ K <= L + 1
  BY <1>4, <1>7, <1>13a
<1>17. /\ page'.next \in Nat /\ page'.next >= page.next /\ n < page'.next
       /\ page'.next <= L + 3 /\ accepted' < page'.next
       /\ page'.pending \in {0, page'.next - 1}
  BY <1>2, <1>4, <1>5, <1>7, <1>8, <1>9
<1>18. page'.pending = 0 => accepted' + 1 = page'.next
  BY <1>2, <1>4, <1>5, <1>7, <1>8, <1>9
<1>19. page'.seen \in Nat /\ page'.seen >= page.seen /\ page'.seen <= K
  BY <1>1, <1>4, <1>5, <1>7, <1>13a, <1>16
<1>20. (~parsed /\ page'.pending = 0) => page.pending = 0 /\ accepted' = accepted
  BY <1>2, <1>4, <1>5, <1>7, <1>8, <1>9
<1>21. StateOK'
  <2>1. L + 1 <= session.entries
    BY <1>1, <1>4, <1>6
  <2> QED
    BY <1>1, <1>4, <1>10, <1>13, <1>15, <2>1 DEF StateOK
<1>22. NumbersOK'
  <2>1. page'.first \in 1 .. (Len(har') + 1)
    BY <1>1, <1>4, <1>7, <1>10
  <2>2. Len(sent') <= Len(har') /\ page'.next <= Len(har') + 2
    BY <1>4, <1>10, <1>13a, <1>16, <1>17
  <2> QED
    BY <1>13, <1>13a, <1>17, <1>18, <1>19, <2>1, <2>2 DEF NumbersOK
<1>23. EntriesOK'
  <2>1. EntryOK(e, L + 1)
    BY <1>1, <1>5 DEF EntryOK
  <2>2. ASSUME NEW i \in 1 .. (L + 1) PROVE EntryOK(har'[i], i)
    <3>1. CASE i = L + 1
      BY <1>10, <2>1, <3>1
    <3>2. CASE i # L + 1
      <4>1. i \in 1 .. L
        BY <1>4, <3>2
      <4> QED
        BY <1>3, <1>10, <4>1 DEF EntriesOK
    <3> QED
      BY <3>1, <3>2
  <2> QED
    BY <1>10, <2>2 DEF EntriesOK
<1>24. /\ \A k \in 1 .. N : Recorded(E[k], L)
       /\ \A j, k \in 1 .. N : j < k => E[j].entry < E[k].entry
  BY <1>3, <1>12 DEF FileOK, E, L
<1>25. FileOK'
  <2>1. Recorded(e, L + 1)
    <3>1. e.entry \in 1 .. (L + 1) /\ e.where \in Places
      BY <1>1, <1>4, <1>5
    <3>2. e.sent \in 0 .. (L + 1 + 2) /\ e.acked \in 0 .. (L + 1 + 2)
      <4>1. e.sent = n /\ e.acked = accepted'
        BY <1>1
      <4>2. n <= page.next /\ n \in Nat /\ page.next <= L + 2
        <5>1. page.next \in Nat /\ page.pending <= page.next /\ page.next <= L + 2
          BY <1>5, <1>7
        <5> QED
          BY <1>8, <1>9, <5>1
      <4>3. accepted' \in Nat /\ accepted' <= page.next
        BY <1>15
      <4>4. page.next \in Nat
        BY <1>5
      <4>5. n \in 0 .. (L + 3) /\ accepted' \in 0 .. (L + 3)
        BY <1>4, <4>2, <4>3, <4>4
      <4>6. L + 1 + 2 = L + 3
        BY <1>4
      <4> QED
        BY <4>1, <4>5, <4>6
    <3>3. e.ack \in 0 .. (L + 1)
      BY <1>1, <1>4, <1>5, <1>7
    <3>4. ServerNumbers(e) \subseteq 0 .. (L + 1)
      BY <1>4, <1>5, <1>14, <1>16
    <3> QED
      BY <3>1, <3>2, <3>3, <3>4 DEF Recorded
  <2>2. ASSUME NEW k \in 1 .. N PROVE Recorded(E[k], L + 1)
    <3>1. Recorded(E[k], L)
      BY <1>24
    <3>2. 1 .. L \subseteq 1 .. (L + 1) /\ 0 .. L \subseteq 0 .. (L + 1)
      BY <1>4
    <3>3. 0 .. (L + 2) \subseteq 0 .. (L + 1 + 2)
      BY <1>4
    <3> QED
      BY <3>1, <3>2, <3>3 DEF Recorded
  <2>3. ASSUME NEW k \in 1 .. (N + 1) PROVE Recorded(Exchanges(har')[k], L + 1)
    <3>1. CASE k = N + 1
      BY <1>12, <2>1, <3>1
    <3>2. CASE k # N + 1
      <4>1. k \in 1 .. N
        BY <1>12, <3>2
      <4> QED
        BY <1>12, <2>2, <4>1
    <3> QED
      BY <3>1, <3>2
  <2>4. ASSUME NEW j \in 1 .. (N + 1), NEW k \in 1 .. (N + 1), j < k
        PROVE  Exchanges(har')[j].entry < Exchanges(har')[k].entry
    <3>1. j \in 1 .. N
      BY <1>12, <2>4
    <3>2. CASE k = N + 1
      <4>1. E[j].entry \in 1 .. L
        BY <1>24, <3>1 DEF Recorded
      <4> QED
        BY <1>1, <1>4, <1>12, <3>1, <3>2, <4>1
    <3>3. CASE k # N + 1
      <4>1. k \in 1 .. N
        BY <1>12, <3>3
      <4> QED
        BY <1>12, <1>24, <2>4, <3>1, <4>1
    <3> QED
      BY <3>2, <3>3
  <2> QED
    BY <1>10, <1>12, <2>3, <2>4 DEF FileOK
<1>26. \A k \in 1 .. N : OnPage(E[k], page) =>
         /\ Follows(E[k], page, accepted)
         /\ (Parsed(E[k]) /\ \A j \in 1 .. N : j > k => ~Parsed(E[j])) => Brought(E[k], page, accepted)
  BY <1>3, <1>12 DEF PageOK, E
<1>27. PageOK'
  <2> DEFINE F == Exchanges(har')
  <2>1. ASSUME NEW k \in 1 .. N, OnPage(E[k], page')
        PROVE  /\ F[k] = E[k] /\ Follows(E[k], page', accepted') /\ k # N + 1
               /\ (Parsed(E[k]) /\ \A j \in 1 .. (N + 1) : j > k => ~Parsed(F[j])) => Brought(E[k], page', accepted')
    <3> DEFINE ex == E[k]
    <3>1. OnPage(ex, page)
      BY <1>1, <2>1 DEF OnPage
    <3>2. Follows(ex, page, accepted) /\ Recorded(ex, L)
      BY <1>24, <1>26, <3>1
    <3>3. F[k] = ex /\ k # N + 1
      BY <1>12
    <3>4. (Parsed(ex) /\ \A j \in 1 .. N : j > k => ~Parsed(E[j])) => Brought(ex, page, accepted)
      BY <1>26, <3>1
    <3> HIDE DEF ex, F
    <3>5. /\ ex.sent \in Nat /\ ex.acked \in Nat /\ ex.ack \in Nat
          /\ ServerNumbers(ex) \subseteq Nat
      BY <1>4, <3>2 DEF Recorded
    <3>6. ex.where = page'.where /\ ex.sent < page'.next /\ ex.acked <= accepted'
      <4>1. ex.where = page.where /\ ex.sent < page.next /\ ex.acked <= accepted
        BY <3>2 DEF Follows
      <4>2. ex.sent < page'.next
        BY <1>5, <1>17, <3>5, <4>1
      <4>3. ex.acked <= accepted'
        BY <1>4, <1>15, <3>5, <4>1
      <4> QED
        BY <1>1, <4>1, <4>2, <4>3
    <3>7. ex.ack <= page'.seen /\ \A x \in ServerNumbers(ex) : x <= page'.seen
      BY <1>5, <1>19, <3>2, <3>5 DEF Follows
    <3>8. Follows(ex, page', accepted')
      BY <3>6, <3>7 DEF Follows, ex
    <3>9. ASSUME Parsed(ex), \A j \in 1 .. (N + 1) : j > k => ~Parsed(F[j])
          PROVE  Brought(ex, page', accepted')
      <4>1. N + 1 \in 1 .. (N + 1) /\ N + 1 > k /\ F[N + 1] = e
        BY <1>12 DEF F
      <4>2. ~parsed
        BY <1>1, <3>9, <4>1
      <4>3. \A j \in 1 .. N : j > k => ~Parsed(E[j])
        <5>1. \A j \in 1 .. N : j \in 1 .. (N + 1) /\ F[j] = E[j]
          BY <1>12 DEF F
        <5> QED
          BY <3>9, <5>1
      <4>4. Brought(ex, page, accepted)
        BY <3>4, <3>9, <4>3
      <4>5. page'.seen = page.seen
        BY <1>1, <4>2
      <4> QED
        BY <1>20, <4>2, <4>4, <4>5 DEF Brought, ex
    <3> QED
      BY <3>3, <3>8, <3>9 DEF ex, F
  <2>2. Follows(e, page', accepted') /\ e.acked = accepted' /\ (Parsed(e) => Brought(e, page', accepted'))
    <3>1. e.ack <= page'.seen /\ \A x \in ServerNumbers(e) : x <= page'.seen
      <4>1. e.ack <= page'.seen
        BY <1>1, <1>19
      <4>2. CASE parsed
        <5>1. ServerNumbers(e) = (page.seen + 1) .. K /\ page'.seen = K
          BY <1>1, <1>13a, <1>14, <4>2
        <5> QED
          BY <1>5, <4>1, <5>1
      <4>3. CASE ~parsed
        BY <1>14, <4>1, <4>3
      <4> QED
        BY <4>1, <4>2, <4>3
    <3>2. Follows(e, page', accepted')
      BY <1>1, <1>15, <1>17, <3>1 DEF Follows
    <3>3. ASSUME parsed PROVE page'.seen \in {e.ack} \cup ServerNumbers(e)
      <4>1. ServerNumbers(e) = (page.seen + 1) .. K /\ page'.seen = K /\ e.ack = page.seen
        BY <1>1, <1>13a, <1>14, <3>3
      <4>2. page.seen <= K
        BY <1>4, <1>5, <1>7, <1>16
      <4> QED
        BY <1>5, <4>1, <4>2
    <3> QED
      BY <1>1, <3>2, <3>3 DEF Brought
  <2> HIDE DEF F
  <2>3. ASSUME NEW k \in 1 .. (N + 1), OnPage(F[k], page')
        PROVE  /\ Follows(F[k], page', accepted')
               /\ k = N + 1 => F[k].acked = accepted'
               /\ (Parsed(F[k]) /\ \A j \in 1 .. (N + 1) : j > k => ~Parsed(F[j])) => Brought(F[k], page', accepted')
    <3>1. CASE k = N + 1
      <4>1. F[k] = e
        BY <1>12, <3>1 DEF F
      <4> QED
        BY <2>2, <4>1
    <3>2. CASE k # N + 1
      <4>1. k \in 1 .. N
        BY <1>12, <3>2
      <4>2. F[k] = E[k]
        BY <1>12, <4>1 DEF F
      <4> QED
        BY <2>1, <2>3, <3>2, <4>1, <4>2
    <3> QED
      BY <3>1, <3>2
  <2> QED
    BY <1>12, <2>3 DEF PageOK, F
<1>28. BeginningOK'
  <2> SUFFICES ASSUME page.first # 1 PROVE BeginningOK'
    BY <1>1 DEF BeginningOK
  <2>1. PageIsRecorded'
    BY <1>1, <1>4, <1>7, <1>10 DEF PageIsRecorded
  <2>2. CASE PageIsRecorded
    <3>1. PICK k \in 1 .. N : E[k].entry = page.first /\ E[k].language = NoLanguage
      BY <1>3, <1>12, <2>2 DEF BeginningOK, E
    <3>2. k \in 1 .. (N + 1) /\ Exchanges(har')[k] = E[k]
      BY <1>12
    <3> QED
      BY <1>1, <1>12, <2>1, <3>1, <3>2 DEF BeginningOK
  <2>3. CASE ~PageIsRecorded
    <3>1. ~page.language
      BY <1>3, <2>3 DEF BeginningOK
    <3>2. page.first = L + 1
      BY <1>4, <1>7, <2>3 DEF PageIsRecorded, L
    <3>3. e.entry = page'.first /\ e.language = NoLanguage
      BY <1>1, <3>1, <3>2
    <3>4. N + 1 \in 1 .. (N + 1)
      BY <1>12
    <3> QED
      BY <1>12, <2>1, <3>3, <3>4 DEF BeginningOK
  <2> QED
    BY <2>2, <2>3
<1> QED
  BY <1>21, <1>22, <1>23, <1>25, <1>27, <1>28 DEF IInv

LEMMA RequestKeeps ==
  ASSUME IInv, NEW n, NEW c, Sends(n, c), Request(n, c)
  PROVE  IInv'
<1>1. PICK e : \E parsed \in BOOLEAN : Requested(n, c, e, parsed)
  BY RequestIs DEF IInv
<1>2. PICK parsed \in BOOLEAN : Requested(n, c, e, parsed)
  BY <1>1
<1> QED
  BY <1>2, RequestedKeeps

(* A command on the form in front.                                         *)
LEMMA DoKeeps ==
  ASSUME IInv, NEW name \in Names, NEW file \in Nat, NEW report \in AnyReport, InSync,
         Request(page.next, [name |-> name, root |-> Top, file |-> file, report |-> report])
  PROVE  IInv'
<1> DEFINE c == [name |-> name, root |-> Top, file |-> file, report |-> report]
<1>1. Top \in FormSet
  BY TopIs DEF IInv, StateOK
<1>2. IsCommand(c)
  BY <1>1 DEF IsCommand, CommandSet
<1>3. Request(page.next, c)
  OBVIOUS
<1> HIDE DEF c
<1>4. Sends(page.next, c)
  BY <1>2 DEF Sends, InSync
<1> QED
  BY <1>3, <1>4, RequestKeeps

LEMMA NamedKeeps ==
  ASSUME IInv, NEW name \in Names, NEW kind, Do(name, kind)
  PROVE  IInv'
<1>1. InSync /\ Request(page.next, Command(name, Top))
  BY DEF Do
<1>2. Command(name, Top) = [name |-> name, root |-> Top, file |-> 0, report |-> NoReport]
  BY DEF Command
<1>3. NoReport \in AnyReport
  BY DEF AnyReport
<1>4. Request(page.next, [name |-> name, root |-> Top, file |-> 0, report |-> NoReport])
  BY <1>1, <1>2
<1> QED
  BY <1>1, <1>3, <1>4, DoKeeps

LEMMA OpenKeeps ==
  ASSUME IInv, NEW r \in Reports, Open(r)
  PROVE  IInv'
<1> DEFINE d == Command("Open", Top)
<1>1. InSync /\ Request(page.next, [d EXCEPT !.report = r])
  BY DEF Open
<1>2. [d EXCEPT !.report = r] = [name |-> "Open", root |-> Top, file |-> 0, report |-> r]
  <2>1. d \in [name : {"Open"}, root : {Top}, file : {0}, report : {NoReport}]
    BY DEF Command
  <2> HIDE DEF d
  <2> QED
    BY <2>1
<1>3. r \in AnyReport /\ "Open" \in Names
  BY DEF AnyReport, AllReports, Names
<1>4. Request(page.next, [name |-> "Open", root |-> Top, file |-> 0, report |-> r])
  BY <1>1, <1>2
<1> QED
  BY <1>1, <1>3, <1>4, DoKeeps

LEMMA CloseUploadKeeps ==
  ASSUME IInv, CloseUpload
  PROVE  IInv'
<1> DEFINE d == Command("CloseUpload", Top)
<1>1. InSync /\ Request(page.next, [d EXCEPT !.file = upload.file])
  BY DEF CloseUpload
<1>2. [d EXCEPT !.file = upload.file]
        = [name |-> "CloseUpload", root |-> Top, file |-> upload.file, report |-> NoReport]
  <2>1. d \in [name : {"CloseUpload"}, root : {Top}, file : {0}, report : {NoReport}]
    BY DEF Command
  <2> HIDE DEF d
  <2> QED
    BY <2>1
<1>3. NoReport \in AnyReport /\ "CloseUpload" \in Names /\ upload.file \in Nat
  BY DEF AnyReport, Names, IInv, StateOK, UploadSet
<1>4. Request(page.next, [name |-> "CloseUpload", root |-> Top, file |-> upload.file,
                          report |-> NoReport])
  BY <1>1, <1>2
<1> QED
  BY <1>1, <1>3, <1>4, DoKeeps

LEMMA PollKeeps ==
  ASSUME IInv, Poll
  PROVE  IInv'
<1>1. Request(page.pending, page.command)
  BY DEF Poll
<1>2. Sends(page.pending, page.command)
  BY DEF Sends, IInv, StateOK
<1> QED
  BY <1>1, <1>2, RequestKeeps

(* An upload is no exchange, but takes a place in the file.                *)
LEMMA UploadKeeps ==
  ASSUME IInv, UploadFile
  PROVE  IInv'
<1> DEFINE L == Len(har)
<1>1. /\ InSync /\ L < session.entries
      /\ session' = session /\ page' = page /\ accepted' = accepted /\ sent' = sent
      /\ forms' = forms /\ lastForm' = lastForm
  BY DEF UploadFile
<1>2. PICK ok \in BOOLEAN :
        /\ Fault(IF ok THEN 0 ELSE 1)
        /\ har' = Append(har, [type |-> "upload", auth |-> page.auth, ok |-> ok,
                               file |-> upload.file + 1])
        /\ upload' = IF ok THEN [stage |-> "uploaded", file |-> upload.file + 1] ELSE upload
  BY DEF UploadFile
<1>3. PICK e : har' = Append(har, e) /\ e.type = "upload"
  BY <1>2
<1>4. /\ StateOK /\ NumbersOK /\ EntriesOK /\ FileOK /\ PageOK /\ BeginningOK
  BY DEF IInv
<1>5. /\ session \in Sessions /\ IsSeq(har) /\ faults \in Nat /\ upload \in UploadSet /\ L \in Nat
  BY <1>4 DEF StateOK, IsSeq
<1>6. session.entries \in Nat /\ session.faults \in Nat
  BY <1>5, SessionsAssumption
<1>7. /\ IsSeq(har') /\ Len(har') = L + 1 /\ DOMAIN har = 1 .. L /\ DOMAIN har' = 1 .. (L + 1)
      /\ \A i \in 1 .. L : har'[i] = har[i]
      /\ har'[L + 1] = e
  BY <1>3, <1>5, AppendIs
<1>8. Exchanges(har') = Exchanges(har)
  <2>1. ~IsExchange(e)
    BY <1>3 DEF IsExchange
  <2> QED
    BY <1>3, <1>5, <2>1, ExchangesOfAppend
<1> HIDE DEF L
<1>9. FormsOK'
  BY <1>1, <1>4 DEF StateOK, FormsOK
<1>10. upload' \in UploadSet
  BY <1>2, <1>5 DEF UploadSet
<1>11. faults' \in Nat /\ faults' <= session.faults
  <2>1. Fault(0) \/ Fault(1)
    BY <1>2
  <2> QED
    BY <1>5, <2>1 DEF Fault
<1>12. StateOK'
  <2>1. L + 1 <= session.entries
    BY <1>1, <1>5, <1>6 DEF L
  <2> QED
    BY <1>1, <1>4, <1>7, <1>9, <1>10, <1>11, <2>1 DEF StateOK
<1>13. NumbersOK'
  <2>1. /\ Len(sent) \in Nat /\ page.next \in Nat
    BY <1>4 DEF StateOK, IsSeq, PageSet
  <2>2. /\ Len(sent) <= L + 1 /\ page.next <= L + 1 + 2 /\ page.first \in 1 .. (L + 1 + 1)
    BY <1>4, <1>5, <2>1 DEF NumbersOK, L
  <2> QED
    BY <1>1, <1>4, <1>7, <2>2 DEF NumbersOK
<1>14. EntriesOK'
  <2>1. EntryOK(e, L + 1)
    BY <1>3 DEF EntryOK
  <2>2. ASSUME NEW i \in 1 .. (L + 1) PROVE EntryOK(har'[i], i)
    <3>1. CASE i = L + 1
      BY <1>7, <2>1, <3>1
    <3>2. CASE i # L + 1
      <4>1. i \in 1 .. L
        BY <1>5, <3>2
      <4> QED
        BY <1>4, <1>7, <4>1 DEF EntriesOK
    <3> QED
      BY <3>1, <3>2
  <2> QED
    BY <1>7, <2>2 DEF EntriesOK
<1>15. FileOK'
  <2>1. \A k \in DOMAIN Exchanges(har) : Recorded(Exchanges(har)[k], L)
    BY <1>4 DEF FileOK, L
  <2>2. ASSUME NEW ex, Recorded(ex, L) PROVE Recorded(ex, L + 1)
    <3>1. 1 .. L \subseteq 1 .. (L + 1) /\ 0 .. L \subseteq 0 .. (L + 1)
      BY <1>5
    <3>2. 0 .. (L + 2) \subseteq 0 .. (L + 1 + 2)
      BY <1>5
    <3> QED
      BY <2>2, <3>1, <3>2 DEF Recorded
  <2>3. \A k \in DOMAIN Exchanges(har) : Recorded(Exchanges(har)[k], L + 1)
    BY <2>1, <2>2
  <2> QED
    BY <1>4, <1>7, <1>8, <2>3 DEF FileOK
<1>16. PageOK'
  BY <1>1, <1>4, <1>8 DEF PageOK
<1>17. BeginningOK'
  <2> SUFFICES ASSUME page.first # 1 PROVE BeginningOK'
    BY <1>1 DEF BeginningOK
  <2>1. PageIsRecorded
    BY <1>1, <1>4 DEF BeginningOK, InSync
  <2>2. PageIsRecorded'
    <3>1. page.first \in Nat /\ page.first <= L
      BY <1>4, <2>1 DEF StateOK, PageSet, PageIsRecorded, L
    <3> QED
      BY <1>1, <1>5, <1>7, <3>1 DEF PageIsRecorded
  <2> QED
    BY <1>1, <1>4, <1>8, <2>1, <2>2 DEF BeginningOK
<1> QED
  BY <1>12, <1>13, <1>14, <1>15, <1>16, <1>17 DEF IInv

LEMMA RenewKeeps ==
  ASSUME IInv, Renew
  PROVE  IInv'
<1>1. /\ page.auth + 1 \in Auths /\ page' = [page EXCEPT !.auth = @ + 1]
      /\ session' = session /\ har' = har /\ accepted' = accepted /\ sent' = sent
      /\ forms' = forms /\ lastForm' = lastForm /\ upload' = upload /\ faults' = faults
  BY DEF Renew
<1>2. StateOK /\ NumbersOK /\ EntriesOK /\ FileOK /\ PageOK /\ BeginningOK
  BY DEF IInv
<1>3. page \in PageSet
  BY <1>2 DEF StateOK
<1>4. /\ page' \in PageSet /\ page'.command = page.command
      /\ page'.where = page.where /\ page'.language = page.language
      /\ page'.next = page.next /\ page'.pending = page.pending
      /\ page'.seen = page.seen /\ page'.first = page.first
  BY <1>1, <1>3 DEF PageSet
<1>5. FormsOK'
  BY <1>1, <1>2 DEF StateOK, FormsOK
<1>6. StateOK'
  BY <1>1, <1>2, <1>4, <1>5 DEF StateOK
<1>7. NumbersOK'
  BY <1>1, <1>2, <1>4 DEF NumbersOK
<1>8. EntriesOK' /\ FileOK'
  BY <1>1, <1>2 DEF EntriesOK, FileOK
<1>9. PageOK'
  BY <1>1, <1>2, <1>4 DEF PageOK, OnPage, Follows, Brought
<1>10. BeginningOK'
  BY <1>1, <1>2, <1>4 DEF BeginningOK, PageIsRecorded
<1> QED
  BY <1>6, <1>7, <1>8, <1>9, <1>10 DEF IInv

LEMMA LoadPageKeeps ==
  ASSUME IInv, LoadPage
  PROVE  IInv'
<1>1. /\ session' = session /\ har' = har /\ accepted' = 0 /\ sent' = <<>>
      /\ forms' = {} /\ lastForm' = lastForm /\ upload' = upload /\ faults' = faults
  BY DEF LoadPage
<1>2. PICK w \in Places : page' = FreshPage(w, page.auth)
  BY DEF LoadPage
<1>3. StateOK /\ EntriesOK /\ FileOK
  BY DEF IInv
<1>4. IsSeq(<<>>) /\ Len(<<>>) = 0 /\ DOMAIN <<>> = {}
  BY EmptyIs
<1>5. Len(har) \in Nat /\ page.auth \in Auths
  BY <1>3 DEF StateOK, IsSeq, PageSet
<1>6. Command("Load", None) \in CommandSet /\ IsCommand(Command("Load", None))
  BY DEF Command, CommandSet, Names, AnyReport, IsCommand
<1>7. /\ page' \in PageSet /\ page'.command = Command("Load", None)
      /\ page'.language = FALSE /\ page'.next = 2 /\ page'.pending = 1
      /\ page'.seen = 0 /\ page'.first = Len(har) + 1
  BY <1>2, <1>5, <1>6 DEF FreshPage, PageSet
<1>8. StateOK'
  <2>1. FormsOK'
    BY <1>1, <1>3 DEF StateOK, FormsOK
  <2> QED
    BY <1>1, <1>3, <1>4, <1>6, <1>7, <2>1 DEF StateOK
<1>9. NumbersOK'
  BY <1>1, <1>4, <1>5, <1>7 DEF NumbersOK
<1>10. EntriesOK' /\ FileOK'
  BY <1>1, <1>3 DEF EntriesOK, FileOK
<1>11. PageOK'
  <2>1. \A k \in DOMAIN Exchanges(har) : Exchanges(har)[k].entry \in 1 .. Len(har)
    BY <1>3 DEF FileOK, Recorded
  <2>2. \A k \in DOMAIN Exchanges(har) : ~OnPage(Exchanges(har)[k], page')
    BY <1>5, <1>7, <2>1 DEF OnPage
  <2> QED
    BY <1>1, <2>2 DEF PageOK
<1>12. BeginningOK'
  <2>1. ~PageIsRecorded'
    BY <1>1, <1>5, <1>7 DEF PageIsRecorded
  <2> QED
    BY <1>7, <2>1 DEF BeginningOK
<1> QED
  BY <1>8, <1>9, <1>10, <1>11, <1>12 DEF IInv

LEMMA StutterKeeps ==
  ASSUME IInv, UNCHANGED vars
  PROVE  IInv'
<1>1. /\ session' = session /\ har' = har /\ page' = page /\ accepted' = accepted /\ sent' = sent
      /\ forms' = forms /\ lastForm' = lastForm /\ upload' = upload /\ faults' = faults
  BY DEF vars
<1>2. StateOK' /\ NumbersOK'
  BY <1>1 DEF IInv, StateOK, NumbersOK, FormsOK
<1>3. EntriesOK' /\ FileOK' /\ PageOK' /\ BeginningOK'
  BY <1>1 DEF IInv, EntriesOK, FileOK, PageOK, BeginningOK, PageIsRecorded
<1> QED
  BY <1>2, <1>3 DEF IInv

LEMMA NextKeeps ==
  ASSUME IInv, [Next]_vars
  PROVE  IInv'
<1>1. {"New", "Leave", "Create", "Add", "Save", "Submit", "Cancel", "CheckFile", "OK"}
        \subseteq Names
  BY DEF Names
<1>2. CASE LoadPage
  BY <1>2, LoadPageKeeps
<1>3. CASE Renew
  BY <1>3, RenewKeeps
<1>4. CASE Poll
  BY <1>4, PollKeeps
<1>5. CASE \/ ClickNew \/ Leave \/ Create \/ Add \/ Save \/ Submit \/ Cancel \/ CheckFile \/ OK
  <2>1. PICK name \in Names : \E kind : Do(name, kind)
    BY <1>1, <1>5 DEF ClickNew, Leave, Create, Add, Save, Submit, Cancel, CheckFile, OK
  <2>2. PICK kind : Do(name, kind)
    BY <2>1
  <2> QED
    BY <2>2, NamedKeeps
<1>6. ASSUME NEW r \in Reports, Open(r) PROVE IInv'
  BY <1>6, OpenKeeps
<1>7. CASE UploadFile
  BY <1>7, UploadKeeps
<1>8. CASE CloseUpload
  BY <1>8, CloseUploadKeeps
<1>9. CASE Stop \/ UNCHANGED vars
  BY <1>9, StutterKeeps DEF Stop
<1> QED
  BY <1>2, <1>3, <1>4, <1>5, <1>6, <1>7, <1>8, <1>9 DEF Next

-----------------------------------------------------------------------------
(* Which forms the messages and the commands are about.                    *)

\* A form is there, or was deleted on this page.
Known(f, fs, s) == f \in fs \/ \E i \in DOMAIN s : f \in s[i].deleted
\* What a message shows is there, or was deleted by a later one.
Told(fs, s) ==
  \A i \in DOMAIN s : \A f \in Shown(s[i]) :
    f \in fs \/ \E j \in DOMAIN s : j > i /\ f \in s[j].deleted

\* A command is on a form that was there; until Dynamics has handled it, it still is.
OnForm(c) == c.name \notin {"", "Load"}
KindOK(c) == /\ c.name = "OK" => c.root.kind = "dialog"
             /\ c.name = "Save" => c.root.kind = "details"
Aimed(n, c, handled, fs, s) ==
  /\ KindOK(c)
  /\ OnForm(c) => Known(c.root, fs, s) /\ (n > handled => c.root \in fs)

\* From any exchange of this page on, the successful ones have brought all
\* that the page has seen since, once and in order.
Wired(exs, k, at, fs, s) ==
  /\ IsSeq(exs[k].messages)
  /\ OnPage(exs[k], at) =>
       /\ Slice(MessagesOf(SucceededOf(RestOf(exs, k))), s, exs[k].ack, at.seen)
       /\ k = Len(exs) /\ Succeeded(exs[k]) => at.seen = Len(s)
       /\ OnForm(exs[k].command) => Known(exs[k].command.root, fs, s)

\* Unless an answer was lost, the page has seen all that was sent.
SeenOK == (page.pending = 0 \/ accepted < page.pending) => page.seen = Len(sent)
CommandOK == Aimed(page.pending, page.command, accepted, forms, sent)
WireOK == \A k \in DOMAIN Exchanges(har) : Wired(Exchanges(har), k, page, forms, sent)

FormsInv == SeenOK /\ Told(forms, sent) /\ CommandOK /\ WireOK

(* What an answer shows again is there, and stays.                         *)
LEMMA ShownStays ==
  ASSUME NEW c, IsCommand(c), KindOK(c), OnForm(c) => c.root \in forms
  PROVE  \A f \in Answer(c).shown : f \in forms \ Answer(c).deleted
<1>1. c.name \in Names
  BY DEF IsCommand, CommandSet
<1>2. Quiet.shown = {} /\ Quiet.deleted = {}
  BY DEF Quiet
<1>3. CASE c.name = "Add"
  <2>1. Answer(c) = [Quiet EXCEPT !.made = {New("dialog", c.root.report)}, !.shown = {c.root}]
    BY <1>3 DEF Answer
  <2>2. Answer(c).shown = {c.root} /\ Answer(c).deleted = {}
    BY <2>1 DEF Quiet
  <2>3. c.root \in forms
    BY <1>3 DEF OnForm
  <2> QED
    BY <2>2, <2>3
<1>4. CASE c.name = "OK"
  <2> DEFINE details == {g \in forms : g.kind = "details" /\ g.report = c.root.report}
  <2>1. PICK statuses, counts :
          Answer(c) = [Quiet EXCEPT !.deleted = {c.root}, !.shown = details,
                                    !.statuses = statuses, !.counts = counts]
    BY <1>4 DEF Answer
  <2>2. Answer(c).shown = details /\ Answer(c).deleted = {c.root}
    BY <2>1 DEF Quiet
  <2>3. c.root.kind = "dialog"
    BY <1>4 DEF KindOK
  <2> QED
    BY <2>2, <2>3
<1>5. CASE c.name = "Save"
  <2> DEFINE shown == {g \in forms : g.kind = "workspace"}
  <2>1. Answer(c) = [Quiet EXCEPT !.deleted = {c.root}, !.shown = shown, !.listed = AllReports]
    BY <1>5 DEF Answer
  <2>2. Answer(c).shown = shown /\ Answer(c).deleted = {c.root}
    BY <2>1 DEF Quiet
  <2>3. c.root.kind = "details"
    BY <1>5 DEF KindOK
  <2> QED
    BY <2>2, <2>3
<1>6. CASE c.name = "Load"
  <2>1. Answer(c) = [Quiet EXCEPT !.made = {New("workspace", NoReport)}]
    BY <1>6 DEF Answer
  <2>2. Answer(c).shown = {}
    BY <2>1 DEF Quiet
  <2> QED
    BY <2>2
<1>7. CASE c.name = "New"
  <2>1. Answer(c) = [Quiet EXCEPT !.made = {New("new", NoReport)}]
    BY <1>7 DEF Answer
  <2>2. Answer(c).shown = {}
    BY <2>1 DEF Quiet
  <2> QED
    BY <2>2
<1>8. CASE c.name = "Create"
  <2>1. PICK statuses, counts :
          Answer(c) = [[Quiet EXCEPT !.made = {New("details", Created)}, !.statuses = statuses,
                                     !.counts = counts] EXCEPT !.deleted = {c.root}]
    BY <1>8 DEF Answer
  <2>2. Answer(c).shown = {}
    BY <2>1 DEF Quiet
  <2> QED
    BY <2>2
<1>9. CASE c.name = "Open"
  <2>1. PICK statuses, counts :
          Answer(c) = [Quiet EXCEPT !.made = {New("details", c.report)}, !.statuses = statuses,
                                    !.counts = counts]
    BY <1>9 DEF Answer
  <2>2. Answer(c).shown = {}
    BY <2>1 DEF Quiet
  <2> QED
    BY <2>2
<1>10. CASE c.name \in {"Cancel", "Leave"}
  <2>1. Answer(c) = [Quiet EXCEPT !.deleted = {c.root}]
    BY <1>10 DEF Answer
  <2>2. Answer(c).shown = {}
    BY <2>1 DEF Quiet
  <2> QED
    BY <2>2
<1>11. CASE c.name \in {"", "Submit", "CheckFile", "CloseUpload"}
  <2>1. Answer(c) = Quiet
    BY <1>11 DEF Answer
  <2> QED
    BY <1>2, <2>1
<1> QED
  BY <1>1, <1>3, <1>4, <1>5, <1>6, <1>7, <1>8, <1>9, <1>10, <1>11 DEF Names

(* A request leaves every form that was known known.                       *)
LEMMA CarriedIs ==
  ASSUME NEW n, NEW c, IsCommand(c), Aimed(n, c, accepted, forms, sent),
         NEW e, NEW parsed, Carried(n, c, e, parsed), IsSeq(sent), Told(forms, sent)
  PROVE  /\ Told(forms', sent')
         /\ \A f : Known(f, forms, sent) => Known(f, forms', sent')
         /\ IsSeq(sent') /\ Len(sent') \in Nat /\ Len(sent) <= Len(sent')
         /\ \A i \in 1 .. Len(sent) : sent'[i] = sent[i]
<1> DEFINE M == Len(sent)
           a == Answer(c)
<1>1. M \in Nat /\ DOMAIN sent = 1 .. M
  BY DEF IsSeq
<1>2. CASE accepted' = accepted /\ sent' = sent /\ forms' = forms
  BY <1>1, <1>2
<1>3. CASE /\ n > accepted /\ accepted' = n /\ sent' = Append(sent, a)
           /\ forms' = (forms \ a.deleted) \cup a.made
  <2>1. /\ IsSeq(sent') /\ Len(sent') = M + 1 /\ DOMAIN sent' = 1 .. (M + 1)
        /\ \A i \in 1 .. M : sent'[i] = sent[i]
        /\ sent'[M + 1] = a
    <3> HIDE DEF a
    <3> QED
      BY <1>3, AppendIs
  <2>2. \A f \in a.shown : f \in forms \ a.deleted
    BY <1>3, ShownStays DEF Aimed
  <2>3. \A f \in Shown(a) : f \in forms'
    BY <1>3, <2>2 DEF Shown
  <2> HIDE DEF a
  <2>4. \A f \in forms : f \in forms' \/ f \in sent'[M + 1].deleted
    BY <1>3, <2>1
  <2> HIDE DEF M
  <2>5. M + 1 \in 1 .. (M + 1) /\ \A i \in 1 .. M : i \in 1 .. (M + 1) /\ M + 1 > i
    BY <1>1
  <2>6. ASSUME NEW f, Known(f, forms, sent) PROVE Known(f, forms', sent')
    <3>1. CASE f \in forms
      BY <2>1, <2>4, <2>5, <3>1 DEF Known
    <3>2. ASSUME NEW i \in DOMAIN sent, f \in sent[i].deleted PROVE Known(f, forms', sent')
      <4>1. i \in DOMAIN sent' /\ sent'[i] = sent[i]
        BY <1>1, <2>1, <2>5
      <4> QED
        BY <3>2, <4>1 DEF Known
    <3> QED
      BY <2>6, <3>1, <3>2 DEF Known
  <2>7. ASSUME NEW i \in DOMAIN sent', NEW f \in Shown(sent'[i])
        PROVE  f \in forms' \/ \E j \in DOMAIN sent' : j > i /\ f \in sent'[j].deleted
    <3>1. CASE i = M + 1
      BY <2>1, <2>3, <3>1
    <3>2. CASE i # M + 1
      <4>1. i \in 1 .. M /\ sent'[i] = sent[i]
        BY <1>1, <2>1, <3>2
      <4>2. f \in forms \/ \E j \in DOMAIN sent : j > i /\ f \in sent[j].deleted
        BY <1>1, <4>1 DEF Told
      <4>3. CASE f \in forms
        BY <2>1, <2>4, <2>5, <4>1, <4>3
      <4>4. ASSUME NEW j \in DOMAIN sent, j > i, f \in sent[j].deleted
            PROVE  \E k \in DOMAIN sent' : k > i /\ f \in sent'[k].deleted
        <5>1. j \in DOMAIN sent' /\ sent'[j] = sent[j]
          BY <1>1, <2>1, <2>5
        <5> QED
          BY <4>4, <5>1
      <4> QED
        BY <4>2, <4>3, <4>4
    <3> QED
      BY <3>1, <3>2
  <2>8. Told(forms', sent')
    BY <2>7 DEF Told
  <2>9. M + 1 \in Nat /\ M <= M + 1
    BY <1>1
  <2> QED
    BY <2>1, <2>6, <2>8, <2>9 DEF M
<1> QED
  BY <1>2, <1>3 DEF Carried

(* A slice stays one when more is sent.                                    *)
LEMMA SliceStays ==
  ASSUME NEW ms, NEW s, NEW t, NEW a \in Nat, NEW b \in Nat, NEW m \in Nat, b <= m,
         \A i \in 1 .. m : t[i] = s[i], Slice(ms, s, a, b)
  PROVE  Slice(ms, t, a, b)
<1>1. ASSUME NEW i \in 1 .. (b - a) PROVE ms[i] = t[a + i]
  <2>1. a + i \in 1 .. m
    OBVIOUS
  <2>2. ms[i] = s[a + i]
    BY DEF Slice
  <2> QED
    BY <2>1, <2>2
<1> QED
  BY <1>1 DEF Slice

(* A request keeps the invariant on forms.                                 *)
LEMMA CarriedKeeps ==
  ASSUME IInv, IInv', FormsInv, NEW n, NEW c, Sends(n, c), Aimed(n, c, accepted, forms, sent),
         NEW e, NEW parsed \in BOOLEAN, Requested(n, c, e, parsed), Carried(n, c, e, parsed)
  PROVE  FormsInv'
<1> DEFINE E == Exchanges(har)
           D == Exchanges(har')
           N == Len(E)
           M == Len(sent)
           K == Len(sent')
<1>1. /\ har' = Append(har, e) /\ e.type = "exchange"
      /\ e.sent = n /\ e.ack = page.seen /\ e.acked = accepted'
      /\ Parsed(e) <=> parsed
      /\ ~parsed => e.messages = <<>>
      /\ parsed => e.messages = SubSeq(sent', page.seen + 1, Len(sent'))
      /\ page'.first = page.first
      /\ page'.pending = (IF parsed /\ accepted' >= n THEN 0 ELSE n)
      /\ page'.seen = (IF parsed THEN Len(sent') ELSE page.seen)
  BY DEF Requested
<1>2. /\ e.command = c
      /\ page'.command = (IF parsed /\ accepted' >= n THEN NoCommand ELSE c)
      /\ \/ accepted' = accepted /\ sent' = sent /\ forms' = forms
         \/ n > accepted /\ accepted' = n
  BY DEF Carried
<1>3. /\ StateOK /\ NumbersOK /\ FileOK
  BY DEF IInv
<1>4. /\ IsSeq(har) /\ IsSeq(sent) /\ page \in PageSet /\ accepted \in Nat
  BY <1>3 DEF StateOK
<1>5. /\ page.seen \in Nat /\ page.pending \in Nat /\ page.next \in Nat /\ M \in Nat
      /\ page.seen <= M /\ accepted < page.next
  BY <1>3, <1>4 DEF PageSet, IsSeq, NumbersOK
<1>6. IsCommand(c) /\ (n = page.pending \/ (n = page.next /\ page.pending = 0)) /\ n \in Nat
  BY <1>5 DEF Sends
<1>7. /\ Told(forms', sent')
      /\ \A f : Known(f, forms, sent) => Known(f, forms', sent')
      /\ IsSeq(sent') /\ K \in Nat /\ M <= K
      /\ \A i \in 1 .. M : sent'[i] = sent[i]
  BY <1>4, <1>6, CarriedIs DEF FormsInv
<1>8. IsSeq(E) /\ DOMAIN E = 1 .. N /\ N \in Nat /\ \A k \in 1 .. N : E[k].ack \in Nat
  <2>1. IsSeq(E) /\ \A k \in DOMAIN E : Recorded(E[k], Len(har))
    BY <1>3 DEF FileOK
  <2> HIDE DEF E
  <2> QED
    BY <2>1 DEF Recorded, IsSeq
<1>9. D = Append(E, e)
  <2>1. IsExchange(e)
    BY <1>1 DEF IsExchange
  <2>2. Exchanges(Append(har, e)) = Append(E, e)
    BY <1>4, <2>1, ExchangesOfAppend
  <2> QED
    BY <1>1, <2>2
<1> HIDE DEF E, D
<1>10. /\ Len(D) = N + 1 /\ DOMAIN D = 1 .. (N + 1)
       /\ \A k \in 1 .. N : D[k] = E[k]
       /\ D[N + 1] = e
  BY <1>8, <1>9, AppendIs
<1> HIDE DEF M, N, K
<1>11. (n > accepted' \/ n = 0) => page.seen = M
  <2>1. SeenOK
    BY DEF FormsInv
  <2>2. (n > accepted' \/ n = 0) => page.pending = 0 \/ accepted < page.pending
    BY <1>2, <1>4, <1>5, <1>6
  <2> QED
    BY <2>1, <2>2 DEF SeenOK, M
<1>12. (n > accepted' \/ n = 0) => accepted' = accepted /\ sent' = sent /\ forms' = forms /\ K = M
  <2>1. (n > accepted' \/ n = 0) => accepted' = accepted /\ sent' = sent /\ forms' = forms
    BY <1>2, <1>4, <1>6
  <2> QED
    BY <2>1 DEF K, M
<1>13. SeenOK'
  <2>1. CASE parsed
    BY <1>1, <2>1 DEF SeenOK
  <2>2. CASE ~parsed
    <3>1. page'.pending = n /\ page'.seen = page.seen
      BY <1>1, <2>2
    <3>2. (n = 0 \/ accepted' < n) => page.seen = K
      BY <1>4, <1>6, <1>11, <1>12
    <3> QED
      BY <3>1, <3>2 DEF SeenOK, K
  <2> QED
    BY <2>1, <2>2
<1>14. CommandOK'
  <2>1. CASE page'.command = NoCommand
    <3>1. NoCommand.name = ""
      BY DEF NoCommand, Command
    <3>2. KindOK(NoCommand) /\ ~OnForm(NoCommand)
      BY <3>1 DEF KindOK, OnForm
    <3> QED
      BY <2>1, <3>2 DEF CommandOK, Aimed
  <2>2. CASE page'.command = c /\ page'.pending = n
    <3>1. KindOK(c)
      BY DEF Aimed
    <3>2. OnForm(c) => Known(c.root, forms', sent')
      BY <1>7 DEF Aimed
    <3>3. OnForm(c) /\ n > accepted' => c.root \in forms'
      <4>1. n > accepted' => n > accepted /\ forms' = forms
        BY <1>12
      <4> QED
        BY <4>1 DEF Aimed
    <3> QED
      BY <2>2, <3>1, <3>2, <3>3 DEF CommandOK, Aimed
  <2> QED
    BY <1>1, <1>2, <2>1, <2>2
<1>15. page.seen + 1 \in 1 .. (K + 1)
  BY <1>5, <1>7
<1> DEFINE x == SubSeq(sent', page.seen + 1, Len(sent'))
<1>16. /\ IsSeq(x) /\ Len(x) = K - page.seen
       /\ \A i \in 1 .. (K - page.seen) : x[i] = sent'[page.seen + i]
  <2> DEFINE m == page.seen + 1
  <2>1. m \in 1 .. (Len(sent') + 1)
    BY <1>15 DEF K
  <2>2. m \in Nat
    BY <1>5
  <2> HIDE DEF m
  <2>3. /\ IsSeq(SubSeq(sent', m, Len(sent')))
        /\ Len(SubSeq(sent', m, Len(sent'))) = Len(sent') - m + 1
        /\ \A i \in 1 .. (Len(sent') - m + 1) : SubSeq(sent', m, Len(sent'))[i] = sent'[m + i - 1]
    BY <1>7, <2>1, RestIs
  <2> HIDE DEF x
  <2>4. x = SubSeq(sent', m, Len(sent'))
    BY DEF x, m
  <2>5. Len(sent') - m + 1 = K - page.seen
    BY <1>5, <1>7 DEF K, m
  <2>6. \A i \in 1 .. (K - page.seen) : m + i - 1 = page.seen + i
    BY <1>5, <1>7 DEF m
  <2> QED
    BY <2>3, <2>4, <2>5, <2>6
<1>17. parsed => e.messages = x
  BY <1>1
<1> HIDE DEF x
<1>18. IsSeq(e.messages)
  BY <1>1, <1>16, <1>17, EmptyIs
<1>19. Succeeded(e) => Slice(e.messages, sent', page.seen, page'.seen) /\ page'.seen = K
  <2> SUFFICES ASSUME Succeeded(e)
               PROVE  Slice(e.messages, sent', page.seen, page'.seen) /\ page'.seen = K
    OBVIOUS
  <2>1. parsed
    BY <1>1 DEF Succeeded
  <2>2. page'.seen = K /\ e.messages = x
    BY <1>1, <1>17, <2>1 DEF K
  <2> QED
    BY <1>16, <2>2 DEF Slice
<1>20. ~Succeeded(e) => page'.seen = page.seen
  <2> SUFFICES ASSUME ~Succeeded(e), parsed PROVE page'.seen = page.seen
    BY <1>1
  <2>1. n > accepted'
    <3>1. ~(accepted' >= n)
      BY <1>1 DEF Succeeded
    <3>2. accepted' \in Nat
      BY <1>2, <1>4, <1>6
    <3> QED
      BY <1>6, <3>1, <3>2
  <2>2. page'.seen = K
    BY <1>1 DEF K
  <2> QED
    BY <1>11, <1>12, <2>1, <2>2
<1>21. page'.seen \in Nat /\ page.seen <= page'.seen
  BY <1>1, <1>5, <1>7, <1>19, <1>20
<1>22. \A k \in 1 .. N : Wired(E, k, page, forms, sent)
  BY <1>8 DEF FormsInv, WireOK, E
<1>23. ASSUME NEW k \in 1 .. N PROVE Wired(D, k, page', forms', sent')
  <2> DEFINE R == RestOf(E, k)
             ms == MessagesOf(SucceededOf(R))
             mt == MessagesOf(SucceededOf(RestOf(D, k)))
  <2>1. Wired(E, k, page, forms, sent) /\ D[k] = E[k]
    BY <1>10, <1>22
  <2>2. IsSeq(R) /\ \A i \in DOMAIN R : IsSeq(R[i].messages)
    <3>1. k \in 1 .. (Len(E) + 1)
      BY <1>8 DEF N
    <3>2. /\ IsSeq(R) /\ DOMAIN R = 1 .. (N - k + 1)
          /\ \A i \in 1 .. (N - k + 1) : R[i] = E[k + i - 1]
      BY <1>8, <3>1, RestIs DEF RestOf, N
    <3> HIDE DEF R
    <3>3. ASSUME NEW i \in 1 .. (N - k + 1) PROVE IsSeq(R[i].messages)
      <4>1. k + i - 1 \in 1 .. N
        BY <1>8
      <4> QED
        BY <1>22, <3>2, <4>1 DEF Wired
    <3> QED
      BY <3>2, <3>3
  <2>3. RestOf(D, k) = Append(R, e)
    <3>1. k \in 1 .. (Len(E) + 1) /\ k # Len(E) + 1
      BY <1>8 DEF N
    <3> QED
      BY <1>8, <1>9, <3>1, RestOfAppend
  <2> HIDE DEF R
  <2>4. mt = IF Succeeded(e) THEN ms \o e.messages ELSE ms
    BY <1>18, <2>2, <2>3, WireOfAppend
  <2> HIDE DEF ms, mt
  <2> SUFFICES ASSUME OnPage(D[k], page')
               PROVE  /\ Slice(mt, sent', E[k].ack, page'.seen)
                      /\ OnForm(E[k].command) => Known(E[k].command.root, forms', sent')
    <3>1. k # N + 1
      BY <1>8
    <3> QED
      BY <1>10, <2>1, <3>1 DEF Wired, mt
  <2>5. OnPage(E[k], page)
    BY <1>1, <2>1 DEF OnPage
  <2>6. /\ Slice(ms, sent, E[k].ack, page.seen)
        /\ OnForm(E[k].command) => Known(E[k].command.root, forms, sent)
    BY <2>1, <2>5 DEF Wired, ms, R
  <2>7. E[k].ack \in Nat /\ E[k].ack <= page.seen
    <3>1. PageOK
      BY DEF IInv
    <3>2. Follows(E[k], page, accepted)
      BY <1>8, <2>5, <3>1 DEF PageOK, E
    <3> QED
      BY <1>8, <3>2 DEF Follows
  <2>8. Slice(ms, sent', E[k].ack, page.seen)
    BY <1>5, <1>7, <2>6, <2>7, SliceStays
  <2>9. Slice(mt, sent', E[k].ack, page'.seen)
    <3>1. CASE Succeeded(e)
      BY <1>5, <1>19, <1>21, <2>4, <2>7, <2>8, <3>1, SlicesJoin
    <3>2. CASE ~Succeeded(e)
      BY <1>20, <2>4, <2>8, <3>2
    <3> QED
      BY <3>1, <3>2
  <2> QED
    BY <1>7, <2>6, <2>9
<1>24. Wired(D, N + 1, page', forms', sent')
  <2> DEFINE z == <<>>
             mt == MessagesOf(SucceededOf(RestOf(D, N + 1)))
  <2>1. /\ IsSeq(z) /\ Len(z) = 0 /\ DOMAIN z = {} /\ SucceededOf(z) = z /\ MessagesOf(z) = z
    BY EmptyIs, SucceededOfNone, MessagesOfNone
  <2>2. RestOf(D, N + 1) = Append(z, e)
    <3>1. N + 1 \in 1 .. (Len(E) + 1) /\ N + 1 = Len(E) + 1
      BY <1>8 DEF N
    <3> QED
      BY <1>8, <1>9, <3>1, RestOfAppend
  <2> HIDE DEF z
  <2>3. mt = IF Succeeded(e) THEN z \o e.messages ELSE z
    <3>1. MessagesOf(SucceededOf(z)) = z
      BY <2>1
    <3>2. \A i \in DOMAIN z : IsSeq(z[i].messages)
      BY <2>1
    <3>3. MessagesOf(SucceededOf(Append(z, e)))
            = IF Succeeded(e) THEN MessagesOf(SucceededOf(z)) \o e.messages
              ELSE MessagesOf(SucceededOf(z))
      BY <1>18, <2>1, <3>2, WireOfAppend
    <3> QED
      BY <2>2, <3>1, <3>3
  <2> HIDE DEF mt
  <2>4. Slice(z, sent', page.seen, page.seen)
    <3>1. page.seen - page.seen = 0 /\ 1 .. 0 = {}
      BY <1>5
    <3> QED
      BY <2>1, <3>1 DEF Slice
  <2>5. Slice(mt, sent', page.seen, page'.seen)
    <3>1. CASE Succeeded(e)
      <4>1. page.seen <= page.seen
        BY <1>5
      <4> QED
        BY <1>5, <1>19, <1>21, <2>3, <2>4, <3>1, <4>1, SlicesJoin
    <3>2. CASE ~Succeeded(e)
      BY <1>20, <2>3, <2>4, <3>2
    <3> QED
      BY <3>1, <3>2
  <2>6. Succeeded(e) => page'.seen = Len(sent')
    BY <1>19 DEF K
  <2>7. OnForm(c) => Known(c.root, forms', sent')
    BY <1>7 DEF Aimed
  <2> QED
    BY <1>1, <1>2, <1>10, <1>18, <2>5, <2>6, <2>7 DEF Wired, mt
<1>25. WireOK'
  <2>1. ASSUME NEW k \in 1 .. (N + 1) PROVE Wired(D, k, page', forms', sent')
    <3>1. k \in 1 .. N \/ k = N + 1
      BY <1>8
    <3> QED
      BY <1>23, <1>24, <3>1
  <2> QED
    BY <1>10, <2>1 DEF WireOK, D
<1> QED
  BY <1>7, <1>13, <1>14, <1>25 DEF FormsInv

LEMMA RequestKeepsForms ==
  ASSUME IInv, IInv', FormsInv, NEW n, NEW c, Sends(n, c), Aimed(n, c, accepted, forms, sent),
         Request(n, c)
  PROVE  FormsInv'
<1>1. PICK e : \E parsed \in BOOLEAN : Requested(n, c, e, parsed) /\ Carried(n, c, e, parsed)
  BY RequestIs DEF IInv
<1>2. PICK parsed \in BOOLEAN : Requested(n, c, e, parsed) /\ Carried(n, c, e, parsed)
  BY <1>1
<1> QED
  BY <1>2, CarriedKeeps

LEMMA DoKeepsForms ==
  ASSUME IInv, IInv', FormsInv, NEW name \in Names, NEW file \in Nat, NEW report \in AnyReport,
         InSync, Top.kind # "none",
         name = "OK" => Top.kind = "dialog", name = "Save" => Top.kind = "details",
         Request(page.next, [name |-> name, root |-> Top, file |-> file, report |-> report])
  PROVE  FormsInv'
<1> DEFINE c == [name |-> name, root |-> Top, file |-> file, report |-> report]
<1>1. Top \in FormSet /\ Top \in forms
  BY TopIs DEF IInv, StateOK
<1>2. IsCommand(c)
  BY <1>1 DEF IsCommand, CommandSet
<1>3. Request(page.next, c)
  OBVIOUS
<1>4. c.name = name /\ c.root = Top
  OBVIOUS
<1> HIDE DEF c
<1>5. Sends(page.next, c)
  BY <1>2 DEF Sends, InSync
<1>6. KindOK(c)
  BY <1>4 DEF KindOK
<1>7. Aimed(page.next, c, accepted, forms, sent)
  BY <1>1, <1>4, <1>6 DEF Aimed, Known
<1> QED
  BY <1>3, <1>5, <1>7, RequestKeepsForms

LEMMA NamedKeepsForms ==
  ASSUME IInv, IInv', FormsInv, NEW name \in Names, NEW kind, kind # "none",
         name = "OK" => kind = "dialog", name = "Save" => kind = "details", Do(name, kind)
  PROVE  FormsInv'
<1>1. InSync /\ Top.kind = kind /\ Request(page.next, Command(name, Top))
  BY DEF Do
<1>2. Command(name, Top) = [name |-> name, root |-> Top, file |-> 0, report |-> NoReport]
  BY DEF Command
<1>3. NoReport \in AnyReport
  BY DEF AnyReport
<1>4. Request(page.next, [name |-> name, root |-> Top, file |-> 0, report |-> NoReport])
  BY <1>1, <1>2
<1> QED
  BY <1>1, <1>3, <1>4, DoKeepsForms

LEMMA OpenKeepsForms ==
  ASSUME IInv, IInv', FormsInv, NEW r \in Reports, Open(r)
  PROVE  FormsInv'
<1> DEFINE d == Command("Open", Top)
<1>1. InSync /\ Top.kind = "workspace" /\ Request(page.next, [d EXCEPT !.report = r])
  BY DEF Open
<1>2. [d EXCEPT !.report = r] = [name |-> "Open", root |-> Top, file |-> 0, report |-> r]
  <2>1. d \in [name : {"Open"}, root : {Top}, file : {0}, report : {NoReport}]
    BY DEF Command
  <2> HIDE DEF d
  <2> QED
    BY <2>1
<1>3. r \in AnyReport /\ "Open" \in Names
  BY DEF AnyReport, AllReports, Names
<1>4. Request(page.next, [name |-> "Open", root |-> Top, file |-> 0, report |-> r])
  BY <1>1, <1>2
<1> QED
  BY <1>1, <1>3, <1>4, DoKeepsForms

LEMMA CloseUploadKeepsForms ==
  ASSUME IInv, IInv', FormsInv, CloseUpload
  PROVE  FormsInv'
<1> DEFINE d == Command("CloseUpload", Top)
<1>1. InSync /\ Top.kind = "dialog" /\ Request(page.next, [d EXCEPT !.file = upload.file])
  BY DEF CloseUpload
<1>2. [d EXCEPT !.file = upload.file]
        = [name |-> "CloseUpload", root |-> Top, file |-> upload.file, report |-> NoReport]
  <2>1. d \in [name : {"CloseUpload"}, root : {Top}, file : {0}, report : {NoReport}]
    BY DEF Command
  <2> HIDE DEF d
  <2> QED
    BY <2>1
<1>3. NoReport \in AnyReport /\ "CloseUpload" \in Names /\ upload.file \in Nat
  BY DEF AnyReport, Names, IInv, StateOK, UploadSet
<1>4. Request(page.next, [name |-> "CloseUpload", root |-> Top, file |-> upload.file,
                          report |-> NoReport])
  BY <1>1, <1>2
<1> QED
  BY <1>1, <1>3, <1>4, DoKeepsForms

LEMMA PollKeepsForms ==
  ASSUME IInv, IInv', FormsInv, Poll
  PROVE  FormsInv'
<1>1. Request(page.pending, page.command)
  BY DEF Poll
<1>2. Sends(page.pending, page.command)
  BY DEF Sends, IInv, StateOK
<1>3. Aimed(page.pending, page.command, accepted, forms, sent)
  BY DEF FormsInv, CommandOK
<1> QED
  BY <1>1, <1>2, <1>3, RequestKeepsForms

(* What neither sends nor records an exchange leaves it alone.             *)
LEMMA OthersKeepForms ==
  ASSUME FormsInv, Exchanges(har') = Exchanges(har), accepted' = accepted, sent' = sent,
         forms' = forms, page'.command = page.command, page'.pending = page.pending,
         page'.seen = page.seen, page'.first = page.first
  PROVE  FormsInv'
<1>1. SeenOK'
  BY DEF FormsInv, SeenOK
<1>2. Told(forms', sent')
  BY DEF FormsInv
<1>3. CommandOK'
  BY DEF FormsInv, CommandOK
<1>4. WireOK'
  <2> DEFINE E == Exchanges(har)
  <2>1. \A k \in DOMAIN E : Wired(E, k, page, forms, sent)
    BY DEF FormsInv, WireOK
  <2> HIDE DEF E
  <2>2. \A k \in DOMAIN E : Wired(E, k, page', forms, sent)
    BY <2>1 DEF Wired, OnPage
  <2> QED
    BY <2>2 DEF WireOK, E
<1> QED
  BY <1>1, <1>2, <1>3, <1>4 DEF FormsInv

LEMMA UploadKeepsForms ==
  ASSUME IInv, FormsInv, UploadFile
  PROVE  FormsInv'
<1>1. page' = page /\ accepted' = accepted /\ sent' = sent /\ forms' = forms
  BY DEF UploadFile
<1>2. PICK e : har' = Append(har, e) /\ e.type = "upload"
  BY DEF UploadFile
<1>3. IsSeq(har)
  BY DEF IInv, StateOK
<1>4. Exchanges(har') = Exchanges(har)
  <2>1. ~IsExchange(e)
    BY <1>2 DEF IsExchange
  <2> QED
    BY <1>2, <1>3, <2>1, ExchangesOfAppend
<1> QED
  BY <1>1, <1>4, OthersKeepForms

LEMMA RenewKeepsForms ==
  ASSUME IInv, FormsInv, Renew
  PROVE  FormsInv'
<1>1. /\ page' = [page EXCEPT !.auth = @ + 1]
      /\ har' = har /\ accepted' = accepted /\ sent' = sent /\ forms' = forms
  BY DEF Renew
<1>2. page \in PageSet
  BY DEF IInv, StateOK
<1>3. /\ page'.command = page.command /\ page'.pending = page.pending
      /\ page'.seen = page.seen /\ page'.first = page.first
  BY <1>1, <1>2 DEF PageSet
<1>4. Exchanges(har') = Exchanges(har)
  BY <1>1
<1> QED
  BY <1>1, <1>3, <1>4, OthersKeepForms

\* On a page without exchanges there is nothing to know yet.
LEMMA FreshForms ==
  ASSUME page.seen = 0, sent = <<>>, page.command.name \in {"", "Load"},
         \A k \in DOMAIN Exchanges(har) :
           IsSeq(Exchanges(har)[k].messages) /\ ~OnPage(Exchanges(har)[k], page)
  PROVE  FormsInv
<1>1. Len(sent) = 0 /\ DOMAIN sent = {}
  BY EmptyIs
<1>2. SeenOK
  BY <1>1 DEF SeenOK
<1>3. Told(forms, sent)
  BY <1>1 DEF Told
<1>4. CommandOK
  BY DEF CommandOK, Aimed, KindOK, OnForm
<1>5. WireOK
  BY DEF WireOK, Wired
<1> QED
  BY <1>2, <1>3, <1>4, <1>5 DEF FormsInv

LEMMA InitForms == Init => FormsInv
<1> SUFFICES ASSUME Init PROVE FormsInv
  OBVIOUS
<1>1. har = <<>> /\ sent = <<>> /\ page.seen = 0 /\ page.command.name \in {"", "Load"}
  <2>1. \/ page = FreshPage(Home, 0)
        \/ page = [FreshPage(Home, 0) EXCEPT !.language = TRUE, !.next = 1, !.pending = 0,
                                             !.command = NoCommand]
    BY DEF Init
  <2>2. /\ FreshPage(Home, 0).seen = 0
        /\ FreshPage(Home, 0).command.name = "Load" /\ NoCommand.name = ""
    BY DEF FreshPage, Command, NoCommand
  <2>3. CASE page = FreshPage(Home, 0)
    BY <2>2, <2>3 DEF Init
  <2>4. CASE page = [FreshPage(Home, 0) EXCEPT !.language = TRUE, !.next = 1, !.pending = 0,
                                               !.command = NoCommand]
    <3>1. page.seen = 0 /\ page.command = NoCommand
      BY <2>4 DEF FreshPage
    <3> QED
      BY <2>2, <3>1 DEF Init
  <2> QED
    BY <2>1, <2>3, <2>4
<1>2. DOMAIN Exchanges(har) = {}
  BY <1>1, ExchangesOfEmpty, EmptyIs
<1> QED
  BY <1>1, <1>2, FreshForms

LEMMA LoadPageKeepsForms ==
  ASSUME IInv, FormsInv, LoadPage
  PROVE  FormsInv'
<1>1. har' = har /\ accepted' = 0 /\ sent' = <<>> /\ forms' = {}
  BY DEF LoadPage
<1>2. PICK w \in Places : page' = FreshPage(w, page.auth)
  BY DEF LoadPage
<1>3. page'.seen = 0 /\ page'.first = Len(har) + 1 /\ page'.command.name = "Load"
  BY <1>2 DEF FreshPage, Command
<1>4. Len(har) \in Nat
  BY DEF IInv, StateOK, IsSeq
<1> DEFINE E == Exchanges(har)
<1>5. \A k \in DOMAIN E : IsSeq(E[k].messages) /\ E[k].entry \in 1 .. Len(har)
  BY DEF FormsInv, WireOK, Wired, IInv, FileOK, Recorded
<1> HIDE DEF E
<1>6. \A k \in DOMAIN E : IsSeq(E[k].messages) /\ ~OnPage(E[k], page')
  BY <1>3, <1>4, <1>5 DEF OnPage
<1>7. Len(sent') = 0 /\ DOMAIN sent' = {}
  BY <1>1, EmptyIs
<1>8. SeenOK'
  BY <1>3, <1>7 DEF SeenOK
<1>9. Told(forms', sent')
  BY <1>7 DEF Told
<1>10. CommandOK'
  BY <1>3 DEF CommandOK, Aimed, KindOK, OnForm
<1>11. WireOK'
  <2>1. \A k \in DOMAIN E : Wired(E, k, page', forms', sent')
    BY <1>6 DEF Wired
  <2> QED
    BY <1>1, <2>1 DEF WireOK, E
<1> QED
  BY <1>8, <1>9, <1>10, <1>11 DEF FormsInv

LEMMA NextKeepsForms ==
  ASSUME IInv, FormsInv, [Next]_vars
  PROVE  FormsInv'
<1>0. IInv'
  BY NextKeeps
<1>1. CASE LoadPage
  BY <1>1, LoadPageKeepsForms
<1>2. CASE Renew
  BY <1>2, RenewKeepsForms
<1>3. CASE Poll
  BY <1>0, <1>3, PollKeepsForms
<1>4. CASE \/ ClickNew \/ Leave \/ Create \/ Add \/ Save \/ Submit \/ Cancel \/ CheckFile \/ OK
  <2>1. \/ Do("New", "workspace") \/ Do("Leave", "workspace") \/ Do("Create", "new")
        \/ Do("Add", "details") \/ Do("Save", "details") \/ Do("Submit", "details")
        \/ Do("Cancel", "dialog") \/ Do("Cancel", "new") \/ Do("CheckFile", "dialog")
        \/ Do("OK", "dialog")
    BY <1>4 DEF ClickNew, Leave, Create, Add, Save, Submit, Cancel, CheckFile, OK
  <2>2. PICK name \in Names : \E kind : /\ kind # "none"
                                        /\ name = "OK" => kind = "dialog"
                                        /\ name = "Save" => kind = "details"
                                        /\ Do(name, kind)
    <3>1. {"New", "Leave", "Create", "Add", "Save", "Submit", "Cancel", "CheckFile", "OK"}
            \subseteq Names
      BY DEF Names
    <3> QED
      BY <2>1, <3>1
  <2>3. PICK kind : /\ kind # "none"
                    /\ name = "OK" => kind = "dialog"
                    /\ name = "Save" => kind = "details"
                    /\ Do(name, kind)
    BY <2>2
  <2> QED
    BY <1>0, <2>3, NamedKeepsForms
<1>5. ASSUME NEW r \in Reports, Open(r) PROVE FormsInv'
  BY <1>0, <1>5, OpenKeepsForms
<1>6. CASE UploadFile
  BY <1>6, UploadKeepsForms
<1>7. CASE CloseUpload
  BY <1>0, <1>7, CloseUploadKeepsForms
<1>8. CASE Stop \/ UNCHANGED vars
  <2>1. har' = har /\ page' = page /\ accepted' = accepted /\ sent' = sent /\ forms' = forms
    BY <1>8 DEF Stop, vars
  <2> QED
    BY <2>1, OthersKeepForms
<1> QED
  BY <1>1, <1>2, <1>3, <1>4, <1>5, <1>6, <1>7, <1>8 DEF Next

(* What is active at the end of a tail of the recording is there.          *)
LEMMA ActiveIsThere ==
  ASSUME IInv, FormsInv, NEW G, NEW a \in DOMAIN Exchanges(har),
         G = RestOf(Exchanges(har), a), OnPage(Exchanges(har)[a], page),
         page.seen = Len(sent), NEW kind
  PROVE  \A f \in Active(MessagesOf(SucceededOf(G)), kind) : f \in forms
<1> DEFINE E == Exchanges(har)
           ms == MessagesOf(SucceededOf(G))
           b == E[a].ack
<1>1. Slice(ms, sent, b, Len(sent))
  BY DEF FormsInv, WireOK, Wired
<1>2. b \in Nat /\ b <= Len(sent)
  <2>1. Recorded(E[a], Len(har)) /\ Follows(E[a], page, accepted)
    BY DEF IInv, FileOK, PageOK
  <2> QED
    BY <2>1 DEF Recorded, Follows
<1>3. Len(sent) \in Nat /\ DOMAIN sent = 1 .. Len(sent)
  BY DEF IInv, StateOK, IsSeq
<1>4. Told(forms, sent)
  BY DEF FormsInv
<1> HIDE DEF ms, b
<1>5. DOMAIN ms = 1 .. Len(ms) /\ Len(ms) = Len(sent) - b
  BY <1>1 DEF Slice, IsSeq
<1>6. ASSUME NEW f \in Active(ms, kind) PROVE f \in forms
  <2>1. PICK i \in DOMAIN ms : /\ f \in Shown(ms[i])
                               /\ \A j \in (i + 1) .. Len(ms) : f \notin ms[j].deleted
    BY <1>6 DEF Active
  <2>2. i \in 1 .. (Len(sent) - b) /\ b + i \in DOMAIN sent
    BY <1>2, <1>3, <1>5
  <2>3. ms[i] = sent[b + i]
    BY <1>1, <2>2 DEF Slice
  <2>4. f \in forms \/ \E j \in DOMAIN sent : j > b + i /\ f \in sent[j].deleted
    BY <1>4, <2>1, <2>2, <2>3 DEF Told
  <2>5. ASSUME NEW j \in DOMAIN sent, j > b + i PROVE f \notin sent[j].deleted
    <3>1. j - b \in (i + 1) .. Len(ms) /\ j - b \in 1 .. (Len(sent) - b) /\ b + (j - b) = j
      BY <1>2, <1>3, <1>5, <2>2, <2>5
    <3>2. ms[j - b] = sent[b + (j - b)]
      BY <1>1, <3>1 DEF Slice
    <3> QED
      BY <2>1, <3>1, <3>2
  <2> QED
    BY <2>4, <2>5
<1> QED
  BY <1>6 DEF ms

(* The workspace found is active, or has had a successful New.             *)
LEMMA WorkspaceRootIs ==
  ASSUME NEW G, WorkspaceRoot(G) # None
  PROVE  LET roots == Active(MessagesOf(SucceededOf(G)), "workspace") IN
         /\ roots # {} => WorkspaceRoot(G) \in roots
         /\ roots = {} => \E i \in DOMAIN G : /\ G[i].command.name = "New"
                                              /\ WorkspaceRoot(G) = G[i].command.root
<1> DEFINE roots == Active(MessagesOf(SucceededOf(G)), "workspace")
           opens == ObservedOpens(G)
<1>1. WorkspaceRoot(G) = IF OnlyOne(roots) THEN TheOne(roots)
                         ELSE IF roots = {} /\ OnlyOne(opens)
                              THEN G[TheOne(opens)].command.root ELSE None
  BY DEF WorkspaceRoot
<1>2. \A i \in opens : i \in DOMAIN G /\ G[i].command.name = "New"
  BY DEF ObservedOpens, Commands
<1> HIDE DEF roots, opens
<1>3. \A S : S # {} => TheOne(S) \in S
  BY DEF TheOne
<1>4. \A S : OnlyOne(S) => S # {}
  BY FS_EmptySet DEF OnlyOne
<1>5. roots # {} => WorkspaceRoot(G) \in roots
  BY <1>1, <1>3
<1>6. roots = {} => TheOne(opens) \in opens /\ WorkspaceRoot(G) = G[TheOne(opens)].command.root
  BY <1>1, <1>3, <1>4
<1> QED
  BY <1>2, <1>5, <1>6 DEF roots

(* The workspace of an accepted session is there, or was left on this page.*)
LEMMA RootsAreLive ==
  ASSUME IInv, FormsInv
  PROVE  RootIsLive
<1> DEFINE E == Exchanges(har)
           G == LatestGroup(E)
<1> SUFFICES ASSUME PageIsRecorded
             PROVE  /\ \A p \in Bootstrap(har) : ~p.observed => p.root \in forms
                    /\ \A p \in Bootstrap(har) \cup DraftProfile(har) :
                         p.root \in forms \/ \E i \in DOMAIN sent : p.root \in sent[i].deleted
  BY DEF RootIsLive
<1>1. IsSeq(E) /\ DOMAIN E = 1 .. Len(E) /\ Len(E) \in Nat
  BY DEF IInv, FileOK, IsSeq
<1>2. \A k \in DOMAIN E : Wired(E, k, page, forms, sent)
  BY DEF FormsInv, WireOK
<1>3. SequencesFollow
  BY SessionsFollow DEF IInv
<1>4. \A k \in DOMAIN E : E[k].entry \in Nat
  BY DEF IInv, FileOK, Recorded
\* The exchanges of a session accepted are of this page.
<1>5. \A s \in BootstrapSessions \cup FlowSessions : s.entries \subseteq page.first .. Len(har)
  BY <1>3 DEF SequencesFollow
<1>6. ASSUME NEW p \in Bootstrap(har)
      PROVE  /\ ~p.observed => p.root \in forms
             /\ Known(p.root, forms, sent)
  <2> DEFINE roots == Active(MessagesOf(SucceededOf(G)), "workspace")
  <2>1. UsableGroup(E) /\ WorkspaceRoot(G) # None
    BY DEF Bootstrap
  <2>2. p = [session |-> SessionOf(G), root |-> WorkspaceRoot(G), observed |-> roots = {}]
    BY DEF Bootstrap
  <2>3. p.session = SessionOf(G) /\ p.root = WorkspaceRoot(G) /\ (p.observed <=> roots = {})
    BY <2>2
  <2>4. E # <<>> /\ Succeeded(Last(E))
    BY <2>1 DEF UsableGroup
  <2>5. FileOK
    BY DEF IInv
  <2>6. PICK a \in 1 .. Len(E) : IsRest(G, a)
    BY <2>4, <2>5, LatestGroupIs
  <2>7. SessionOf(G).entries \subseteq page.first .. Len(har)
    <3>1. p.session \in BootstrapSessions
      BY DEF BootstrapSessions
    <3> QED
      BY <1>5, <2>3, <3>1
  <2>8. \A i \in DOMAIN G : G[i].entry \in page.first .. Len(har)
    BY <2>7 DEF SessionOf
  <2> HIDE DEF G
  <2>9. \A i \in DOMAIN G : a + i - 1 \in DOMAIN E /\ G[i] = E[a + i - 1]
    BY <1>1, <2>6 DEF IsRest
  <2>10. 1 \in DOMAIN G /\ G[1] = E[a] /\ Len(E) - a + 1 \in DOMAIN G
         /\ G[Len(E) - a + 1] = E[Len(E)]
    BY <1>1, <2>6, <2>9 DEF IsRest
  <2>11. \A i \in DOMAIN G : OnPage(G[i], page)
    <3> TAKE i \in DOMAIN G
    <3>1. G[i].entry \in page.first .. Len(har)
      BY <2>8
    <3> QED
      BY <3>1 DEF OnPage
  <2>12. page.seen = Len(sent)
    <3>1. OnPage(E[Len(E)], page) /\ Len(E) \in DOMAIN E
      BY <1>1, <2>6, <2>10, <2>11
    <3>2. Succeeded(E[Len(E)])
      BY <2>4 DEF Last
    <3> HIDE DEF E
    <3> QED
      BY <1>2, <3>1, <3>2 DEF Wired
  <2>13. G = RestOf(E, a)
    <3>1. a \in 1 .. (Len(E) + 1)
      BY <1>1, <2>6
    <3>2. /\ IsSeq(RestOf(E, a)) /\ Len(RestOf(E, a)) = Len(E) - a + 1
          /\ \A i \in 1 .. (Len(E) - a + 1) : RestOf(E, a)[i] = E[a + i - 1]
      BY <1>1, <3>1, RestIs DEF RestOf
    <3>3. /\ IsSeq(G) /\ Len(G) = Len(E) - a + 1
          /\ \A i \in 1 .. (Len(E) - a + 1) : G[i] = E[a + i - 1]
      BY <1>1, <2>6 DEF IsRest, IsSeq
    <3> QED
      BY <3>2, <3>3, EqualIs
  <2>14. \A f \in roots : f \in forms
    <3>1. a \in DOMAIN E /\ OnPage(E[a], page)
      BY <1>1, <2>6, <2>10, <2>11
    <3> QED
      BY <2>12, <2>13, <3>1, ActiveIsThere
  <2>15. /\ roots # {} => p.root \in roots
         /\ roots = {} => \E i \in DOMAIN G : /\ G[i].command.name = "New"
                                              /\ p.root = G[i].command.root
    BY <2>1, <2>3, WorkspaceRootIs
  <2> HIDE DEF roots
  <2>16. roots # {} => p.root \in forms
    BY <2>14, <2>15
  <2>17. ASSUME roots = {} PROVE Known(p.root, forms, sent)
    <3>1. PICK i \in DOMAIN G : G[i].command.name = "New" /\ p.root = G[i].command.root
      BY <2>15, <2>17
    <3>2. Wired(E, a + i - 1, page, forms, sent)
      BY <1>2, <2>9
    <3>3. OnForm(G[i].command)
      BY <3>1 DEF OnForm
    <3> QED
      BY <2>9, <2>11, <3>1, <3>2, <3>3 DEF Wired
  <2> QED
    BY <2>3, <2>16, <2>17 DEF Known
<1>7. ASSUME NEW p \in DraftProfile(har) PROVE Known(p.root, forms, sent)
  <2> DEFINE flows == DraftFlows(E)
  <2>1. OnlyOne(flows)
    BY DEF DraftProfile
  <2>2. p = [session |-> SessionOf(E), root |-> E[TheOne(flows)[1]].command.root]
    BY DEF DraftProfile
  <2>3. p.session = SessionOf(E) /\ p.root = E[TheOne(flows)[1]].command.root
    BY <2>2
  <2>4. \A t \in flows : t[1] \in DOMAIN E /\ E[t[1]].command.name = "New"
    BY DEF DraftFlows, Commands
  <2> HIDE DEF flows
  <2>5. TheOne(flows) \in flows
    BY <2>1, FS_EmptySet DEF OnlyOne, TheOne
  <2>6. PICK k \in DOMAIN E : E[k].command.name = "New" /\ p.root = E[k].command.root
    BY <2>3, <2>4, <2>5
  <2>7. SessionOf(E).entries \subseteq page.first .. Len(har)
    <3>1. p.session \in FlowSessions
      BY DEF FlowSessions
    <3> QED
      BY <1>5, <2>3, <3>1
  <2>8. E[k].entry \in page.first .. Len(har)
    BY <2>7 DEF SessionOf
  <2> HIDE DEF E
  <2>9. OnPage(E[k], page)
    BY <2>8 DEF OnPage
  <2>10. OnForm(E[k].command)
    BY <2>6 DEF OnForm
  <2> QED
    BY <1>2, <2>6, <2>9, <2>10 DEF Wired
<1>8. \A p \in Bootstrap(har) \cup DraftProfile(har) : Known(p.root, forms, sent)
  BY <1>6, <1>7
<1> QED
  BY <1>6, <1>8 DEF Known

-----------------------------------------------------------------------------
(* The receipt: how Dynamics stacks its forms, and what an OK attached.    *)

\* Only dialogs are in front of a details form, and nothing of a new form or a dialog.
Stacked ==
  \A f, g \in forms :
    /\ f.kind \in {"new", "dialog"} => g.id <= f.id
    /\ f.kind = "details" /\ g.kind # "dialog" => g.id <= f.id
    /\ f.id = g.id => f = g

\* A dialog is for a report.
DialogsOK ==
  /\ receipts \in [AllReports -> SUBSET Nat]
  /\ \A f \in forms : f.kind = "dialog" => f.report \in AllReports

\* The forms of the start have the identifiers up to 3; messages made the others.
MadeOK ==
  /\ lastForm >= 3
  /\ \A f \in forms : f.id > 3 => \E i \in DOMAIN sent : f \in sent[i].made
  /\ \A i \in DOMAIN sent : \A f \in sent[i].made : f.id > 3
  /\ \A i \in DOMAIN sent : \A f \in sent[i].deleted : f \notin forms /\ f.id \in 0 .. lastForm

Editable == Drafts \cup {Created}
StatusOK ==
  \A i \in DOMAIN sent : \A s \in sent[i].statuses : s.draft = (s.root.report \in Editable)

\* The pending message was handled; what was sent then is not seen yet.
Kept == page.pending # 0 /\ accepted >= page.pending
KeptOK == Kept => Len(sent) = page.seen + 1

\* What a command finds when it is handled.
KindsFor(name) ==
  CASE name \in {"New", "Open", "Leave"} -> {"workspace"}
    [] name = "Create" -> {"new"}
    [] name \in {"Add", "Save", "Submit"} -> {"details"}
    [] name = "Cancel" -> {"new", "dialog"}
    [] OTHER -> {"dialog"}
Ready(c) ==
  /\ c.name = "Load" => forms = {}
  /\ OnForm(c) => forms # {} /\ c.root = Top /\ c.root.kind \in KindsFor(c.name)
  /\ c.name = "Add" => c.root.report \in Editable
  /\ c.name = "OK" => upload.stage = "closed"
  /\ c.name = "CloseUpload" => upload.stage = "uploaded"
ReadyOK ==
  /\ accepted < page.pending => Ready(page.command)
  /\ page.command.name = "CheckFile" => page.command.root.kind = "dialog"

StackInv == Stacked /\ DialogsOK /\ MadeOK /\ StatusOK /\ KeptOK /\ ReadyOK

\* What Dynamics did with a request.
Done(n, c) ==
  \/ accepted' = accepted /\ DoNotHandle
  \/ n > accepted /\ accepted' = n /\ Handle(c)

LEMMA DoneIs ==
  ASSUME NEW n, NEW c, Request(n, c)
  PROVE  Done(n, c)
<1>1. PICK handled \in BOOLEAN :
        /\ handled => n > accepted
        /\ accepted' = IF handled THEN n ELSE accepted
        /\ IF handled THEN Handle(c) ELSE DoNotHandle
  BY DEF Request
<1>2. CASE handled
  BY <1>1, <1>2 DEF Done
<1>3. CASE ~handled
  BY <1>1, <1>3 DEF Done
<1> QED
  BY <1>2, <1>3

(* The form in front is the newest.                                        *)
LEMMA TopIsNewest ==
  ASSUME FormsOK, forms # {}
  PROVE  Top \in forms /\ \A g \in forms : g.id <= Top.id
<1> DEFINE ids == {f.id : f \in forms}
<1>1. \A f \in forms : f.id \in Nat /\ f.id <= lastForm
  BY DEF FormsOK, FormSet
<1>2. ids \in SUBSET Nat /\ ids # {} /\ lastForm \in Nat /\ \A x \in ids : x <= lastForm
  BY <1>1 DEF FormsOK
<1> HIDE DEF ids
<1>3. Max(ids) \in ids /\ \A x \in ids : x <= Max(ids)
  BY <1>2, BoundedHasMax
<1>4. PICK f \in forms : f.id = Max(ids)
  BY <1>3 DEF ids
<1>5. \A g \in forms : g.id <= f.id
  BY <1>3, <1>4 DEF ids
<1>6. Top = CHOOSE t \in forms : \A g \in forms : g.id <= t.id
  BY DEF Top
<1> QED
  BY <1>5, <1>6

(* Behind the form in front there is no new form and no dialog, and a      *)
(* details form only behind a dialog.                                      *)
LEMMA BehindTop ==
  ASSUME FormsOK, Stacked, forms # {}, NEW f \in forms, f # Top
  PROVE  f.kind \notin {"new", "dialog"} /\ (f.kind = "details" => Top.kind = "dialog")
<1>1. Top \in forms /\ f.id <= Top.id
  BY TopIsNewest
<1>2. f.id \in Nat /\ Top.id \in Nat
  BY <1>1 DEF FormsOK, FormSet
<1>3. ~(Top.id <= f.id)
  BY <1>1, <1>2 DEF Stacked
<1> QED
  BY <1>1, <1>3 DEF Stacked

(* What a message makes, deletes and tells, by the command it answers.     *)
LEMMA AnswerTells ==
  ASSUME NEW c, IsCommand(c)
  PROVE  LET a == Answer(c) IN
         /\ c.name = "Load" =>
              a.made = {New("workspace", NoReport)} /\ a.deleted = {} /\ a.statuses = {}
         /\ c.name = "New" =>
              a.made = {New("new", NoReport)} /\ a.deleted = {} /\ a.statuses = {}
         /\ c.name = "Create" =>
              /\ a.made = {New("details", Created)} /\ a.deleted = {c.root}
              /\ a.statuses = Status(New("details", Created))
         /\ c.name = "Open" =>
              /\ a.made = {New("details", c.report)} /\ a.deleted = {}
              /\ a.statuses = Status(New("details", c.report))
         /\ c.name = "Add" =>
              a.made = {New("dialog", c.root.report)} /\ a.deleted = {} /\ a.statuses = {}
         /\ c.name = "OK" =>
              LET details == {g \in forms : g.kind = "details" /\ g.report = c.root.report} IN
              /\ a.made = {} /\ a.deleted = {c.root}
              /\ a.statuses = UNION {Status(g) : g \in details}
              /\ a.counts = UNION {CountOf(g, Cardinality(receipts[c.root.report] \cup {upload.file})) :
                                     g \in details}
         /\ c.name \in {"Save", "Cancel", "Leave"} =>
              a.made = {} /\ a.deleted = {c.root} /\ a.statuses = {}
         /\ c.name \in {"", "Submit", "CheckFile", "CloseUpload"} =>
              a.made = {} /\ a.deleted = {} /\ a.statuses = {}
<1>0. Quiet.made = {} /\ Quiet.deleted = {} /\ Quiet.statuses = {} /\ Quiet.counts = {}
  BY DEF Quiet
<1>1. CASE c.name = "Load"
  <2>1. Answer(c) = [Quiet EXCEPT !.made = {New("workspace", NoReport)}]
    BY <1>1 DEF Answer
  <2> QED
    BY <1>1, <2>1 DEF Quiet
<1>2. CASE c.name = "New"
  <2>1. Answer(c) = [Quiet EXCEPT !.made = {New("new", NoReport)}]
    BY <1>2 DEF Answer
  <2> QED
    BY <1>2, <2>1 DEF Quiet
<1>3. CASE c.name = "Create"
  <2> DEFINE g == New("details", Created)
  <2>1. PICK counts :
          Answer(c) = [[Quiet EXCEPT !.made = {g}, !.statuses = Status(g), !.counts = counts]
                         EXCEPT !.deleted = {c.root}]
    BY <1>3 DEF Answer
  <2> HIDE DEF g
  <2>2. Answer(c).made = {g} /\ Answer(c).deleted = {c.root} /\ Answer(c).statuses = Status(g)
    BY <2>1 DEF Quiet
  <2> QED
    BY <1>3, <2>2 DEF g
<1>4. CASE c.name = "Open"
  <2> DEFINE g == New("details", c.report)
  <2>1. PICK counts :
          Answer(c) = [Quiet EXCEPT !.made = {g}, !.statuses = Status(g), !.counts = counts]
    BY <1>4 DEF Answer
  <2> HIDE DEF g
  <2>2. Answer(c).made = {g} /\ Answer(c).deleted = {} /\ Answer(c).statuses = Status(g)
    BY <2>1 DEF Quiet
  <2> QED
    BY <1>4, <2>2 DEF g
<1>5. CASE c.name = "Add"
  <2>1. Answer(c) = [Quiet EXCEPT !.made = {New("dialog", c.root.report)}, !.shown = {c.root}]
    BY <1>5 DEF Answer
  <2> QED
    BY <1>5, <2>1 DEF Quiet
<1>6. CASE c.name = "OK"
  <2> DEFINE details == {g \in forms : g.kind = "details" /\ g.report = c.root.report}
             told == UNION {Status(g) : g \in details}
             counted == UNION {CountOf(g, Cardinality(receipts[c.root.report] \cup {upload.file})) :
                                 g \in details}
  <2>1. Answer(c) = [Quiet EXCEPT !.deleted = {c.root}, !.shown = details,
                                  !.statuses = told, !.counts = counted]
    BY <1>6 DEF Answer
  <2> HIDE DEF details, told, counted
  <2>2. /\ Answer(c).made = {} /\ Answer(c).deleted = {c.root}
        /\ Answer(c).statuses = told /\ Answer(c).counts = counted
    BY <2>1 DEF Quiet
  <2> QED
    BY <1>6, <2>2 DEF details, told, counted
<1>7. CASE c.name = "Save"
  <2>1. PICK shown : Answer(c) = [Quiet EXCEPT !.deleted = {c.root}, !.shown = shown,
                                               !.listed = AllReports]
    BY <1>7 DEF Answer
  <2> QED
    BY <1>7, <2>1 DEF Quiet
<1>8. CASE c.name \in {"Cancel", "Leave"}
  <2>1. Answer(c) = [Quiet EXCEPT !.deleted = {c.root}]
    BY <1>8 DEF Answer
  <2> QED
    BY <1>8, <2>1 DEF Quiet
<1>9. CASE c.name \in {"", "Submit", "CheckFile", "CloseUpload"}
  <2>1. Answer(c) = Quiet
    BY <1>9 DEF Answer
  <2> QED
    BY <1>0, <1>9, <2>1
<1>10. c.name \in Names
  BY DEF IsCommand, CommandSet
<1> QED
  BY <1>1, <1>2, <1>3, <1>4, <1>5, <1>6, <1>7, <1>8, <1>9, <1>10 DEF Names

(* What handling a command makes and deletes, seen from the form in front: *)
(* a form made comes in front of what stays behind.                        *)
LEMMA HandledForms ==
  ASSUME NEW c, IsCommand(c), Ready(c), FormsOK, Stacked
  PROVE  LET a == Answer(c) IN
         /\ a.deleted \subseteq forms
         /\ \/ a.made = {}
            \/ \E kind \in Kinds : \E report :
                 /\ a.made = {Form(lastForm + 1, kind, report)}
                 /\ kind = "dialog" => c.name = "Add" /\ report \in AllReports
                 /\ \A f \in forms \ a.deleted :
                      /\ f.kind \notin {"new", "dialog"}
                      /\ f.kind = "details" => kind = "dialog"
         /\ \A s \in a.statuses : s.draft = (s.root.report \in Editable)
<1> DEFINE a == Answer(c)
           InFront(kind, report) ==
             /\ a.made = {Form(lastForm + 1, kind, report)}
             /\ kind = "dialog" => c.name = "Add" /\ report \in AllReports
             /\ \A f \in forms \ a.deleted :
                  /\ f.kind \notin {"new", "dialog"}
                  /\ f.kind = "details" => kind = "dialog"
           True(S) == \A s \in S : s.draft = (s.root.report \in Editable)
<1> SUFFICES /\ a.deleted \subseteq forms
             /\ a.made = {} \/ \E kind \in Kinds : \E report : InFront(kind, report)
             /\ True(a.statuses)
  OBVIOUS
<1>1. c.name \in Names
  BY DEF IsCommand, CommandSet
<1>2. {"workspace", "new", "details", "dialog"} \subseteq Kinds
  BY DEF Kinds
<1>3. \A g : True(Status(g))
  BY DEF Status, Editable
<1>4. \A kind, report : New(kind, report) = Form(lastForm + 1, kind, report)
  BY DEF New
<1>5. OnForm(c) => c.root = Top /\ c.root \in forms /\ c.root.kind \in KindsFor(c.name)
  BY TopIsNewest DEF Ready
<1>6. OnForm(c) => \A f \in forms : f # c.root =>
        f.kind \notin {"new", "dialog"} /\ (f.kind = "details" => c.root.kind = "dialog")
  BY <1>5, BehindTop
<1>7. CASE c.name = "Load"
  <2>1. a.made = {Form(lastForm + 1, "workspace", NoReport)} /\ a.deleted = {} /\ a.statuses = {}
    BY <1>4, <1>7, AnswerTells
  <2> HIDE DEF a
  <2>2. InFront("workspace", NoReport)
    BY <1>7, <2>1 DEF Ready
  <2> QED
    BY <1>2, <2>1, <2>2
<1>8. CASE c.name = "New"
  <2>1. a.made = {Form(lastForm + 1, "new", NoReport)} /\ a.deleted = {} /\ a.statuses = {}
    BY <1>4, <1>8, AnswerTells
  <2>2. OnForm(c) /\ c.root.kind = "workspace"
    BY <1>5, <1>8 DEF OnForm, KindsFor
  <2> HIDE DEF a
  <2>3. InFront("new", NoReport)
    BY <1>6, <2>1, <2>2
  <2> QED
    BY <1>2, <2>1, <2>3
<1>9. CASE c.name = "Create"
  <2>1. /\ a.made = {Form(lastForm + 1, "details", Created)} /\ a.deleted = {c.root}
        /\ True(a.statuses)
    <3>1. /\ a.made = {New("details", Created)} /\ a.deleted = {c.root}
          /\ a.statuses = Status(New("details", Created))
      BY <1>9, AnswerTells
    <3> HIDE DEF a, True
    <3> QED
      BY <1>3, <1>4, <3>1
  <2>2. OnForm(c) /\ c.root.kind = "new"
    BY <1>5, <1>9 DEF OnForm, KindsFor
  <2> HIDE DEF a, True
  <2>3. InFront("details", Created)
    BY <1>6, <2>1, <2>2
  <2> QED
    BY <1>2, <1>5, <2>1, <2>2, <2>3
<1>10. CASE c.name = "Open"
  <2>1. /\ a.made = {Form(lastForm + 1, "details", c.report)} /\ a.deleted = {}
        /\ True(a.statuses)
    <3>1. /\ a.made = {New("details", c.report)} /\ a.deleted = {}
          /\ a.statuses = Status(New("details", c.report))
      BY <1>10, AnswerTells
    <3> HIDE DEF a, True
    <3> QED
      BY <1>3, <1>4, <3>1
  <2>2. OnForm(c) /\ c.root.kind = "workspace"
    BY <1>5, <1>10 DEF OnForm, KindsFor
  <2> HIDE DEF a, True
  <2>3. InFront("details", c.report)
    BY <1>6, <2>1, <2>2
  <2> QED
    BY <1>2, <2>1, <2>3
<1>11. CASE c.name = "Add"
  <2>1. a.made = {Form(lastForm + 1, "dialog", c.root.report)} /\ a.deleted = {} /\ a.statuses = {}
    BY <1>4, <1>11, AnswerTells
  <2>2. OnForm(c) /\ c.root.kind = "details"
    BY <1>5, <1>11 DEF OnForm, KindsFor
  <2> HIDE DEF a
  <2>3. c.root.report \in AllReports
    BY <1>11, SessionsAssumption DEF Ready, Editable, AllReports
  <2>4. InFront("dialog", c.root.report)
    BY <1>6, <1>11, <2>1, <2>2, <2>3
  <2> QED
    BY <1>2, <2>1, <2>4
<1>12. CASE c.name = "OK"
  <2> DEFINE details == {g \in forms : g.kind = "details" /\ g.report = c.root.report}
  <2>1. a.made = {} /\ a.deleted = {c.root} /\ a.statuses = UNION {Status(g) : g \in details}
    BY <1>12, AnswerTells
  <2>2. True(a.statuses)
    <3> HIDE DEF details, a
    <3> QED
      BY <1>3, <2>1
  <2> HIDE DEF a, True
  <2> QED
    BY <1>5, <1>12, <2>1, <2>2 DEF OnForm
<1>13. CASE c.name \in {"Save", "Cancel", "Leave"}
  <2>1. a.made = {} /\ a.deleted = {c.root} /\ a.statuses = {}
    BY <1>13, AnswerTells
  <2> HIDE DEF a
  <2> QED
    BY <1>5, <1>13, <2>1 DEF OnForm
<1>14. CASE c.name \in {"", "Submit", "CheckFile", "CloseUpload"}
  <2>1. a.made = {} /\ a.deleted = {} /\ a.statuses = {}
    BY <1>14, AnswerTells
  <2> HIDE DEF a
  <2> QED
    BY <2>1
<1> QED
  BY <1>1, <1>7, <1>8, <1>9, <1>10, <1>11, <1>12, <1>13, <1>14 DEF Names

(* So the forms stay stacked, and messages account for them.               *)
LEMMA HandleKeepsStack ==
  ASSUME NEW c, IsCommand(c), Ready(c), FormsOK, Stacked, DialogsOK, MadeOK, StatusOK,
         IsSeq(sent), upload \in UploadSet, Handle(c)
  PROVE  Stacked' /\ DialogsOK' /\ MadeOK' /\ StatusOK'
<1> DEFINE a == Answer(c)
           L == lastForm
           M == Len(sent)
<1>1. /\ forms' = (forms \ a.deleted) \cup a.made
      /\ lastForm' = L + Cardinality(a.made)
      /\ sent' = Append(sent, a)
  BY DEF Handle
<1>2. /\ a.deleted \subseteq forms
      /\ \/ a.made = {}
         \/ \E kind \in Kinds : \E report :
              /\ a.made = {Form(L + 1, kind, report)}
              /\ kind = "dialog" => report \in AllReports
              /\ \A f \in forms \ a.deleted :
                   /\ f.kind \notin {"new", "dialog"}
                   /\ f.kind = "details" => kind = "dialog"
      /\ \A s \in a.statuses : s.draft = (s.root.report \in Editable)
  BY HandledForms
<1> HIDE DEF a
<1>3. /\ M \in Nat /\ DOMAIN sent = 1 .. M /\ DOMAIN sent' = 1 .. (M + 1)
      /\ \A i \in 1 .. M : sent'[i] = sent[i]
      /\ sent'[M + 1] = a
  BY <1>1, AppendIs
<1> HIDE DEF M
<1>4. L \in Nat /\ \A f \in forms : f.id \in Nat /\ f.id <= L
  BY DEF FormsOK, FormSet
<1> HIDE DEF L
<1>5. L >= 3
  BY DEF MadeOK, L
\* Either nothing is made, or one form in front of all that stay.
<1>6. /\ L <= lastForm' /\ lastForm' \in Nat
      /\ \A m \in a.made :
           /\ m.id = L + 1
           /\ m.kind = "dialog" => m.report \in AllReports
           /\ \A f \in forms \ a.deleted :
                f.kind \notin {"new", "dialog"} /\ (f.kind = "details" => m.kind = "dialog")
      /\ \A m, k \in a.made : m = k
  <2>1. CASE a.made = {}
    <3>1. Cardinality(a.made) = 0
      BY <2>1, FS_EmptySet
    <3> QED
      BY <1>1, <1>4, <2>1, <3>1
  <2>2. ASSUME NEW kind \in Kinds, NEW report,
               a.made = {Form(L + 1, kind, report)},
               kind = "dialog" => report \in AllReports,
               \A f \in forms \ a.deleted :
                 f.kind \notin {"new", "dialog"} /\ (f.kind = "details" => kind = "dialog")
        PROVE  <1>6
    <3>1. Cardinality(a.made) = 1
      BY <2>2, FS_Singleton
    <3>2. lastForm' = L + 1
      BY <1>1, <3>1
    <3>3. /\ Form(L + 1, kind, report).id = L + 1 /\ Form(L + 1, kind, report).kind = kind
          /\ Form(L + 1, kind, report).report = report
      BY DEF Form
    <3> QED
      BY <1>4, <2>2, <3>2, <3>3
  <2> QED
    BY <1>2, <2>1, <2>2
<1>7. Stacked'
  <2>1. ASSUME NEW f \in forms', NEW g \in forms'
        PROVE  /\ f.kind \in {"new", "dialog"} => g.id <= f.id
               /\ f.kind = "details" /\ g.kind # "dialog" => g.id <= f.id
               /\ f.id = g.id => f = g
    <3>1. CASE f \in forms \ a.deleted /\ g \in forms \ a.deleted
      BY <3>1 DEF Stacked
    <3>2. CASE f \in a.made /\ g \in forms \ a.deleted
      BY <1>4, <1>6, <3>2
    <3>3. CASE f \in forms \ a.deleted /\ g \in a.made
      BY <1>4, <1>6, <3>3
    <3>4. CASE f \in a.made /\ g \in a.made
      <4>1. f = g /\ f.id = L + 1
        BY <1>6, <3>4
      <4> QED
        BY <1>4, <4>1
    <3> QED
      BY <1>1, <3>1, <3>2, <3>3, <3>4
  <2> QED
    BY <2>1 DEF Stacked
<1>8. MadeOK'
  <2>1. lastForm' >= 3
    BY <1>4, <1>5, <1>6
  <2>2. ASSUME NEW f \in forms', f.id > 3 PROVE \E i \in DOMAIN sent' : f \in sent'[i].made
    <3>1. CASE f \in forms
      <4>1. PICK i \in DOMAIN sent : f \in sent[i].made
        BY <2>2, <3>1 DEF MadeOK
      <4> QED
        BY <1>3, <4>1
    <3>2. CASE f \in a.made
      <4>1. M + 1 \in DOMAIN sent'
        BY <1>3
      <4> QED
        BY <1>3, <3>2, <4>1
    <3> QED
      BY <1>1, <3>1, <3>2
  <2>3. ASSUME NEW i \in DOMAIN sent'
        PROVE  /\ \A f \in sent'[i].made : f.id > 3
               /\ \A f \in sent'[i].deleted : f \notin forms' /\ f.id \in 0 .. lastForm'
    <3>1. CASE i = M + 1
      <4>1. sent'[i] = a
        BY <1>3, <3>1
      <4>2. \A f \in a.made : f.id > 3
        BY <1>4, <1>5, <1>6
      <4>3. \A f \in a.deleted : f \in forms /\ f.id \in Nat /\ f.id <= L
        BY <1>2, <1>4
      <4>4. \A f \in a.deleted : f \notin a.made
        BY <1>4, <1>6, <4>3
      <4>5. \A f \in a.deleted : f.id \in 0 .. lastForm'
        BY <1>4, <1>6, <4>3
      <4> QED
        BY <1>1, <4>1, <4>2, <4>4, <4>5
    <3>2. CASE i # M + 1
      <4>1. i \in DOMAIN sent /\ sent'[i] = sent[i]
        BY <1>3, <3>2
      <4>2. /\ \A f \in sent[i].made : f.id > 3
            /\ \A f \in sent[i].deleted : f \notin forms /\ f.id \in 0 .. L
        BY <4>1 DEF MadeOK, L
      <4>3. ASSUME NEW f \in sent[i].deleted PROVE f \notin forms' /\ f.id \in 0 .. lastForm'
        <5>1. f \notin forms /\ f.id \in 0 .. L
          BY <4>2
        <5>2. f \notin a.made
          BY <1>4, <1>6, <5>1
        <5>3. f.id \in 0 .. lastForm'
          BY <1>4, <1>6, <5>1
        <5> QED
          BY <1>1, <5>1, <5>2, <5>3
      <4> QED
        BY <4>1, <4>2, <4>3
    <3> QED
      BY <3>1, <3>2
  <2> QED
    BY <2>1, <2>2, <2>3 DEF MadeOK
<1>9. StatusOK'
  <2>1. ASSUME NEW i \in DOMAIN sent', NEW s \in sent'[i].statuses
        PROVE  s.draft = (s.root.report \in Editable)
    <3>1. CASE i = M + 1
      BY <1>2, <1>3, <2>1, <3>1
    <3>2. CASE i # M + 1
      <4>1. i \in DOMAIN sent /\ sent'[i] = sent[i]
        BY <1>3, <3>2
      <4> QED
        BY <2>1, <4>1 DEF StatusOK
    <3> QED
      BY <3>1, <3>2
  <2> QED
    BY <2>1 DEF StatusOK, Editable
<1>10. DialogsOK'
  <2>1. receipts' \in [AllReports -> SUBSET Nat]
    <3>1. receipts \in [AllReports -> SUBSET Nat] /\ upload.file \in Nat
      BY DEF DialogsOK, UploadSet
    <3>2. \/ receipts' = [receipts EXCEPT ![c.root.report] = @ \cup {upload.file}]
          \/ receipts' = receipts
      BY DEF Handle
    <3> QED
      BY <3>1, <3>2
  <2>2. \A f \in forms' : f.kind = "dialog" => f.report \in AllReports
    BY <1>1, <1>6 DEF DialogsOK
  <2> QED
    BY <2>1, <2>2 DEF DialogsOK, AllReports
<1> QED
  BY <1>7, <1>8, <1>9, <1>10

\* A request repeats what is pending, or is for a command in its place.
Fit(n, c) ==
  /\ n > accepted => Ready(c)
  /\ n = page.pending => c = page.command
  /\ c.name = "CheckFile" => c.root.kind = "dialog"

LEMMA RequestKeepsStack ==
  ASSUME IInv, SeenOK, StackInv, NEW n, NEW c, Sends(n, c), Fit(n, c), Done(n, c),
         NEW e, NEW parsed \in BOOLEAN, Requested(n, c, e, parsed), Carried(n, c, e, parsed)
  PROVE  StackInv'
<1>1. /\ page'.pending = (IF parsed /\ accepted' >= n THEN 0 ELSE n)
      /\ page'.seen = (IF parsed THEN Len(sent') ELSE page.seen)
  BY DEF Requested
<1>2. page'.command = (IF parsed /\ accepted' >= n THEN NoCommand ELSE c)
  BY DEF Carried
<1>3. /\ IsSeq(sent) /\ page \in PageSet /\ accepted \in Nat /\ FormsOK
      /\ upload \in UploadSet
      /\ accepted < page.next
  BY DEF IInv, StateOK, NumbersOK
<1>4. /\ page.seen \in Nat /\ page.pending \in Nat /\ page.next \in Nat /\ Len(sent) \in Nat
      /\ accepted < page.next /\ accepted \in Nat
  BY <1>3 DEF PageSet, IsSeq
<1>5. IsCommand(c) /\ (n = page.pending \/ (n = page.next /\ page.pending = 0)) /\ n \in Nat
  BY <1>4 DEF Sends
<1>6. /\ n > accepted => Ready(c)
      /\ c.name = "CheckFile" => c.root.kind = "dialog"
  BY DEF Fit
<1>7. NoCommand.name = ""
  BY DEF NoCommand, Command
<1>8. (page'.command).name = "CheckFile" => (page'.command).root.kind = "dialog"
  BY <1>2, <1>6, <1>7
\* Handled again or not at all, a message changes nothing.
<1>9. CASE accepted' = accepted /\ DoNotHandle
  <2>1. forms' = forms /\ lastForm' = lastForm /\ sent' = sent /\ upload' = upload
    BY <1>9 DEF DoNotHandle
  <2>2. Stacked' /\ MadeOK' /\ StatusOK'
    BY <2>1 DEF StackInv, Stacked, MadeOK, StatusOK, Editable
  <2>2a. DialogsOK'
    BY <1>9 DEF StackInv, DialogsOK, DoNotHandle, AllReports
  <2>3. KeptOK'
    <3> SUFFICES ASSUME page'.pending # 0, accepted >= page'.pending
                 PROVE  Len(sent) = page'.seen + 1
      BY <1>9, <2>1 DEF KeptOK, Kept
    <3>1. ~parsed /\ page'.pending = n /\ page'.seen = page.seen
      BY <1>1, <1>9
    <3>2. n = page.pending
      BY <1>4, <1>5, <3>1
    <3>3. Kept
      BY <3>1, <3>2 DEF Kept
    <3> QED
      BY <3>1, <3>3 DEF StackInv, KeptOK
  <2>4. ReadyOK'
    <3>1. ASSUME accepted < page'.pending PROVE page'.command = c /\ Ready(c)
      <4>1. page'.pending = n
        BY <1>1, <1>4, <3>1
      <4>2. ~(accepted' >= n)
        BY <1>4, <1>5, <1>9, <3>1, <4>1
      <4> QED
        BY <1>2, <1>4, <1>5, <1>6, <3>1, <4>1, <4>2
    <3>2. Ready(c) => Ready(c)'
      BY <2>1 DEF Ready, Top, Editable
    <3> QED
      BY <1>8, <1>9, <3>1, <3>2 DEF ReadyOK, Ready, Top, Editable
  <2> QED
    BY <2>2, <2>2a, <2>3, <2>4 DEF StackInv
<1>10. CASE n > accepted /\ accepted' = n /\ Handle(c)
  <2>1. Ready(c)
    BY <1>6, <1>10
  <2>2. Stacked' /\ DialogsOK' /\ MadeOK' /\ StatusOK'
    BY <1>3, <1>5, <1>10, <2>1, HandleKeepsStack DEF StackInv
  <2>3. KeptOK'
    <3> SUFFICES ASSUME page'.pending # 0 PROVE Len(sent') = page'.seen + 1
      BY DEF KeptOK, Kept
    <3>1. page'.seen = page.seen
      BY <1>1, <1>5, <1>10
    <3>2. page.seen = Len(sent)
      BY <1>4, <1>5, <1>10 DEF SeenOK
    <3>3. Len(sent') = Len(sent) + 1
      <4>1. sent' = Append(sent, Answer(c))
        BY <1>10 DEF Handle
      <4> QED
        BY <1>3, <4>1, AppendIs
    <3> QED
      BY <3>1, <3>2, <3>3
  <2>4. ~(accepted' < page'.pending)
    BY <1>1, <1>4, <1>5, <1>10
  <2>5. ReadyOK'
    BY <1>8, <2>4 DEF ReadyOK
  <2> QED
    BY <2>2, <2>3, <2>5 DEF StackInv
<1> QED
  BY <1>9, <1>10 DEF Done

-----------------------------------------------------------------------------
(* The messages of the parsed answers.                                     *)

LEMMA ParsedOfAppend ==
  ASSUME NEW h, IsSeq(h), NEW e
  PROVE  ParsedOf(Append(h, e)) = IF Parsed(e) THEN Append(ParsedOf(h), e) ELSE ParsedOf(h)
<1> DEFINE d == Append(h, e)
           P == {i \in DOMAIN h : Parsed(h[i])}
           Q == {i \in DOMAIN d : Parsed(d[i])}
<1>1. /\ Len(h) \in Nat /\ DOMAIN h = 1 .. Len(h) /\ DOMAIN d = 1 .. (Len(h) + 1)
      /\ \A i \in 1 .. Len(h) : d[i] = h[i]
      /\ d[Len(h) + 1] = e
  BY AppendIs
<1> HIDE DEF d
<1>2. /\ \A i \in 1 .. Len(h) : i \in P <=> i \in Q
      /\ Len(h) + 1 \in Q <=> Parsed(e)
  BY <1>1
<1> HIDE DEF P, Q
<1>3. Those(d, Q) = IF Len(h) + 1 \in Q THEN Append(Those(h, P), e) ELSE Those(h, P)
  BY <1>2, ThoseOfAppend DEF d
<1>4. ParsedOf(d) = Those(d, Q) /\ ParsedOf(h) = Those(h, P)
  BY DEF ParsedOf, P, Q
<1> QED
  BY <1>2, <1>3, <1>4 DEF d

LEMMA ParsedWireOfAppend ==
  ASSUME NEW G, IsSeq(G), NEW e, IsSeq(e.messages), \A i \in DOMAIN G : IsSeq(G[i].messages)
  PROVE  /\ IsSeq(MessagesOf(ParsedOf(G)))
         /\ MessagesOf(ParsedOf(Append(G, e))) =
              IF Parsed(e) THEN MessagesOf(ParsedOf(G)) \o e.messages ELSE MessagesOf(ParsedOf(G))
<1> DEFINE H == ParsedOf(G)
<1>1. DOMAIN G = 1 .. Len(G)
  BY DEF IsSeq
<1>2. IsSeq(H) /\ \A i \in DOMAIN H : IsSeq(H[i].messages)
  <2>1. /\ IsSeq(H)
        /\ \A k \in DOMAIN H : \E i \in 1 .. Len(G) : H[k] = G[i]
    <3> DEFINE P == {i \in DOMAIN G : Parsed(G[i])}
    <3>1. H = Those(G, P)
      BY DEF ParsedOf
    <3> HIDE DEF P, H
    <3>2. /\ IsSeq(Those(G, P))
          /\ \A k \in DOMAIN Those(G, P) : \E i \in 1 .. Len(G) : i \in P /\ Those(G, P)[k] = G[i]
      BY ThoseIs
    <3> QED
      BY <3>1, <3>2
  <2> HIDE DEF H
  <2> QED
    BY <1>1, <2>1
<1>3. ParsedOf(Append(G, e)) = IF Parsed(e) THEN Append(H, e) ELSE H
  BY ParsedOfAppend
<1> HIDE DEF H
<1>4. IsSeq(MessagesOf(H)) /\ MessagesOf(Append(H, e)) = MessagesOf(H) \o e.messages
  BY <1>2, MessagesOfAppend
<1> QED
  BY <1>3, <1>4 DEF H

LEMMA ParsedWireOfNone == MessagesOf(ParsedOf(<<>>)) = <<>>
<1>1. ParsedOf(<<>>) = <<>>
  BY ThoseOfEmpty DEF ParsedOf
<1> QED
  BY <1>1, MessagesOfNone

\* No page was loaded while this file was recorded.
OnePage ==
  page.language /\ \A i \in DOMAIN har : IsExchange(har[i]) => har[i].language # NoLanguage
LanguageOK ==
  \/ page.language \/ page.pending # 0
  \/ \E i \in DOMAIN har : IsExchange(har[i]) /\ har[i].language = NoLanguage

\* The counts of a message are those of the report whose dialog was confirmed,
\* and the file uploaded last is among its receipts.
Attaches(root, m, file, has) ==
  \A c \in m.counts :
    /\ c.root.report = root.report /\ file \in has[root.report]
    /\ c.count = Cardinality(has[root.report])
\* No dialog from which a file was confirmed is left.
Closed == upload.stage = "closed" /\ \A f \in forms : f.kind # "dialog"
\* No other file can be uploaded before one was checked.
Settled ==
  \/ upload.stage = "open"
  \/ Closed
  \/ upload.stage = "checked" /\ Kept /\ page.command.name = "CheckFile"
Checked(e) ==
  /\ IsExchange(e) /\ Succeeded(e)
  /\ e.command.name = "CheckFile" /\ e.command.root.kind = "dialog"

\* The answers brought all that the page has seen.
AllSeen == Slice(MessagesOf(ParsedOf(Exchanges(har))), sent, 0, page.seen)
KeptAttaches ==
  Kept /\ page.command.name = "OK" =>
    Closed /\ Attaches(page.command.root, sent[Len(sent)], upload.file, receipts)
\* Until a file is checked again, the counts that an OK brought are right.
CountsStand(k, i) ==
  \/ har[k].messages[i].counts = {}
  \/ \E j \in DOMAIN har : j > k /\ Checked(har[j])
  \/ Settled /\ Attaches(har[k].command.root, har[k].messages[i], upload.file, receipts)
OKsAttach ==
  \A k \in DOMAIN har :
    IsExchange(har[k]) /\ har[k].command.name = "OK" =>
      \A i \in DOMAIN har[k].messages : CountsStand(k, i)

ReceiptInv ==
  StackInv /\ LanguageOK /\ (OnePage => AllSeen /\ KeptAttaches /\ OKsAttach)

(* A request adds to the messages seen what the page had not seen.         *)
LEMMA RequestKeepsSeen ==
  ASSUME IInv, FormsInv, FormsInv', AllSeen, NEW n, NEW c, Sends(n, c),
         Aimed(n, c, accepted, forms, sent),
         NEW e, NEW parsed \in BOOLEAN, Requested(n, c, e, parsed), Carried(n, c, e, parsed)
  PROVE  AllSeen'
<1> DEFINE E == Exchanges(har)
           ms == MessagesOf(ParsedOf(E))
           mt == MessagesOf(ParsedOf(Append(E, e)))
           x == SubSeq(sent', page.seen + 1, Len(sent'))
           K == Len(sent')
<1>1. /\ har' = Append(har, e) /\ e.type = "exchange"
      /\ Parsed(e) <=> parsed
      /\ ~parsed => e.messages = <<>>
      /\ parsed => e.messages = x
      /\ page'.seen = (IF parsed THEN Len(sent') ELSE page.seen)
  BY DEF Requested
<1>2. /\ IsSeq(har) /\ IsSeq(sent) /\ page \in PageSet /\ page.seen <= Len(sent)
      /\ IsSeq(E) /\ IsCommand(c)
  BY DEF IInv, StateOK, NumbersOK, FileOK, Sends
<1>3. page.seen \in Nat /\ Len(sent) \in Nat /\ 0 \in Nat /\ 0 <= page.seen
  BY <1>2 DEF PageSet, IsSeq
<1>4. /\ IsSeq(sent') /\ K \in Nat /\ Len(sent) <= K
      /\ \A i \in 1 .. Len(sent) : sent'[i] = sent[i]
  BY <1>2, CarriedIs DEF FormsInv
<1>5. Exchanges(har') = Append(E, e)
  <2>1. IsExchange(e)
    BY <1>1 DEF IsExchange
  <2> QED
    BY <1>1, <1>2, <2>1, ExchangesOfAppend
<1>6. \A i \in DOMAIN E : IsSeq(E[i].messages)
  BY DEF FormsInv, WireOK, Wired
<1>7. IsSeq(e.messages)
  <2> DEFINE D == Exchanges(har')
  <2>1. \A i \in DOMAIN D : IsSeq(D[i].messages)
    BY DEF FormsInv, WireOK, Wired
  <2> HIDE DEF E
  <2>2. /\ DOMAIN Append(E, e) = 1 .. (Len(E) + 1) /\ Append(E, e)[Len(E) + 1] = e
        /\ Len(E) \in Nat
    BY <1>2, AppendIs
  <2>3. Len(E) + 1 \in DOMAIN Append(E, e)
    BY <2>2
  <2> QED
    BY <1>5, <2>1, <2>2, <2>3
<1> HIDE DEF E
<1>8. mt = IF Parsed(e) THEN ms \o e.messages ELSE ms
  BY <1>2, <1>6, <1>7, ParsedWireOfAppend
<1>9. Slice(ms, sent, 0, page.seen)
  BY DEF AllSeen, E
<1>10. AllSeen' <=> Slice(mt, sent', 0, page'.seen)
  BY <1>5 DEF AllSeen
<1> HIDE DEF ms, mt
<1>11. Slice(ms, sent', 0, page.seen)
  <2>1. page.seen <= Len(sent)
    BY <1>2
  <2> QED
    BY <1>3, <1>4, <1>9, <2>1, SliceStays
<1>12. CASE parsed
  <2>1. page.seen + 1 \in 1 .. (K + 1)
    BY <1>2, <1>3, <1>4
  <2>2. Slice(x, sent', page.seen, K)
    <3> DEFINE m == page.seen + 1
    <3>1. m \in 1 .. (Len(sent') + 1) /\ m \in Nat
      BY <2>1
    <3> HIDE DEF m
    <3>2. /\ IsSeq(SubSeq(sent', m, Len(sent')))
          /\ Len(SubSeq(sent', m, Len(sent'))) = Len(sent') - m + 1
          /\ \A i \in 1 .. (Len(sent') - m + 1) :
               SubSeq(sent', m, Len(sent'))[i] = sent'[m + i - 1]
      BY <1>4, <3>1, RestIs
    <3> HIDE DEF x
    <3>3. x = SubSeq(sent', m, Len(sent'))
      BY DEF x, m
    <3>4. Len(sent') - m + 1 = K - page.seen
      BY <1>3, <1>4 DEF m
    <3>5. \A i \in 1 .. (K - page.seen) : m + i - 1 = page.seen + i
      BY <1>3, <1>4 DEF m
    <3> QED
      BY <3>2, <3>3, <3>4, <3>5 DEF Slice
  <2>3. mt = ms \o x /\ page'.seen = K
    BY <1>1, <1>8, <1>12
  <2> HIDE DEF x, K
  <2>4. page.seen <= K
    BY <1>2, <1>3, <1>4 DEF K
  <2>5. Slice(ms \o x, sent', 0, K)
    BY <1>3, <1>4, <1>11, <2>2, <2>4, SlicesJoin DEF K
  <2> QED
    BY <1>10, <2>3, <2>5
<1>13. CASE ~parsed
  BY <1>1, <1>8, <1>10, <1>11, <1>13
<1> QED
  BY <1>12, <1>13

(* What an OK attaches is counted, and its dialog was the only one.        *)
LEMMA OKAttaches ==
  ASSUME NEW c, IsCommand(c), c.name = "OK", Ready(c), FormsOK, Stacked, DialogsOK, Handle(c)
  PROVE  Closed' /\ Attaches(c.root, Answer(c), upload'.file, receipts')
<1> DEFINE a == Answer(c)
           r == c.root.report
           details == {g \in forms : g.kind = "details" /\ g.report = r}
           N == Cardinality(receipts[r] \cup {upload.file})
<1>1. /\ a.made = {} /\ a.deleted = {c.root}
      /\ a.counts = UNION {CountOf(g, N) : g \in details}
  BY AnswerTells
<1>2. /\ forms' = (forms \ a.deleted) \cup a.made
      /\ receipts' = [receipts EXCEPT ![r] = @ \cup {upload.file}]
      /\ upload' = upload
  BY DEF Handle
<1>3. c.root = Top /\ forms # {} /\ c.root.kind = "dialog"
  BY DEF Ready, OnForm, KindsFor
<1>4. c.root \in forms
  BY <1>3, TopIsNewest
<1>5. r \in AllReports /\ receipts \in [AllReports -> SUBSET Nat]
  BY <1>3, <1>4 DEF DialogsOK
<1>6. receipts'[r] = receipts[r] \cup {upload.file}
  BY <1>2, <1>5
<1> HIDE DEF a, r
<1>7. Closed'
  <2>1. \A f \in forms' : f.kind # "dialog"
    BY <1>1, <1>2, <1>3, BehindTop
  <2>2. upload.stage = "closed"
    BY DEF Ready
  <2> QED
    BY <1>2, <2>1, <2>2 DEF Closed
<1>8. ASSUME NEW t \in a.counts
      PROVE  /\ t.root.report = r /\ upload'.file \in receipts'[r]
             /\ t.count = Cardinality(receipts'[r])
  <2>1. PICK g \in details : t \in CountOf(g, N)
    BY <1>1
  <2>2. t.root = g /\ t.count = N
    BY <2>1 DEF CountOf
  <2> QED
    BY <1>2, <1>6, <2>1, <2>2
<1>9. \A t \in a.counts :
        /\ t.root.report = r /\ upload'.file \in receipts'[r]
        /\ t.count = Cardinality(receipts'[r])
  BY <1>8
<1> QED
  BY <1>7, <1>9 DEF Attaches, a, r

(* Unless a check succeeds, what an OK attached stands.                    *)
LEMMA RequestSettles ==
  ASSUME IInv, FormsInv, StackInv, Settled, NEW n, NEW c, Sends(n, c), Fit(n, c), Done(n, c),
         NEW e, NEW parsed \in BOOLEAN, Requested(n, c, e, parsed), Carried(n, c, e, parsed)
  PROVE  \/ Checked(e)
         \/ Settled' /\ receipts' = receipts /\ upload'.file = upload.file
<1>1. /\ e.type = "exchange" /\ e.sent = n /\ e.acked = accepted'
      /\ Parsed(e) <=> parsed
      /\ page'.pending = (IF parsed /\ accepted' >= n THEN 0 ELSE n)
  BY DEF Requested
<1>2. /\ e.command = c
      /\ page'.command = (IF parsed /\ accepted' >= n THEN NoCommand ELSE c)
  BY DEF Carried
<1>3. /\ page.pending \in Nat /\ page.next \in Nat /\ accepted \in Nat /\ accepted < page.next
      /\ IsCommand(c) /\ (n = page.pending \/ (n = page.next /\ page.pending = 0)) /\ n \in Nat
      /\ FormsOK /\ upload \in UploadSet
  BY DEF IInv, StateOK, NumbersOK, PageSet, Sends
<1>4. c.name = "CheckFile" => c.root.kind = "dialog"
  BY DEF Fit
\* A check that was handled and parsed is one that succeeded.
<1>5. c.name = "CheckFile" /\ accepted' >= n /\ parsed => Checked(e)
  BY <1>1, <1>2, <1>4 DEF Checked, IsExchange, Succeeded
<1>6. c.name = "CheckFile" /\ accepted' >= n /\ ~parsed /\ n # 0 =>
        Kept' /\ (page'.command).name = "CheckFile"
  BY <1>1, <1>2 DEF Kept
<1>7. CASE accepted' = accepted /\ DoNotHandle
  <2>1. forms' = forms /\ upload' = upload /\ receipts' = receipts
    BY <1>7 DEF DoNotHandle
  <2>2. CASE upload.stage = "open" \/ Closed
    BY <2>1, <2>2 DEF Settled, Closed
  <2>3. CASE upload.stage = "checked" /\ Kept /\ page.command.name = "CheckFile"
    <3>1. n = page.pending /\ n # 0 /\ accepted >= n
      BY <1>3, <2>3 DEF Kept
    <3>2. c.name = "CheckFile"
      BY <2>3, <3>1 DEF Fit
    <3> QED
      BY <1>5, <1>6, <1>7, <2>1, <2>3, <3>1, <3>2 DEF Settled
  <2> QED
    BY <2>2, <2>3 DEF Settled
<1>8. CASE n > accepted /\ accepted' = n /\ Handle(c)
  <2>1. ~Kept
    BY <1>3, <1>8 DEF Kept
  <2>2. upload.stage = "open" \/ Closed
    BY <2>1 DEF Settled
  <2>3. Ready(c)
    BY <1>8 DEF Fit
  <2>4. c.name # "OK" /\ c.name # "CloseUpload"
    <3>1. ASSUME c.name = "OK" PROVE FALSE
      <4>1. upload.stage = "closed" /\ forms # {} /\ c.root = Top /\ Top.kind = "dialog"
        BY <2>3, <3>1 DEF Ready, OnForm, KindsFor
      <4>2. Top \in forms
        BY <1>3, <4>1, TopIsNewest
      <4> QED
        BY <2>2, <4>1, <4>2 DEF Closed
    <3>2. ASSUME c.name = "CloseUpload" PROVE FALSE
      BY <2>2, <2>3, <3>2 DEF Ready, Closed
    <3> QED
      BY <3>1, <3>2
  <2>5. receipts' = receipts
    BY <1>8, <2>4 DEF Handle
  <2>6. upload' = CASE c.name = "Add" -> [stage |-> "open", file |-> upload.file]
                    [] c.name = "CheckFile" -> [upload EXCEPT !.stage = "checked"]
                    [] c.name = "CloseUpload" -> [upload EXCEPT !.stage = "closed"]
                    [] OTHER -> upload
    BY <1>8 DEF Handle
  <2>7. CASE c.name = "Add"
    <3>1. upload' = [stage |-> "open", file |-> upload.file]
      BY <2>6, <2>7
    <3> QED
      BY <2>5, <3>1 DEF Settled
  <2>8. CASE c.name = "CheckFile"
    <3>1. upload' = [upload EXCEPT !.stage = "checked"]
      BY <2>6, <2>8
    <3>2. upload'.stage = "checked" /\ upload'.file = upload.file
      BY <1>3, <3>1 DEF UploadSet
    <3>3. accepted' >= n /\ n # 0
      BY <1>3, <1>8
    <3> QED
      BY <1>5, <1>6, <2>5, <2>8, <3>2, <3>3 DEF Settled
  <2>9. CASE c.name # "Add" /\ c.name # "CheckFile"
    <3>1. upload' = upload
      BY <2>4, <2>6, <2>9
    <3>2. Closed => Closed'
      <4> SUFFICES ASSUME Closed PROVE \A f \in forms' : f.kind # "dialog"
        BY <3>1 DEF Closed
      <4>1. forms' = (forms \ Answer(c).deleted) \cup Answer(c).made
        BY <1>8 DEF Handle
      <4>2. ASSUME NEW m \in Answer(c).made PROVE m.kind # "dialog"
        <5>1. PICK kind \in Kinds : \E report :
                /\ Answer(c).made = {Form(lastForm + 1, kind, report)}
                /\ kind = "dialog" => c.name = "Add"
          BY <1>3, <2>3, <4>2, HandledForms DEF StackInv
        <5>2. m.kind = kind
          BY <5>1 DEF Form
        <5> QED
          BY <2>9, <5>1, <5>2
      <4> QED
        BY <4>1, <4>2 DEF Closed
    <3> QED
      BY <2>2, <2>5, <3>1, <3>2 DEF Settled
  <2> QED
    BY <2>7, <2>8, <2>9
<1> QED
  BY <1>7, <1>8 DEF Done

(* What a request leaves is on one page only if the page was.              *)
LEMMA RequestKeepsReceipts ==
  ASSUME IInv, FormsInv, FormsInv', ReceiptInv, NEW n, NEW c, Sends(n, c), Fit(n, c), Done(n, c),
         Aimed(n, c, accepted, forms, sent),
         NEW e, NEW parsed \in BOOLEAN, Requested(n, c, e, parsed), Carried(n, c, e, parsed)
  PROVE  ReceiptInv'
<1> DEFINE L == Len(har)
           M == Len(sent)
<1>1. /\ har' = Append(har, e) /\ e.type = "exchange"
      /\ e.language = (IF page.language THEN "en" ELSE NoLanguage)
      /\ Parsed(e) <=> parsed
      /\ ~parsed => e.messages = <<>>
      /\ parsed => e.messages = SubSeq(sent', page.seen + 1, Len(sent'))
      /\ page'.pending = (IF parsed /\ accepted' >= n THEN 0 ELSE n)
  BY DEF Requested
<1>2. /\ e.command = c
      /\ page'.command = (IF parsed /\ accepted' >= n THEN NoCommand ELSE c)
  BY DEF Carried
<1>2a. page.language => page'.language
  BY DEF Carried
<1>3. /\ IsSeq(har) /\ IsSeq(sent) /\ FormsOK /\ page \in PageSet /\ accepted \in Nat
      /\ accepted < page.next
  BY DEF IInv, StateOK, NumbersOK
<1>4. /\ page.seen \in Nat /\ page.pending \in Nat /\ page.next \in Nat /\ M \in Nat
      /\ DOMAIN sent = 1 .. M
  BY <1>3 DEF PageSet, IsSeq
<1>5. IsCommand(c) /\ (n = page.pending \/ (n = page.next /\ page.pending = 0)) /\ n \in Nat
  BY <1>4 DEF Sends
<1>6. /\ L \in Nat /\ DOMAIN har = 1 .. L /\ DOMAIN har' = 1 .. (L + 1)
      /\ \A i \in 1 .. L : har'[i] = har[i]
      /\ har'[L + 1] = e
  BY <1>1, <1>3, AppendIs
<1> HIDE DEF L
<1>7. IsExchange(e)
  BY <1>1 DEF IsExchange
<1>8. StackInv'
  BY RequestKeepsStack DEF ReceiptInv, FormsInv
<1>9. LanguageOK'
  <2>1. CASE page.language
    <3>1. page'.language
      BY <1>2a, <2>1
    <3> QED
      BY <3>1 DEF LanguageOK
  <2>2. CASE ~page.language
    <3>1. e.language = NoLanguage /\ L + 1 \in DOMAIN har'
      BY <1>1, <1>6, <2>2
    <3> QED
      BY <1>6, <1>7, <3>1 DEF LanguageOK
  <2> QED
    BY <2>1, <2>2
<1>10. ASSUME OnePage' PROVE (AllSeen /\ KeptAttaches /\ OKsAttach)'
  <2>1. OnePage
    <3>1. page.language
      <4>1. e.language # NoLanguage
        BY <1>6, <1>7, <1>10 DEF OnePage
      <4> QED
        BY <1>1, <4>1
    <3>2. \A i \in 1 .. L : i \in 1 .. (L + 1)
      BY <1>6
    <3> QED
      BY <1>6, <1>10, <3>1, <3>2 DEF OnePage
  <2>2. AllSeen /\ KeptAttaches /\ OKsAttach
    BY <2>1 DEF ReceiptInv
  <2>3. AllSeen'
    BY <2>2, RequestKeepsSeen
\* What the page has not seen yet, of an OK, attaches.
  <2>4. ASSUME c.name = "OK", accepted' >= n, n # 0
        PROVE  /\ Closed' /\ Attaches(c.root, sent'[Len(sent')], upload'.file, receipts')
               /\ Len(sent') = page.seen + 1 /\ IsSeq(sent')
    <3>1. CASE accepted' = accepted /\ DoNotHandle
      <4>1. n = page.pending /\ Kept
        BY <1>3, <1>4, <1>5, <2>4, <3>1 DEF Kept
      <4>2. page.command = c
        BY <4>1 DEF Fit
      <4>3. Closed /\ Attaches(c.root, sent[Len(sent)], upload.file, receipts)
        BY <2>2, <2>4, <4>1, <4>2 DEF KeptAttaches
      <4>4. Len(sent) = page.seen + 1
        BY <4>1 DEF ReceiptInv, StackInv, KeptOK
      <4>5. forms' = forms /\ upload' = upload /\ receipts' = receipts /\ sent' = sent
        BY <3>1 DEF DoNotHandle
      <4> QED
        BY <1>3, <4>3, <4>4, <4>5 DEF Closed
    <3>2. CASE n > accepted /\ accepted' = n /\ Handle(c)
      <4>1. Ready(c)
        BY <3>2 DEF Fit
      <4>2. /\ Closed' /\ Attaches(c.root, Answer(c), upload'.file, receipts')
        BY <1>3, <1>5, <2>4, <3>2, <4>1, OKAttaches DEF ReceiptInv, StackInv
      <4>3. sent' = Append(sent, Answer(c))
        BY <3>2 DEF Handle
      <4>4. Len(sent') = M + 1 /\ sent'[M + 1] = Answer(c) /\ IsSeq(sent')
        BY <1>3, <4>3, AppendIs
      <4>5. page.seen = M
        BY <1>3, <1>4, <1>5, <3>2 DEF FormsInv, SeenOK
      <4> QED
        BY <4>2, <4>4, <4>5
    <3> QED
      BY <3>1, <3>2 DEF Done
  <2>5. KeptAttaches'
    <3> SUFFICES ASSUME page'.pending # 0, accepted' >= page'.pending,
                        (page'.command).name = "OK"
                 PROVE  /\ Closed'
                        /\ Attaches((page'.command).root, sent'[Len(sent')], upload'.file, receipts')
      BY DEF KeptAttaches, Kept
    <3>1. page'.pending = n /\ n # 0 /\ accepted' >= n /\ page'.command = c
      BY <1>1, <1>2
    <3> QED
      BY <2>4, <3>1
  <2>6. OKsAttach'
    <3>1. ASSUME NEW k \in DOMAIN har', IsExchange(har'[k]), har'[k].command.name = "OK",
                 NEW i \in DOMAIN har'[k].messages
          PROVE  CountsStand(k, i)'
      <4>1. CASE k = L + 1
        <5>1. har'[k] = e /\ c.name = "OK"
          <6>1. har'[k] = e
            BY <1>6, <4>1
          <6> QED
            BY <1>2, <3>1, <6>1
        <5>2. parsed
          BY <1>1, <3>1, <5>1, EmptyIs
        <5>3. ASSUME ~(accepted' >= n /\ n # 0) PROVE FALSE
          <6>1. accepted' = accepted /\ DoNotHandle
            BY <1>3, <1>5, <5>3 DEF Done
          <6>2. page.pending = 0 \/ accepted < page.pending
            BY <1>3, <1>4, <1>5, <5>3, <6>1
          <6>3. page.seen = Len(sent') /\ Len(sent') = M
            BY <6>1, <6>2 DEF FormsInv, SeenOK, DoNotHandle
          <6>4. e.messages = SubSeq(sent, M + 1, Len(sent))
            BY <1>1, <5>2, <6>1, <6>3 DEF DoNotHandle
          <6>5. M + 1 \in 1 .. (Len(sent) + 1) /\ Len(sent) - (M + 1) + 1 = 0
            BY <1>4
          <6>6. DOMAIN SubSeq(sent, M + 1, Len(sent)) = 1 .. 0
            BY <1>3, <6>5, RestIs
          <6> QED
            BY <3>1, <5>1, <6>4, <6>6
        <5>4. /\ Closed' /\ Attaches(c.root, sent'[Len(sent')], upload'.file, receipts')
              /\ Len(sent') = page.seen + 1 /\ IsSeq(sent')
          BY <2>4, <5>1, <5>3
        <5>5. e.messages = SubSeq(sent', Len(sent'), Len(sent'))
          BY <1>1, <5>2, <5>4
        <5>6. Len(sent') \in 1 .. (Len(sent') + 1) /\ Len(sent') \in Nat
          BY <1>4, <5>4
        <5>7. /\ DOMAIN e.messages = 1 .. (Len(sent') - Len(sent') + 1)
              /\ \A j \in 1 .. (Len(sent') - Len(sent') + 1) :
                   e.messages[j] = sent'[Len(sent') + j - 1]
          <6> DEFINE m == Len(sent')
          <6>1. m \in 1 .. (Len(sent') + 1) /\ m = Len(sent')
            BY <5>6
          <6> HIDE DEF m
          <6>2. /\ DOMAIN SubSeq(sent', m, Len(sent')) = 1 .. (Len(sent') - m + 1)
                /\ \A j \in 1 .. (Len(sent') - m + 1) :
                     SubSeq(sent', m, Len(sent'))[j] = sent'[m + j - 1]
            BY <5>4, <6>1, RestIs
          <6> QED
            BY <5>5, <6>1, <6>2
        <5>8. i = 1 /\ e.messages[1] = sent'[Len(sent')]
          <6>1. Len(sent') - Len(sent') + 1 = 1 /\ Len(sent') + 1 - 1 = Len(sent')
            BY <5>6
          <6>2. i \in 1 .. 1
            BY <3>1, <5>1, <5>7, <6>1
          <6> QED
            BY <5>7, <6>1, <6>2
        <5>9. Settled'
          BY <5>4 DEF Settled
        <5>10. har'[k].messages[i] = sent'[Len(sent')] /\ har'[k].command.root = c.root
          <6>1. e.command.root = c.root
            BY <1>2
          <6> QED
            BY <5>1, <5>8, <6>1
        <5> QED
          BY <5>4, <5>9, <5>10 DEF CountsStand
      <4>2. CASE k # L + 1
        <5>1. k \in DOMAIN har /\ har'[k] = har[k]
          BY <1>6, <4>2
        <5>2. CountsStand(k, i)
          BY <2>2, <3>1, <5>1 DEF OKsAttach
        <5>3. CASE har[k].messages[i].counts = {}
          BY <5>1, <5>3 DEF CountsStand
        <5>4. ASSUME NEW j \in DOMAIN har, j > k, Checked(har[j]) PROVE CountsStand(k, i)'
          <6>1. j \in DOMAIN har' /\ har'[j] = har[j]
            BY <1>6
          <6> QED
            BY <5>4, <6>1 DEF CountsStand, Checked, IsExchange, Succeeded, Parsed
        <5>5. CASE Settled /\ Attaches(har[k].command.root, har[k].messages[i], upload.file, receipts)
          <6>1. CASE Checked(e)
            <7>1. L + 1 \in DOMAIN har' /\ L + 1 > k
              BY <1>6, <5>1
            <7> QED
              BY <1>6, <6>1, <7>1 DEF CountsStand, Checked, IsExchange, Succeeded, Parsed
          <6>2. CASE Settled' /\ receipts' = receipts /\ upload'.file = upload.file
            BY <5>1, <5>5, <6>2 DEF CountsStand
          <6> QED
            BY <5>5, <6>1, <6>2, RequestSettles DEF ReceiptInv
        <5> QED
          BY <5>2, <5>3, <5>4, <5>5 DEF CountsStand
      <4> QED
        BY <4>1, <4>2
    <3> QED
      BY <3>1 DEF OKsAttach, CountsStand, IsExchange
  <2> QED
    BY <2>3, <2>5, <2>6
<1> QED
  BY <1>8, <1>9, <1>10 DEF ReceiptInv

LEMMA SentKeepsReceipts ==
  ASSUME IInv, FormsInv, FormsInv', ReceiptInv, NEW n, NEW c, Sends(n, c), Fit(n, c),
         Aimed(n, c, accepted, forms, sent), Request(n, c)
  PROVE  ReceiptInv'
<1>1. PICK e : \E parsed \in BOOLEAN : Requested(n, c, e, parsed) /\ Carried(n, c, e, parsed)
  BY RequestIs DEF IInv
<1>2. PICK parsed \in BOOLEAN : Requested(n, c, e, parsed) /\ Carried(n, c, e, parsed)
  BY <1>1
<1>3. Done(n, c)
  BY DoneIs
<1> QED
  BY <1>2, <1>3, RequestKeepsReceipts

\* A number above another is not 0.
LEMMA Positive == \A i, j \in Nat : i < j => j # 0
OBVIOUS

(* A command on the form in front finds what it needs.                     *)
LEMMA DoKeepsReceipts ==
  ASSUME IInv, FormsInv, FormsInv', ReceiptInv,
         NEW name \in Names, NEW file \in Nat, NEW report \in AnyReport,
         InSync, name \notin {"", "Load"}, Top.kind # "none", Top.kind \in KindsFor(name),
         name = "Add" => Top.report \in Editable,
         name = "OK" => upload.stage = "closed",
         name = "CloseUpload" => upload.stage = "uploaded",
         Request(page.next, [name |-> name, root |-> Top, file |-> file, report |-> report])
  PROVE  ReceiptInv'
<1> DEFINE c == [name |-> name, root |-> Top, file |-> file, report |-> report]
<1>1. Top \in FormSet /\ Top \in forms
  BY TopIs DEF IInv, StateOK
<1>2. IsCommand(c)
  BY <1>1 DEF IsCommand, CommandSet
<1>3. Request(page.next, c)
  OBVIOUS
<1>4. c.name = name /\ c.root = Top
  OBVIOUS
<1> HIDE DEF c
<1>5. Sends(page.next, c)
  BY <1>2 DEF Sends, InSync
<1>6. KindOK(c)
  BY <1>4 DEF KindOK, KindsFor
<1>7. Aimed(page.next, c, accepted, forms, sent)
  BY <1>1, <1>4, <1>6 DEF Aimed, Known
<1>8. Ready(c)
  BY <1>1, <1>4 DEF Ready
<1>9. page.next # page.pending
  <2>1. page.pending = 0 /\ page.next \in Nat /\ accepted \in Nat /\ accepted < page.next
    BY DEF InSync, IInv, StateOK, NumbersOK, PageSet
  <2>2. page.next # 0
    BY <2>1, Positive
  <2> QED
    BY <2>1, <2>2
<1>10. Fit(page.next, c)
  BY <1>4, <1>8, <1>9 DEF Fit, KindsFor
<1> QED
  BY <1>3, <1>5, <1>7, <1>10, SentKeepsReceipts

LEMMA NamedKeepsReceipts ==
  ASSUME IInv, FormsInv, FormsInv', ReceiptInv,
         NEW name \in Names \ {"", "Load"}, NEW kind \in KindsFor(name), kind # "none",
         name = "Add" => Top.report \in Editable, name = "OK" => upload.stage = "closed",
         name # "CloseUpload", Do(name, kind)
  PROVE  ReceiptInv'
<1>1. InSync /\ Top.kind = kind /\ Request(page.next, Command(name, Top))
  BY DEF Do
<1>2. Command(name, Top) = [name |-> name, root |-> Top, file |-> 0, report |-> NoReport]
  BY DEF Command
<1>3. NoReport \in AnyReport /\ 0 \in Nat
  BY DEF AnyReport
<1>4. Request(page.next, [name |-> name, root |-> Top, file |-> 0, report |-> NoReport])
  BY <1>1, <1>2
<1> QED
  BY <1>1, <1>3, <1>4, DoKeepsReceipts

LEMMA OpenKeepsReceipts ==
  ASSUME IInv, FormsInv, FormsInv', ReceiptInv, NEW r \in Reports, Open(r)
  PROVE  ReceiptInv'
<1> DEFINE d == Command("Open", Top)
<1>1. InSync /\ Top.kind = "workspace" /\ Request(page.next, [d EXCEPT !.report = r])
  BY DEF Open
<1>2. [d EXCEPT !.report = r] = [name |-> "Open", root |-> Top, file |-> 0, report |-> r]
  <2>1. d \in [name : {"Open"}, root : {Top}, file : {0}, report : {NoReport}]
    BY DEF Command
  <2> HIDE DEF d
  <2> QED
    BY <2>1
<1>3. r \in AnyReport /\ "Open" \in Names /\ 0 \in Nat /\ Top.kind \in KindsFor("Open")
  BY <1>1 DEF AnyReport, AllReports, Names, KindsFor
<1>4. Request(page.next, [name |-> "Open", root |-> Top, file |-> 0, report |-> r])
  BY <1>1, <1>2
<1> QED
  BY <1>1, <1>3, <1>4, DoKeepsReceipts

LEMMA CloseUploadKeepsReceipts ==
  ASSUME IInv, FormsInv, FormsInv', ReceiptInv, CloseUpload
  PROVE  ReceiptInv'
<1> DEFINE d == Command("CloseUpload", Top)
<1>1. /\ InSync /\ Top.kind = "dialog" /\ Request(page.next, [d EXCEPT !.file = upload.file])
      /\ upload.stage = "uploaded"
  BY DEF CloseUpload
<1>2. [d EXCEPT !.file = upload.file]
        = [name |-> "CloseUpload", root |-> Top, file |-> upload.file, report |-> NoReport]
  <2>1. d \in [name : {"CloseUpload"}, root : {Top}, file : {0}, report : {NoReport}]
    BY DEF Command
  <2> HIDE DEF d
  <2> QED
    BY <2>1
<1>3. /\ NoReport \in AnyReport /\ "CloseUpload" \in Names /\ upload.file \in Nat
      /\ Top.kind \in KindsFor("CloseUpload")
  BY <1>1 DEF AnyReport, Names, IInv, StateOK, UploadSet, KindsFor
<1>4. Request(page.next, [name |-> "CloseUpload", root |-> Top, file |-> upload.file,
                          report |-> NoReport])
  BY <1>1, <1>2
<1> QED
  BY <1>1, <1>3, <1>4, DoKeepsReceipts

LEMMA PollKeepsReceipts ==
  ASSUME IInv, FormsInv, FormsInv', ReceiptInv, Poll
  PROVE  ReceiptInv'
<1>1. Request(page.pending, page.command)
  BY DEF Poll
<1>2. Sends(page.pending, page.command)
  BY DEF Sends, IInv, StateOK
<1>3. Aimed(page.pending, page.command, accepted, forms, sent)
  BY DEF FormsInv, CommandOK
<1>4. accepted \in Nat /\ page.pending \in Nat
  BY DEF IInv, StateOK, PageSet
<1>5. Fit(page.pending, page.command)
  BY <1>4 DEF Fit, ReceiptInv, StackInv, ReadyOK
<1> QED
  BY <1>1, <1>2, <1>3, <1>5, SentKeepsReceipts

(* What neither sends nor records an exchange leaves it alone; a file can  *)
(* only be uploaded after one was checked.                                 *)
LEMMA OthersKeepReceipts ==
  ASSUME ReceiptInv, Exchanges(har') = Exchanges(har), IsSeq(har), accepted \in Nat,
         har' = har \/ \E e : har' = Append(har, e) /\ ~IsExchange(e),
         accepted' = accepted, sent' = sent, forms' = forms, lastForm' = lastForm,
         receipts' = receipts, upload' = upload \/ (InSync /\ upload.stage = "checked"),
         page'.command = page.command, page'.pending = page.pending,
         page'.seen = page.seen, page'.language = page.language,
         upload' = upload \/ upload'.stage = "uploaded"
  PROVE  ReceiptInv'
<1> DEFINE L == Len(har)
<1>1. /\ L \in Nat /\ DOMAIN har = 1 .. L
      /\ DOMAIN har' = 1 .. L \/ DOMAIN har' = 1 .. (L + 1)
      /\ \A i \in 1 .. L : har'[i] = har[i]
      /\ \A i \in DOMAIN har' : IsExchange(har'[i]) => i \in 1 .. L
  <2>1. CASE har' = har
    <3>1. L \in Nat /\ DOMAIN har = 1 .. L
      BY DEF IsSeq
    <3> QED
      BY <2>1, <3>1
  <2>2. ASSUME NEW e, har' = Append(har, e), ~IsExchange(e) PROVE <1>1
    <3>1. /\ L \in Nat /\ DOMAIN har = 1 .. L /\ DOMAIN har' = 1 .. (L + 1)
          /\ \A i \in 1 .. L : har'[i] = har[i]
          /\ har'[L + 1] = e
      BY <2>2, AppendIs
    <3>2. \A i \in 1 .. (L + 1) : i = L + 1 \/ i \in 1 .. L
      BY <3>1
    <3> QED
      BY <2>2, <3>1, <3>2
  <2> QED
    BY <2>1, <2>2
<1> HIDE DEF L
<1>2. \A i \in 1 .. L : i \in DOMAIN har'
  BY <1>1
<1>3. upload' # upload => ~Settled /\ ~Kept
  BY DEF Settled, Closed, Kept, InSync
<1>4. StackInv'
  <2>1. Stacked' /\ DialogsOK' /\ MadeOK' /\ StatusOK'
    BY DEF ReceiptInv, StackInv, Stacked, DialogsOK, MadeOK, StatusOK, Editable, AllReports
  <2>2. KeptOK'
    BY DEF ReceiptInv, StackInv, KeptOK, Kept
  <2>3. ReadyOK'
    <3>1. ReadyOK
      BY DEF ReceiptInv, StackInv
    <3>2. ASSUME accepted < page.pending PROVE Ready(page.command)'
      <4>1. Ready(page.command)
        BY <3>1, <3>2 DEF ReadyOK
      <4>2. ~InSync
        <5>1. \A i \in Nat : ~(i < 0)
          OBVIOUS
        <5> QED
          BY <3>2, <5>1 DEF InSync
      <4>3. upload' = upload
        BY <4>2
      <4> QED
        BY <4>1, <4>3 DEF Ready, Top, Editable
    <3> QED
      BY <3>1, <3>2 DEF ReadyOK
  <2> QED
    BY <2>1, <2>2, <2>3 DEF StackInv
<1>5. LanguageOK'
  BY <1>1, <1>2 DEF ReceiptInv, LanguageOK
<1>6. ASSUME OnePage' PROVE (AllSeen /\ KeptAttaches /\ OKsAttach)'
  <2>1. OnePage
    BY <1>1, <1>2, <1>6 DEF OnePage
  <2>2. AllSeen /\ KeptAttaches /\ OKsAttach
    BY <2>1 DEF ReceiptInv
  <2>3. AllSeen'
    BY <2>2 DEF AllSeen
  <2>4. KeptAttaches'
    <3>1. CASE upload' = upload
      BY <2>2, <3>1 DEF KeptAttaches, Kept, Closed
    <3>2. CASE upload' # upload
      BY <1>3, <3>2 DEF KeptAttaches, Kept
    <3> QED
      BY <3>1, <3>2
  <2>5. OKsAttach'
    <3>1. ASSUME NEW k \in DOMAIN har', IsExchange(har'[k]), har'[k].command.name = "OK",
                 NEW i \in DOMAIN har'[k].messages
          PROVE  CountsStand(k, i)'
      <4>1. k \in DOMAIN har /\ har'[k] = har[k]
        BY <1>1, <3>1
      <4>2. CountsStand(k, i)
        BY <2>2, <3>1, <4>1 DEF OKsAttach
      <4>3. CASE har[k].messages[i].counts = {}
        BY <4>1, <4>3 DEF CountsStand
      <4>4. ASSUME NEW j \in DOMAIN har, j > k, Checked(har[j]) PROVE CountsStand(k, i)'
        <5>1. j \in DOMAIN har' /\ har'[j] = har[j]
          BY <1>1, <1>2
        <5> QED
          BY <4>4, <5>1 DEF CountsStand, Checked, IsExchange, Succeeded, Parsed
      <4>5. CASE /\ Settled
                 /\ Attaches(har[k].command.root, har[k].messages[i], upload.file, receipts)
        <5>1. upload' = upload
          BY <1>3, <4>5
        <5>2. Settled'
          BY <4>5, <5>1 DEF Settled, Closed, Kept
        <5> QED
          BY <4>1, <4>5, <5>1, <5>2 DEF CountsStand
      <4> QED
        BY <4>2, <4>3, <4>4, <4>5 DEF CountsStand
    <3> QED
      BY <3>1 DEF OKsAttach, CountsStand, IsExchange
  <2> QED
    BY <2>3, <2>4, <2>5
<1> QED
  BY <1>4, <1>5, <1>6 DEF ReceiptInv

LEMMA UploadKeepsReceipts ==
  ASSUME IInv, ReceiptInv, UploadFile
  PROVE  ReceiptInv'
<1>1. /\ page' = page /\ accepted' = accepted /\ sent' = sent /\ forms' = forms
      /\ lastForm' = lastForm /\ receipts' = receipts
      /\ InSync /\ upload.stage = "checked"
  BY DEF UploadFile
<1>2. PICK e : har' = Append(har, e) /\ e.type = "upload"
  BY DEF UploadFile
<1>3. IsSeq(har) /\ accepted \in Nat
  BY DEF IInv, StateOK
<1>4. ~IsExchange(e)
  BY <1>2 DEF IsExchange
<1>5. Exchanges(har') = Exchanges(har)
  BY <1>2, <1>3, <1>4, ExchangesOfAppend
<1>6. upload' = upload \/ upload'.stage = "uploaded"
  <2>1. upload' = upload \/ upload' = [stage |-> "uploaded", file |-> upload.file + 1]
    BY DEF UploadFile
  <2> QED
    BY <2>1
<1>7. har' = har \/ \E x : har' = Append(har, x) /\ ~IsExchange(x)
  BY <1>2, <1>4
<1> QED
  BY <1>1, <1>3, <1>5, <1>6, <1>7, OthersKeepReceipts

LEMMA RenewKeepsReceipts ==
  ASSUME IInv, ReceiptInv, Renew
  PROVE  ReceiptInv'
<1>1. /\ page' = [page EXCEPT !.auth = @ + 1]
      /\ har' = har /\ accepted' = accepted /\ sent' = sent /\ forms' = forms
      /\ lastForm' = lastForm /\ receipts' = receipts /\ upload' = upload
  BY DEF Renew
<1>2. page \in PageSet /\ IsSeq(har) /\ accepted \in Nat
  BY DEF IInv, StateOK
<1>3. /\ page'.command = page.command /\ page'.pending = page.pending /\ page'.seen = page.seen
      /\ page'.language = page.language
  BY <1>1, <1>2 DEF PageSet
<1>4. Exchanges(har') = Exchanges(har)
  BY <1>1
<1> QED
  BY <1>1, <1>2, <1>3, <1>4, OthersKeepReceipts

LEMMA SameKeepsReceipts ==
  ASSUME IInv, ReceiptInv, UNCHANGED vars
  PROVE  ReceiptInv'
<1>1. /\ page' = page /\ har' = har /\ accepted' = accepted /\ sent' = sent /\ forms' = forms
      /\ lastForm' = lastForm /\ receipts' = receipts /\ upload' = upload
  BY DEF vars
<1>2. IsSeq(har) /\ accepted \in Nat
  BY DEF IInv, StateOK
<1>3. Exchanges(har') = Exchanges(har)
  BY <1>1
<1> QED
  BY <1>1, <1>2, <1>3, OthersKeepReceipts

\* A page that is loaded has no language before its first answer.
LEMMA LoadPageKeepsReceipts ==
  ASSUME IInv, ReceiptInv, LoadPage
  PROVE  ReceiptInv'
<1>1. /\ har' = har /\ accepted' = 0 /\ sent' = <<>> /\ forms' = {}
      /\ lastForm' = lastForm /\ receipts' = receipts /\ upload' = upload
  BY DEF LoadPage
<1>2. PICK w \in Places : page' = FreshPage(w, page.auth)
  BY DEF LoadPage
<1>3. page'.language = FALSE /\ page'.pending = 1 /\ page'.command.name = "Load"
  BY <1>2 DEF FreshPage, Command
<1>4. DOMAIN sent' = {}
  BY <1>1, EmptyIs
<1>5. Stacked' /\ StatusOK'
  BY <1>1, <1>4 DEF Stacked, StatusOK
<1>6. DialogsOK'
  BY <1>1 DEF ReceiptInv, StackInv, DialogsOK, AllReports
<1>7. MadeOK'
  BY <1>1, <1>4 DEF ReceiptInv, StackInv, MadeOK
<1>8. ~Kept'
  BY <1>1, <1>3 DEF Kept
<1>9. ReadyOK'
  BY <1>1, <1>3 DEF ReadyOK, Ready, OnForm
<1>10. StackInv'
  BY <1>5, <1>6, <1>7, <1>8, <1>9 DEF StackInv, KeptOK
<1>11. page'.pending # 0
  BY <1>3
<1>12. LanguageOK'
  BY <1>11 DEF LanguageOK
<1>13. ~OnePage'
  BY <1>3 DEF OnePage
<1> QED
  BY <1>10, <1>12, <1>13 DEF ReceiptInv

LEMMA InitReceipts == Init => ReceiptInv
<1> SUFFICES ASSUME Init PROVE ReceiptInv
  OBVIOUS
<1>1. /\ har = <<>> /\ sent = <<>> /\ accepted = 0 /\ lastForm = 3
      /\ forms \in StartForms(session.start) /\ session \in Sessions
      /\ receipts = [r \in AllReports |-> {}]
  BY DEF Init
<1>2. DOMAIN har = {} /\ DOMAIN sent = {} /\ Len(sent) = 0
  BY <1>1, EmptyIs
<1>3. /\ page.seen = 0
      /\ \/ page.pending = 1 /\ page.command.name = "Load" /\ session.start = "none"
         \/ page.pending = 0 /\ page.command.name = ""
      /\ page.language = TRUE \/ page.pending = 1
  <2>1. CASE session.start = "none"
    <3>1. page = FreshPage(Home, 0)
      BY <2>1 DEF Init
    <3>2. page.seen = 0 /\ page.pending = 1 /\ page.command.name = "Load"
      BY <3>1 DEF FreshPage, Command
    <3> QED
      BY <2>1, <3>2
  <2>2. CASE session.start # "none"
    <3>1. page = [FreshPage(Home, 0) EXCEPT !.language = TRUE, !.next = 1, !.pending = 0,
                                            !.command = NoCommand]
      BY <2>2 DEF Init
    <3>2. page.seen = 0 /\ page.pending = 0 /\ page.command = NoCommand
      BY <3>1 DEF FreshPage
    <3>3. page.language = TRUE
      BY <3>1 DEF FreshPage
    <3>4. NoCommand.name = ""
      BY DEF NoCommand, Command
    <3> QED
      BY <3>2, <3>3, <3>4
  <2> QED
    BY <2>1, <2>2
<1>4. ~Kept
  <2>1. page.pending = 0 \/ page.pending = 1
    BY <1>3
  <2>2. CASE page.pending = 0
    BY <2>2 DEF Kept
  <2>3. CASE page.pending = 1
    BY <1>1, <2>3 DEF Kept
  <2> QED
    BY <2>1, <2>2, <2>3
<1>5. session.start = "none" => forms = {}
  BY <1>1 DEF StartForms
<1>6. /\ Stacked
      /\ \A f \in forms : f.id <= 3
      /\ \A f \in forms : f.kind = "dialog" => f.report \in AllReports
  <2>1. session.start \in {"none", "workspace", "dialog"}
    BY <1>1, SessionsAssumption
  <2>2. CASE session.start = "none"
    BY <1>5, <2>2 DEF Stacked
  <2>3. CASE session.start = "workspace"
    <3>1. forms = {Form(1, "workspace", NoReport)}
      BY <1>1, <2>3 DEF StartForms
    <3>2. \A f \in forms : f.id = 1 /\ f.kind = "workspace"
      BY <3>1 DEF Form
    <3>3. \A f, g \in forms : f = g
      BY <3>1
    <3> QED
      BY <3>2, <3>3 DEF Stacked
  <2>4. CASE session.start = "dialog"
    <3>1. PICK r \in Drafts :
            forms = {Form(1, "workspace", NoReport), Form(2, "details", r), Form(3, "dialog", r)}
      BY <1>1, <2>4 DEF StartForms
    <3>2. r \in AllReports
      BY SessionsAssumption DEF AllReports
    <3>3. \A f \in forms : \/ f = Form(1, "workspace", NoReport) /\ f.id = 1 /\ f.kind = "workspace"
                           \/ f = Form(2, "details", r) /\ f.id = 2 /\ f.kind = "details"
                           \/ f = Form(3, "dialog", r) /\ f.id = 3 /\ f.kind = "dialog"
                              /\ f.report = r
      BY <3>1 DEF Form
    <3>4. \A f \in forms : f.id <= 3 /\ (f.kind = "dialog" => f.report \in AllReports)
      BY <3>2, <3>3
    <3>5. Stacked
      <4>1. ASSUME NEW f \in forms, NEW g \in forms
            PROVE  /\ f.kind \in {"new", "dialog"} => g.id <= f.id
                   /\ f.kind = "details" /\ g.kind # "dialog" => g.id <= f.id
                   /\ f.id = g.id => f = g
        BY <3>3
      <4> QED
        BY <4>1 DEF Stacked
    <3> QED
      BY <3>4, <3>5
  <2> QED
    BY <2>1, <2>2, <2>3, <2>4
<1>7. DialogsOK
  BY <1>1, <1>6 DEF DialogsOK
<1>8. \A f \in forms : f.id \in Nat
  BY InitInv DEF IInv, StateOK, FormsOK, FormSet
<1>9. MadeOK
  BY <1>1, <1>2, <1>6, <1>8 DEF MadeOK
<1>10. StatusOK
  BY <1>2 DEF StatusOK
<1>11. ReadyOK
  BY <1>1, <1>3, <1>5 DEF ReadyOK, Ready, OnForm
<1>12. StackInv
  BY <1>4, <1>6, <1>7, <1>9, <1>10, <1>11 DEF StackInv, KeptOK
<1>13. LanguageOK
  <2>1. CASE page.language = TRUE
    BY <2>1 DEF LanguageOK
  <2>2. CASE page.pending = 1
    BY <2>2 DEF LanguageOK
  <2> QED
    BY <1>3, <2>1, <2>2
<1>14. AllSeen
  <2>1. MessagesOf(ParsedOf(Exchanges(har))) = <<>>
    BY <1>1, ExchangesOfEmpty, ParsedWireOfNone
  <2>2. Slice(<<>>, sent, 0, 0)
    <3>1. \A i \in 1 .. (0 - 0) : FALSE
      OBVIOUS
    <3> QED
      BY <3>1, EmptyIs DEF Slice
  <2> QED
    BY <1>3, <2>1, <2>2 DEF AllSeen
<1>15. KeptAttaches /\ OKsAttach
  BY <1>2, <1>4 DEF KeptAttaches, OKsAttach
<1> QED
  BY <1>12, <1>13, <1>14, <1>15 DEF ReceiptInv

LEMMA NextKeepsReceipts ==
  ASSUME IInv, FormsInv, ReceiptInv, [Next]_vars
  PROVE  ReceiptInv'
<1>0. IInv' /\ FormsInv'
  BY NextKeeps, NextKeepsForms
<1>1. CASE LoadPage
  BY <1>1, LoadPageKeepsReceipts
<1>2. CASE Renew
  BY <1>2, RenewKeepsReceipts
<1>3. CASE Poll
  BY <1>0, <1>3, PollKeepsReceipts
<1>4. CASE \/ ClickNew \/ Leave \/ Create \/ Add \/ Save \/ Submit \/ Cancel \/ CheckFile \/ OK
  <2>1. \E name \in Names \ {"", "Load"} : \E kind \in KindsFor(name) :
          /\ kind # "none" /\ name # "CloseUpload" /\ Do(name, kind)
          /\ name = "Add" => Top.report \in Editable
          /\ name = "OK" => upload.stage = "closed"
    <3>0. /\ {"New", "Leave", "Create", "Add", "Save", "Submit", "Cancel", "CheckFile", "OK"}
               \subseteq Names \ {"", "Load"}
          /\ KindsFor("New") = {"workspace"} /\ KindsFor("Leave") = {"workspace"}
          /\ KindsFor("Create") = {"new"} /\ KindsFor("Add") = {"details"}
          /\ KindsFor("Save") = {"details"} /\ KindsFor("Submit") = {"details"}
          /\ KindsFor("Cancel") = {"new", "dialog"} /\ KindsFor("CheckFile") = {"dialog"}
          /\ KindsFor("OK") = {"dialog"}
      BY DEF Names, KindsFor
    <3>1. CASE ClickNew
      BY <3>0, <3>1 DEF ClickNew
    <3>2. CASE Leave
      BY <3>0, <3>2 DEF Leave
    <3>3. CASE Create
      BY <3>0, <3>3 DEF Create
    <3>4. CASE Add
      BY <3>0, <3>4 DEF Add, Editable
    <3>5. CASE Save
      BY <3>0, <3>5 DEF Save
    <3>6. CASE Submit
      BY <3>0, <3>6 DEF Submit
    <3>7. CASE Cancel
      BY <3>0, <3>7 DEF Cancel
    <3>8. CASE CheckFile
      BY <3>0, <3>8 DEF CheckFile
    <3>9. CASE OK
      BY <3>0, <3>9 DEF OK
    <3> QED
      BY <1>4, <3>1, <3>2, <3>3, <3>4, <3>5, <3>6, <3>7, <3>8, <3>9
  <2> QED
    BY <1>0, <2>1, NamedKeepsReceipts
<1>5. ASSUME NEW r \in Reports, Open(r) PROVE ReceiptInv'
  BY <1>0, <1>5, OpenKeepsReceipts
<1>6. CASE UploadFile
  BY <1>6, UploadKeepsReceipts
<1>7. CASE CloseUpload
  BY <1>0, <1>7, CloseUploadKeepsReceipts
<1>8. CASE Stop \/ UNCHANGED vars
  BY <1>8, SameKeepsReceipts DEF Stop
<1> QED
  BY <1>1, <1>2, <1>3, <1>4, <1>5, <1>6, <1>7, <1>8 DEF Next

(* Each element at one of the places is among those.                       *)
LEMMA ThoseHas ==
  ASSUME NEW h, IsSeq(h), NEW P, NEW x \in 1 .. Len(h), x \in P
  PROVE  \E k \in DOMAIN Those(h, P) : Those(h, P)[k] = h[x]
<1> DEFINE m == Len(h)
           e == h[x]
<1>1. m \in Nat /\ x \in 1 .. m
  BY DEF IsSeq
<1>2. PICK f : UpTo(h, P, f) /\ Those(h, P) = f[m]
  BY ThoseUpTo
<1>3. /\ f[0] = <<>>
      /\ \A i \in 0 .. m : i # 0 =>
           f[i] = IF i \in P THEN Append(f[i - 1], h[i]) ELSE f[i - 1]
  BY <1>1, <1>2, UpToIs
<1>4. h[x] = e
  OBVIOUS
<1> HIDE DEF m, e
<1> DEFINE Has(s, n) == IsSeq(s) /\ (x <= n => \E k \in DOMAIN s : s[k] = e)
           T == {n \in Nat : n <= m => Has(f[n], n)}
<1>5. 0 \in T
  <2>1. ~(x <= 0)
    BY <1>1
  <2> QED
    BY <1>3, <2>1, EmptyIs
<1>6. ASSUME NEW n \in Nat, n \in T PROVE n + 1 \in T
  <2> SUFFICES ASSUME n + 1 <= m PROVE Has(f[n + 1], n + 1)
    OBVIOUS
  <2>1. Has(f[n], n)
    BY <1>1, <1>6
  <2>2. n + 1 \in 0 .. m /\ n + 1 # 0 /\ (n + 1) - 1 = n /\ n + 1 \in 1 .. m
    BY <1>1
  <2>3. f[n + 1] = IF n + 1 \in P THEN Append(f[n], h[n + 1]) ELSE f[n]
    BY <1>3, <2>2
  <2>4. x <= n + 1 => x <= n \/ x = n + 1
    BY <1>1
  <2>5. CASE n + 1 \notin P
    <3>1. f[n + 1] = f[n] /\ x # n + 1
      BY <2>3, <2>5
    <3> QED
      BY <2>1, <2>4, <3>1
  <2>6. CASE n + 1 \in P
    <3> DEFINE s == f[n]
               t == Append(s, h[n + 1])
    <3>1. /\ IsSeq(t) /\ Len(s) \in Nat /\ DOMAIN s = 1 .. Len(s)
          /\ DOMAIN t = 1 .. (Len(s) + 1)
          /\ \A i \in 1 .. Len(s) : t[i] = s[i]
          /\ t[Len(s) + 1] = h[n + 1]
      BY <2>1, AppendIs
    <3> HIDE DEF t
    <3>2. CASE x <= n
      <4>1. PICK k \in DOMAIN s : s[k] = e
        BY <2>1, <3>2
      <4>2. k \in DOMAIN t /\ t[k] = e
        BY <3>1, <4>1
      <4>3. f[n + 1] = t
        BY <2>3, <2>6 DEF t
      <4> QED
        BY <3>1, <4>2, <4>3
    <3>3. CASE x = n + 1
      <4>1. Len(s) + 1 \in DOMAIN t /\ t[Len(s) + 1] = e
        BY <1>4, <3>1, <3>3
      <4>2. f[n + 1] = t
        BY <2>3, <2>6 DEF t
      <4> QED
        BY <3>1, <4>1, <4>2
    <3>4. CASE ~(x <= n + 1)
      <4>1. f[n + 1] = t
        BY <2>3, <2>6 DEF t
      <4> QED
        BY <3>1, <3>4, <4>1
    <3> QED
      BY <2>4, <3>2, <3>3, <3>4
  <2> QED
    BY <2>5, <2>6
<1> HIDE DEF T
<1>7. m \in T
  BY <1>1, <1>5, <1>6, SetInduction
<1>8. Has(f[m], m)
  BY <1>1, <1>7 DEF T
<1>9. x <= m
  BY <1>1
<1> QED
  BY <1>2, <1>8, <1>9 DEF m, e

(* An exchange of the file is at its place in it.                          *)
LEMMA ExchangeAt ==
  ASSUME IsSeq(har), EntriesOK
  PROVE  LET E == Exchanges(har) IN
         /\ \A k \in DOMAIN E : /\ E[k].entry \in DOMAIN har
                                /\ IsExchange(har[E[k].entry]) /\ har[E[k].entry] = E[k]
         /\ \A i \in DOMAIN har : IsExchange(har[i]) =>
              \E k \in DOMAIN E : E[k] = har[i] /\ E[k].entry = i
<1> DEFINE P == {i \in DOMAIN har : IsExchange(har[i])}
           E == Those(har, P)
<1>1. Exchanges(har) = E
  BY DEF Exchanges
<1>2. DOMAIN har = 1 .. Len(har)
  BY DEF IsSeq
<1>3. \A i \in DOMAIN har : IsExchange(har[i]) => har[i].entry = i
  BY DEF EntriesOK, EntryOK, IsExchange
<1>4. \A i : i \in P <=> i \in DOMAIN har /\ IsExchange(har[i])
  OBVIOUS
<1> HIDE DEF P
<1>5. \A k \in DOMAIN E : \E i \in 1 .. Len(har) : i \in P /\ E[k] = har[i]
  BY ThoseIs
<1>6. \A i \in 1 .. Len(har) : i \in P => \E k \in DOMAIN E : E[k] = har[i]
  BY ThoseHas
<1> HIDE DEF E
<1>7. ASSUME NEW k \in DOMAIN E
      PROVE  /\ E[k].entry \in DOMAIN har
             /\ IsExchange(har[E[k].entry]) /\ har[E[k].entry] = E[k]
  <2>1. PICK i \in 1 .. Len(har) : i \in P /\ E[k] = har[i]
    BY <1>5
  <2>2. E[k].entry = i
    BY <1>3, <1>4, <2>1
  <2> QED
    BY <1>4, <2>1, <2>2
<1>8. ASSUME NEW i \in DOMAIN har, IsExchange(har[i])
      PROVE  \E k \in DOMAIN E : E[k] = har[i] /\ E[k].entry = i
  <2>1. PICK k \in DOMAIN E : E[k] = har[i]
    BY <1>2, <1>4, <1>6, <1>8
  <2> QED
    BY <1>3, <1>8, <2>1
<1> QED
  BY <1>1, <1>7, <1>8

(* What the import found in the file when it accepts a receipt profile: the *)
(* OK came after the last check of a file, and what it counted is the count.*)
LEMMA ReceiptIs ==
  ASSUME NEW p \in ReceiptProfile(har)
  PROVE  LET E == Exchanges(har) IN
         /\ OneSession(E) /\ HasSession(E) /\ OpenDialogs(E) = {}
         /\ p.root \in CurrentForms(E) /\ IsDraft(ParsedOf(E), p.root)
         /\ p.report \in TitleReports(ParsedOf(E), p.root)
         /\ CheckedDialogs(E) # {}
         /\ \E up \in DOMAIN har, close, ok \in DOMAIN E :
              /\ up > LastCheck(E) /\ E[close].entry > up /\ ok > close
              /\ E[ok].command.name = "OK"
              /\ \E after \in CountsIn(E[ok]) : p.count = after.count /\ p.attachedTo = after.root
<1> DEFINE E == Exchanges(har)
           current == TheOne(CurrentForms(E))
           dialog == TheOne(CheckedDialogs(E))
           uploads == UploadsAfter(har, LastCheck(E))
           up == TheOne(uploads)
           closes == Closes(E, dialog, up, har[up].file)
           close == TheOne(closes)
           oks == OKs(E, dialog, close)
           ok == TheOne(oks)
           after == TheOne(PositiveCounts(E[ok]))
<1>0. \A S : OnlyOne(S) => S # {}
  BY FS_EmptySet DEF OnlyOne
<1>1. \A S : S # {} => TheOne(S) \in S
  BY DEF TheOne
<1>2. /\ OneSession(E) /\ HasSession(E) /\ OnlyOne(CurrentForms(E)) /\ OpenDialogs(E) = {}
      /\ IsDraft(ParsedOf(E), current) /\ OnlyOne(CheckedDialogs(E))
      /\ p \in UploadedProfiles(har, E, current)
  BY DEF ReceiptProfile
<1> HIDE DEF current
<1>3. OnlyOne(uploads) /\ p \in AttachedProfiles(E, current, dialog, up, har[up].file)
  BY <1>2 DEF UploadedProfiles
<1> HIDE DEF uploads, dialog
<1>4. /\ OnlyOne(closes) /\ OnlyOne(oks)
      /\ p \in SavedProfiles(E, current, after, ok)
  <2> HIDE DEF up
  <2> QED
    BY <1>3 DEF AttachedProfiles
<1>5. PICK report \in TitleReports(ParsedOf(E), current) :
        p = [root |-> current, report |-> report, count |-> after.count,
             attachedTo |-> after.root, session |-> SessionOf(E)]
  <2> HIDE DEF after, ok
  <2> QED
    BY <1>4 DEF SavedProfiles
<1> HIDE DEF E
<1>6. up \in uploads
  BY <1>0, <1>1, <1>3 DEF up
<1>7. up \in DOMAIN har /\ up > LastCheck(E)
  BY <1>6 DEF uploads, UploadsAfter
<1> HIDE DEF up
<1>8. close \in closes
  BY <1>0, <1>1, <1>4 DEF close
<1>9. close \in DOMAIN E /\ E[close].entry > up
  BY <1>8 DEF closes, Closes, Commands
<1> HIDE DEF close
<1>10. ok \in oks
  BY <1>0, <1>1, <1>4 DEF ok
<1>11. ok \in DOMAIN E /\ ok > close /\ E[ok].command.name = "OK" /\ PositiveCounts(E[ok]) # {}
  BY <1>10 DEF oks, OKs, Commands
<1> HIDE DEF ok
<1>12. after \in CountsIn(E[ok])
  <2>1. after \in PositiveCounts(E[ok])
    BY <1>1, <1>11
  <2> QED
    BY <2>1 DEF PositiveCounts
<1> HIDE DEF after
<1>13. /\ p.root = current /\ p.report = report /\ p.count = after.count
       /\ p.attachedTo = after.root
  BY <1>5
<1>14. current \in CurrentForms(E) /\ CheckedDialogs(E) # {}
  BY <1>0, <1>1, <1>2 DEF current
<1> QED
  BY <1>2, <1>5, <1>7, <1>9, <1>11, <1>12, <1>13, <1>14 DEF E

(* A recording an import accepts as one session is of one page.            *)
LEMMA SessionIsOnePage ==
  ASSUME IInv, LanguageOK, page.pending = 0,
         OneSession(Exchanges(har)), HasSession(Exchanges(har))
  PROVE  OnePage
<1> DEFINE E == Exchanges(har)
           last == Max(Answered(E))
<1>1. IsSeq(har) /\ EntriesOK /\ IsSeq(E)
  BY DEF IInv, StateOK, FileOK
<1>2. last \in DOMAIN E
  BY <1>1, LastAnswered
<1>3. E[last].language # NoLanguage
  BY DEF HasSession
<1>4. \A k \in DOMAIN E : E[k].language = E[1].language
  BY DEF OneSession, FlowKey, Key
<1>5. \A i \in DOMAIN har : IsExchange(har[i]) => \E k \in DOMAIN E : E[k] = har[i]
  BY <1>1, ExchangeAt
<1> HIDE DEF E, last
<1>6. \A k \in DOMAIN E : E[k].language # NoLanguage
  BY <1>2, <1>3, <1>4
<1>7. \A i \in DOMAIN har : IsExchange(har[i]) => har[i].language # NoLanguage
  BY <1>5, <1>6
<1>8. page.language
  <2>1. page.language \/ page.pending # 0
    BY <1>7 DEF LanguageOK
  <2>2. page.pending = 0
    OBVIOUS
  <2> QED
    BY <2>1, <2>2
<1> QED
  BY <1>7, <1>8 DEF OnePage

(* The one details form that is active shows the report it was made for,   *)
(* and is in front when no dialog is.                                      *)
LEMMA CurrentIsTop ==
  ASSUME IInv, FormsInv, StackInv, NEW f \in Active(sent, "details"), Active(sent, "dialog") = {},
         NEW i \in DOMAIN sent, f \in sent[i].made
  PROVE  f = Top
<1>1. FormsOK /\ IsSeq(sent)
  BY DEF IInv, StateOK
<1>2. DOMAIN sent = 1 .. Len(sent) /\ Len(sent) \in Nat
  BY <1>1 DEF IsSeq
<1>3. f.kind = "details" /\ f \in forms
  <2>1. PICK j \in DOMAIN sent : /\ f \in Shown(sent[j])
                                 /\ \A k \in (j + 1) .. Len(sent) : f \notin sent[k].deleted
    BY DEF Active
  <2>2. f \in forms \/ \E k \in DOMAIN sent : k > j /\ f \in sent[k].deleted
    BY <2>1 DEF FormsInv, Told
  <2>3. \A k \in DOMAIN sent : k > j => k \in (j + 1) .. Len(sent)
    BY <1>2, <2>1
  <2>4. f.kind = "details"
    BY DEF Active
  <2> QED
    BY <2>1, <2>2, <2>3, <2>4
<1> SUFFICES ASSUME f # Top PROVE FALSE
  OBVIOUS
<1>4. Top \in forms /\ f.id <= Top.id
  BY <1>1, <1>3, TopIsNewest
<1>5. Top.kind = "dialog"
  BY <1>1, <1>3, BehindTop DEF StackInv
<1>6. Top.id > 3
  <2>1. f.id > 3
    BY DEF StackInv, MadeOK
  <2>2. f.id \in Nat /\ Top.id \in Nat
    BY <1>1, <1>3, <1>4 DEF FormsOK, FormSet
  <2> QED
    BY <1>4, <2>1, <2>2
<1>7. PICK j \in DOMAIN sent : Top \in sent[j].made
  BY <1>4, <1>6 DEF StackInv, MadeOK
<1>8. \A k \in DOMAIN sent : Top \notin sent[k].deleted
  BY <1>4 DEF StackInv, MadeOK
<1>9. \A k \in (j + 1) .. Len(sent) : Top \notin sent[k].deleted
  BY <1>2, <1>7, <1>8
<1>10. Top \in Shown(sent[j])
  BY <1>7 DEF Shown
<1>11. Top \in UNION {Shown(m) : m \in ToSet(sent)}
  BY <1>7, <1>10 DEF ToSet
<1>12. Top \in Active(sent, "dialog")
  BY <1>5, <1>7, <1>9, <1>10, <1>11 DEF Active
<1> QED
  BY <1>12

(* What an OK after the last check counted are the receipts of its report, *)
(* the file uploaded among them.                                           *)
LEMMA CountIsRight ==
  ASSUME IInv, ReceiptInv, OnePage, CheckedDialogs(Exchanges(har)) # {},
         NEW up \in DOMAIN har, NEW close \in DOMAIN Exchanges(har),
         NEW ok \in DOMAIN Exchanges(har),
         up > LastCheck(Exchanges(har)), Exchanges(har)[close].entry > up, ok > close,
         Exchanges(har)[ok].command.name = "OK", NEW after \in CountsIn(Exchanges(har)[ok])
  PROVE  upload.file \in receipts[after.root.report] /\ after.count = Attached(after.root.report)
<1> DEFINE E == Exchanges(har)
           checks == {E[i].entry : i \in Commands(E, "CheckFile", "dialog")}
<1>1. IsSeq(har) /\ EntriesOK /\ FileOK
  BY DEF IInv, StateOK
<1>2. DOMAIN har = 1 .. Len(har) /\ Len(har) \in Nat
  BY <1>1 DEF IsSeq
<1>3. /\ \A k \in DOMAIN E : /\ E[k].entry \in DOMAIN har
                             /\ IsExchange(har[E[k].entry]) /\ har[E[k].entry] = E[k]
      /\ \A i \in DOMAIN har : IsExchange(har[i]) => \E k \in DOMAIN E : E[k] = har[i]
                                                                   /\ E[k].entry = i
  BY <1>1, ExchangeAt
<1>4. \A j, k \in DOMAIN E : j < k => E[j].entry < E[k].entry
  BY <1>1 DEF FileOK
<1>5. LastCheck(E) = Max(checks)
  BY DEF LastCheck
<1>6. checks # {}
  BY DEF CheckedDialogs
<1>7. \A i \in Commands(E, "CheckFile", "dialog") : i \in DOMAIN E
  BY DEF Commands
<1>8. /\ up > LastCheck(E) /\ E[close].entry > up /\ ok > close /\ close \in DOMAIN E
      /\ ok \in DOMAIN E /\ E[ok].command.name = "OK" /\ after \in CountsIn(E[ok])
  OBVIOUS
<1>9. \A i \in DOMAIN har : Checked(har[i]) => i \in checks
  <2> TAKE i \in DOMAIN har
  <2> HAVE Checked(har[i])
  <2>1. /\ IsExchange(har[i]) /\ Succeeded(har[i])
        /\ har[i].command.name = "CheckFile" /\ har[i].command.root.kind = "dialog"
    BY DEF Checked
  <2>2. PICK k \in DOMAIN E : E[k] = har[i] /\ E[k].entry = i
    BY <1>3, <2>1
  <2> HIDE DEF E
  <2>3. k \in Commands(E, "CheckFile", "dialog")
    BY <2>1, <2>2 DEF Commands
  <2> QED
    BY <2>2, <2>3
<1>10. checks \in SUBSET Nat /\ \A x \in checks : x <= Len(har)
  <2> HIDE DEF E
  <2>1. \A k \in DOMAIN E : E[k].entry \in Nat /\ E[k].entry <= Len(har)
    BY <1>2, <1>3
  <2> QED
    BY <1>7, <2>1
<1>11. \A k \in DOMAIN E : k \in Nat
  BY <1>1 DEF FileOK, IsSeq
<1> HIDE DEF E, checks
<1>12. LastCheck(E) \in Nat /\ \A x \in checks : x <= LastCheck(E)
  <2>1. Max(checks) \in checks /\ \A x \in checks : x <= Max(checks)
    BY <1>2, <1>6, <1>10, BoundedHasMax
  <2> QED
    BY <1>5, <1>10, <2>1
<1> DEFINE at == E[ok].entry
<1>13. at \in DOMAIN har /\ IsExchange(har[at]) /\ har[at] = E[ok]
  BY <1>3, <1>8
<1>14. E[close].entry < at
  BY <1>4, <1>8, <1>11
<1>15. at > LastCheck(E)
  <2>1. /\ E[close].entry \in Nat /\ up \in Nat /\ at \in Nat
    BY <1>2, <1>3, <1>8, <1>13
  <2> HIDE DEF at
  <2> QED
    BY <1>8, <1>12, <1>14, <2>1
<1>16. \A j \in DOMAIN har : j > at => ~Checked(har[j])
  <2> TAKE j \in DOMAIN har
  <2>1. j \in Nat /\ at \in Nat
    BY <1>2, <1>13
  <2> HIDE DEF at
  <2>2. Checked(har[j]) => j <= LastCheck(E)
    BY <1>9, <1>12
  <2> QED
    BY <1>12, <1>15, <2>1, <2>2
<1> HIDE DEF at
<1>17. PICK i \in DOMAIN har[at].messages : after \in har[at].messages[i].counts
  <2>1. after \in CountsIn(har[at])
    BY <1>8, <1>13
  <2> QED
    BY <2>1 DEF CountsIn, ToSet
<1>18. CountsStand(at, i)
  <2>1. OKsAttach
    BY DEF ReceiptInv
  <2>2. har[at].command.name = "OK"
    BY <1>8, <1>13
  <2> QED
    BY <1>13, <1>17, <2>1, <2>2 DEF OKsAttach
<1>19. Attaches(har[at].command.root, har[at].messages[i], upload.file, receipts)
  BY <1>16, <1>17, <1>18 DEF CountsStand
<1> QED
  BY <1>17, <1>19 DEF Attaches, Attached

(* So what an accepted receipt profile says is true.                       *)
LEMMA ReceiptsAreTrue ==
  ASSUME IInv, FormsInv, ReceiptInv
  PROVE  ReceiptProfileIsTrue
<1> SUFFICES ASSUME NEW p \in ReceiptProfile(har), InSync
             PROVE  /\ p.root = Top /\ p.report = Top.report /\ p.report \in Drafts \cup {Created}
                    /\ upload.file \in receipts[p.attachedTo.report]
                    /\ p.count = Attached(p.attachedTo.report)
  BY DEF ReceiptProfileIsTrue
<1> DEFINE E == Exchanges(har)
           ms == MessagesOf(ParsedOf(E))
<1>1. /\ OneSession(E) /\ HasSession(E) /\ OpenDialogs(E) = {}
      /\ p.root \in CurrentForms(E) /\ IsDraft(ParsedOf(E), p.root)
      /\ p.report \in TitleReports(ParsedOf(E), p.root)
      /\ CheckedDialogs(E) # {}
  BY ReceiptIs
<1>2. page.pending = 0 /\ page.seen = Len(sent)
  BY DEF InSync
<1>3. OnePage
  BY <1>1, <1>2, SessionIsOnePage DEF ReceiptInv
<1>4. upload.file \in receipts[p.attachedTo.report] /\ p.count = Attached(p.attachedTo.report)
  <2>1. PICK up \in DOMAIN har, close \in DOMAIN E, ok \in DOMAIN E :
          /\ up > LastCheck(E) /\ E[close].entry > up /\ ok > close
          /\ E[ok].command.name = "OK"
          /\ \E after \in CountsIn(E[ok]) : p.count = after.count /\ p.attachedTo = after.root
    BY ReceiptIs
  <2>2. PICK after \in CountsIn(E[ok]) : p.count = after.count /\ p.attachedTo = after.root
    BY <2>1
  <2>3. upload.file \in receipts[after.root.report] /\ after.count = Attached(after.root.report)
    BY <1>1, <1>3, <2>1, CountIsRight
  <2> QED
    BY <2>2, <2>3
\* In sync, the parsed answers are all that Dynamics sent on this page.
<1>5. ms = sent
  <2>1. AllSeen /\ IsSeq(sent)
    BY <1>3 DEF ReceiptInv, IInv, StateOK
  <2>2. Slice(ms, sent, 0, Len(sent))
    BY <1>2, <2>1 DEF AllSeen
  <2> HIDE DEF ms
  <2>3. Len(sent) \in Nat
    BY <2>1 DEF IsSeq
  <2>4. Len(sent) - 0 = Len(sent) /\ \A i \in 1 .. Len(sent) : 0 + i = i
    BY <2>3
  <2>5. IsSeq(ms) /\ Len(ms) = Len(sent) /\ \A i \in 1 .. Len(ms) : ms[i] = sent[i]
    BY <2>2, <2>4 DEF Slice
  <2> QED
    BY <2>1, <2>5, EqualIs
<1>6. p.root \in Active(sent, "details") /\ Active(sent, "dialog") = {}
  BY <1>1, <1>5 DEF CurrentForms, OpenDialogs
<1>7. p.report = p.root.report /\ \E i \in DOMAIN sent : p.root \in sent[i].made
  <2>1. p.report \in {f.report : f \in {g \in UNION {m.made : m \in ToSet(sent)} : g = p.root}}
    BY <1>1, <1>5 DEF TitleReports
  <2> QED
    BY <2>1 DEF ToSet
<1>8. p.root = Top
  BY <1>6, <1>7, CurrentIsTop DEF ReceiptInv
<1>9. p.root.report \in Editable
  <2>1. {s.draft : s \in {t \in UNION {m.statuses : m \in ToSet(sent)} : t.root = p.root}} = {TRUE}
    BY <1>1, <1>5 DEF IsDraft, Statuses
  <2>2. PICK s \in UNION {m.statuses : m \in ToSet(sent)} : s.root = p.root /\ s.draft = TRUE
    BY <2>1
  <2>3. PICK i \in DOMAIN sent : s \in sent[i].statuses
    BY <2>2 DEF ToSet
  <2>4. s.draft = (s.root.report \in Editable)
    BY <2>3 DEF ReceiptInv, StackInv, StatusOK
  <2> QED
    BY <2>2, <2>4
<1> QED
  BY <1>4, <1>7, <1>8, <1>9 DEF Editable

-----------------------------------------------------------------------------
(* The theorems.                                                           *)

LEMMA Invariance == Spec => []IInv
<1>1. IInv /\ [Next]_vars => IInv'
  BY NextKeeps
<1> QED
  BY <1>1, InitInv, PTL DEF Spec

(* The recorded file is well formed whatever faults, polls and page loads   *)
(* there were, and every session an import accepts from it (SessionOf) has  *)
(* a place, a language and a number to go on from, as validateSessionProfile*)
(* demands.                                                                *)
THEOREM TypesRight == Spec => []TypeOK
<1>1. IInv => TypeOK
  <2> SUFFICES ASSUME IInv PROVE TypeOK
    OBVIOUS
  <2>1. StateOK /\ NumbersOK /\ EntriesOK /\ FileOK
    BY DEF IInv
  <2>2. page.where \in Places /\ page.auth \in Auths
    BY <2>1 DEF StateOK, PageSet
  <2>3. \A f \in forms : f.id <= lastForm /\ f.report \in AllReports \cup {NoReport}
    BY <2>1 DEF StateOK, FormsOK, FormSet, AnyReport
  <2>4. upload.stage \in {"open", "checked", "uploaded", "closed"}
    BY <2>1 DEF StateOK, UploadSet
  <2>5. \A s \in BootstrapSessions \cup FlowSessions :
          s.where \in Places /\ s.language # NoLanguage /\ s.next > 0 /\ s.last >= 0
    BY <2>1, SessionsValid
  <2> QED
    BY <2>1, <2>2, <2>3, <2>4, <2>5
       DEF TypeOK, StateOK, NumbersOK, EntriesOK, EntryOK
<1> QED
  BY <1>1, Invariance, PTL

(* An accepted session continues the page that is open, for recordings of   *)
(* any length with any number of faults, polls, page loads and renewals.    *)
THEOREM SequencesContinue == Spec => []SequencesFollow
<1>1. IInv => SequencesFollow
  BY SessionsFollow DEF IInv
<1> QED
  BY <1>1, Invariance, PTL

(* The workspace a session is bound to has not been left when the capture   *)
(* ends, and one inferred from a click at most since then, for recordings   *)
(* of any length with any number of faults, polls, page loads and renewals. *)
THEOREM RootsLive == Spec => []RootIsLive
<1>1. IInv /\ FormsInv /\ [Next]_vars => FormsInv'
  BY NextKeepsForms
<1>2. Spec => []FormsInv
  BY <1>1, InitForms, Invariance, PTL DEF Spec
<1>3. IInv /\ FormsInv => RootIsLive
  BY RootsAreLive
<1> QED
  BY <1>2, <1>3, Invariance, PTL

(* A receipt profile that ParseReceipt accepts tells the truth about the    *)
(* report: its form is in front, the report is a Draft, the file uploaded   *)
(* last is attached where the import says, and the receipts it counted      *)
(* there are those there are, for recordings of any length with any number  *)
(* of faults, polls, page loads and renewals, unless the last answers were  *)
(* lost.                                                                    *)
THEOREM ReceiptsTrue == Spec => []ReceiptProfileIsTrue
<1>1. IInv /\ FormsInv /\ [Next]_vars => FormsInv'
  BY NextKeepsForms
<1>2. Spec => []FormsInv
  BY <1>1, InitForms, Invariance, PTL DEF Spec
<1>3. IInv /\ FormsInv /\ ReceiptInv /\ [Next]_vars => ReceiptInv'
  BY NextKeepsReceipts
<1>4. Spec => []ReceiptInv
  BY <1>2, <1>3, InitReceipts, Invariance, PTL DEF Spec
<1>5. IInv /\ FormsInv /\ ReceiptInv => ReceiptProfileIsTrue
  BY ReceiptsAreTrue
<1> QED
  BY <1>2, <1>4, <1>5, Invariance, PTL
=============================================================================
