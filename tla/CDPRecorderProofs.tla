------------------------- MODULE CDPRecorderProofs -------------------------
(***************************************************************************)
(* Theorems about the recorder, module CDPRecorder.                        *)
(*                                                                         *)
(* The invariant says of each request what is still on its way: its base   *)
(* events, buffered and then on the wire, come hop by hop, and its         *)
(* supplemental events, pending or kept as orphans and then buffered, are  *)
(* those of its hops that no entry has yet, in order.                      *)
(***************************************************************************)
EXTENDS CDPRecorder, SequenceTheorems, FiniteSetTheorems, NaturalsInduction, TLAPS

-----------------------------------------------------------------------------
(* The base events of request r on their way, with b buffered and w on the *)
(* wire, and those of them that come one before the other.                 *)

Base == {e \in Event : e.type \notin Extras}
Ends == {"finished", "failed"}

Flying(b, w, r, e) == \/ \E p \in DOMAIN b : b[p] = <<r, e>>
                      \/ \E p \in DOMAIN w : w[p] = e
Before(b, w, r, e, f) ==
  \/ \E p, q \in DOMAIN b : p < q /\ b[p] = <<r, e>> /\ b[q] = <<r, f>>
  \/ \E p \in DOMAIN b, q \in DOMAIN w : b[p] = <<r, e>> /\ w[q] = f
  \/ \E p, q \in DOMAIN w : p < q /\ w[p] = e /\ w[q] = f
Flights(b, w, r) == {e \in Base : Flying(b, w, r, e)}
Orders(b, w, r) == {p \in Base \X Base : Before(b, w, r, p[1], p[2])}

\* An event is one of its hop, as the browser (hops hs, stage st) had it.
Genuine(hs, st, e) ==
  /\ e.hop <= Len(hs) /\ (hs[e.hop].late => e.late)
  /\ e.type = "request" /\ e.hop > 1 => e.extra = hs[e.hop - 1].extra
  /\ e.type = "duplicate" => e.hop = 1
  /\ e.type = "cache" => hs[e.hop].cached
  /\ e.type = "response" => e.extra = hs[e.hop].extra
  /\ e.type \in Ends => st = "over" /\ e.hop = Len(hs)
\* Of two events of a request, e came first.
InOrder(e, f) ==
  /\ e.hop <= f.hop /\ (e.late => f.late)
  /\ f.type = "request" => e.hop < f.hop
  /\ e.type \notin Ends

\* The requests of all hops that c has no entry for are on their way.
Complete(F, c, hs) ==
  \A n \in (Last(c) + 1) .. Len(hs) : \E e \in F : e.type = "request" /\ e.hop = n

\* The events F are on their way, in the order O, to c, which has the entries
\* of the hops before; unless it is past the cutoff, and so are they.
Flow(F, O, c, hs, st, late) ==
  /\ \A e \in F : Genuine(hs, st, e) /\ (e.late => late)
  /\ \A e, f \in F : <<e, f>> \in O => InOrder(e, f)
  /\ \A e \in F : e.hop >= Last(c) /\ (e.type = "request" => e.hop > Last(c))
  /\ Complete(F, c, hs) \/ (c.afterCutoff /\ \A e \in F : e.late)
  /\ c.entries # <<>> /\ c.entries[Last(c)].end = "failed" => F = {}

\* An entry is that of hop i.
Sound(entry, i, hs, st) ==
  /\ entry.hop = i /\ ~hs[i].late /\ entry.response \in {0, i}
  /\ entry.cached => hs[i].cached
  /\ entry.body \in {0, i}
  /\ entry.known /\ entry.end # "failed" => entry.expected = hs[i].extra
  /\ entry.end = "failed" => st = "over" /\ i = Len(hs)
  /\ entry.end = "finished" /\ ~entry.scheduled => st = "over" /\ i = Len(hs)
\* The entries of c are those of the hops hs.
Faithful(c, hs, st) ==
  /\ Last(c) <= Len(hs)
  /\ \A i \in 1 .. Last(c) :
       /\ Sound(c.entries[i], i, hs, st)
       /\ i < Last(c) => c.entries[i].known

BrowserInv ==
  \A r \in Requests :
    /\ stage[r] = "none" <=> hops[r] = <<>>
    /\ Len(hops[r]) <= MaxHops
    /\ \A n \in DOMAIN hops[r] : hops[r][n].late => Late

FlowInv ==
  \A r \in Requests :
    /\ \A p \in DOMAIN wire[r] : wire[r][p] \in Base
    /\ Flow(Flights(buffer, wire[r], r), Orders(buffer, wire[r], r),
            chain[r], hops[r], stage[r], Late)
    /\ Faithful(chain[r], hops[r], stage[r])

CutoffInv ==
  /\ \A r \in Requests : chain[r].afterCutoff => phase \notin {"capturing", "freezing", "cut"}
  /\ buffer # <<>> => phase \in {"freezing", "cut", "replaying", "failed"}

\* Fetches are queued for the last hop only.
TasksInv ==
  /\ tasks \subseteq Requests \X (1 .. MaxHops)
  /\ \A r \in Requests, i \in 1 .. MaxHops :
       <<r, i>> \in tasks => stage[r] = "over" /\ i = Len(hops[r])

\* Nothing is pending that an entry awaits, and nothing is left to fetch.
Settled(c) ==
  /\ \A x \in Extras : c.pending[x] # <<>> => Awaiting(c, x) = {}
  /\ c.entries # <<>> => c.orphans = None
SettledInv == \A r \in Requests : Settled(chain[r]) /\ Ready(chain[r]) = {}

\* A name that keeps the provers from arithmetic.
Positions == 1 .. MaxHops

\* The supplemental events of kind x that c keeps, and those of request r
\* buffered in b: they wait, q and then those in b, in the order of their hops.
Queued(c, x) == c.pending[x] \o c.orphans[x]
Buffered(b, r, x) == {p \in DOMAIN b : b[p][1] = r /\ b[p][2].type = x}
Waiting(q, b, r, x) ==
  {n \in Positions : \/ \E i \in DOMAIN q : q[i] = n
                     \/ \E p \in Buffered(b, r, x) : b[p][2].hop = n}
Ordered(q, b, r, x) ==
  /\ \A i, j \in DOMAIN q : i < j => q[i] < q[j]
  /\ \A i \in DOMAIN q, p \in Buffered(b, r, x) : q[i] < b[p][2].hop
  /\ \A o, p \in Buffered(b, r, x) : o < p => b[o][2].hop < b[p][2].hop

Unassigned(c, x, n) == n \in 1 .. Last(c) => c.entries[n].extra[x] = 0
\* Those waiting are those of the hops, up to the last one of which one came,
\* that have no entry with its own.
Queue(q, c, hs, last, b, r, x) ==
  /\ last <= Len(hs) /\ Ordered(q, b, r, x)
  /\ \A n \in Positions :
       n \in Waiting(q, b, r, x) <=> n <= last /\ hs[n].extra /\ Unassigned(c, x, n)
  /\ \A i \in 1 .. Last(c) :
       c.entries[i].extra[x] \in {0, i} /\ c.entries[i].extra[x] <= last
QueueInv ==
  \A r \in Requests \ dropped, x \in Extras :
    Queue(Queued(chain[r], x), chain[r], hops[r], arrived[r][x], buffer, r, x)

\* Orphans are kept after the cutoff only.
OrphansInv ==
  \A r \in Requests :
    chain[r].orphans # None => phase \notin {"capturing", "freezing", "cut"}

-----------------------------------------------------------------------------
(* Sequences, ranks and chains.                                            *)

LEMMA SeqIntro ==
  ASSUME NEW S, NEW n \in Nat, NEW f \in [1 .. n -> S]
  PROVE  f \in Seq(S) /\ Len(f) = n /\ DOMAIN f = 1 .. n
OBVIOUS

LEMMA Ranks ==
  ASSUME NEW m \in Nat, NEW S \in SUBSET (1 .. m), NEW i \in S
  PROVE  /\ Cardinality(S) \in Nat /\ Rank(i, S) \in 1 .. Cardinality(S)
         /\ (\A j \in S : i <= j) => Rank(i, S) = 1
         /\ (\E j \in S : j < i) => Rank(i, S) > 1
<1> DEFINE T == {j \in S : j <= i}
<1>1. IsFiniteSet(S) /\ IsFiniteSet(T) /\ Cardinality(T) <= Cardinality(S)
  <2>1. IsFiniteSet(1 .. m)
    BY FS_Interval
  <2> QED
    BY <2>1, FS_Subset
<1>2. Cardinality(S) \in Nat /\ Cardinality(T) \in Nat
  BY <1>1, FS_CardinalityType
<1>3. IsFiniteSet({i}) /\ Cardinality({i}) = 1
  BY FS_Singleton
<1>4. Cardinality(T) >= 1
  BY <1>1, <1>2, <1>3, FS_Subset
<1>5. ASSUME \A j \in S : i <= j PROVE T = {i}
  <2>1. \A j \in S : j \in Nat
    OBVIOUS
  <2>2. ASSUME NEW j \in T PROVE j = i
    BY <1>5, <2>1
  <2>3. i \in T
    BY <2>1
  <2> QED
    BY <2>2, <2>3
<1>6. ASSUME NEW j \in S, j < i PROVE Cardinality(T) > 1
  <2>1. Cardinality({i} \cup {j}) = 2 /\ {i} \cup {j} \subseteq T
    BY <1>3, <1>6, FS_AddElement
  <2> QED
    BY <1>1, <1>2, <2>1, FS_Subset
<1> QED
  BY <1>1, <1>2, <1>3, <1>4, <1>5, <1>6 DEF Rank

LEMMA Suffix ==
  ASSUME NEW T, NEW s \in Seq(T), NEW k \in Nat
  PROVE  LET t == SubSeq(s, k + 1, Len(s)) IN
         /\ t \in Seq(T) /\ (k < Len(s) <=> t # <<>>)
         /\ k = 0 => t = s
         /\ k = 1 /\ s # <<>> => t = Tail(s)
<1> DEFINE t == SubSeq(s, k + 1, Len(s))
<1>1. \A i \in k + 1 .. Len(s) : s[i] \in T
  BY ElementOfSeq
<1>2. Len(s) \in Nat /\ k + 1 \in Int /\ Len(s) \in Int
  BY LenProperties
<1>3. t \in Seq(T) /\ Len(t) = IF k + 1 <= Len(s) THEN Len(s) - (k + 1) + 1 ELSE 0
  BY <1>1, <1>2, SubSeqProperties
<1>4. k < Len(s) <=> t # <<>>
  <2> HIDE DEF t
  <2>1. t = <<>> <=> Len(t) = 0
    BY <1>3, EmptySeq
  <2>2. Len(t) = 0 <=> ~(k < Len(s))
    BY <1>2, <1>3
  <2> QED
    BY <2>1, <2>2
<1>5. k = 0 => t = s
  BY SubSeqFull
<1>6. k = 1 /\ s # <<>> => t = Tail(s)
  BY TailIsSubSeq
<1> QED
  BY <1>3, <1>4, <1>5, <1>6

LEMMA ChainParts ==
  ASSUME NEW c \in Chain
  PROVE  /\ c.entries \in Seq(Entry) /\ Last(c) \in Nat
         /\ DOMAIN c.entries = 1 .. Last(c)
         /\ c.entries \in [1 .. Last(c) -> Entry]
         /\ c.entries = <<>> <=> Last(c) = 0
         /\ \A x \in Extras : /\ c.pending[x] \in Seq(Positions)
                              /\ c.orphans[x] \in Seq(Positions)
                              /\ Queued(c, x) \in Seq(Positions)
                              /\ Awaiting(c, x) \subseteq 1 .. Last(c)
BY DEF Chain, Last, Awaiting, Queued, Positions

-----------------------------------------------------------------------------
(* Assigning supplemental events.                                          *)

\* What reconciling leaves alone.
SameFields(new, old) ==
  /\ new.hop = old.hop /\ new.known = old.known /\ new.expected = old.expected
  /\ new.response = old.response /\ new.end = old.end /\ new.cached = old.cached
  /\ new.scheduled = old.scheduled /\ new.body = old.body
AsBefore(d, c) ==
  /\ Last(d) = Last(c) /\ d.orphans = c.orphans /\ d.afterCutoff = c.afterCutoff
  /\ \A i \in 1 .. Last(c) : SameFields(d.entries[i], c.entries[i])
\* Of kind x, nothing is assigned, or the first one pending to the first entry
\* that awaits one.
Leaves(c, d, x) ==
  /\ d.pending[x] = c.pending[x]
  /\ \A i \in 1 .. Last(c) : d.entries[i].extra[x] = c.entries[i].extra[x]
Assigns(c, d, x, i) ==
  /\ i \in Awaiting(c, x) /\ \A j \in Awaiting(c, x) : i <= j
  /\ c.pending[x] # <<>> /\ d.entries[i].extra[x] = c.pending[x][1]
  /\ \A j \in 1 .. Last(c) \ {i} : d.entries[j].extra[x] = c.entries[j].extra[x]
  /\ d.pending[x] = Tail(c.pending[x])
AtMostOne(c, x) == Len(c.pending[x]) <= 1 \/ Awaiting(c, x) \subseteq {Last(c)}
\* d is c after one step of reconciliation.
Step1(c, d) ==
  /\ d \in Chain /\ AsBefore(d, c)
  /\ \A x \in Extras : Leaves(c, d, x) \/ \E i \in Awaiting(c, x) : Assigns(c, d, x, i)
  /\ \A x \in Extras : d.pending[x] # <<>> => Awaiting(d, x) = {}

LEMMA AssignedType ==
  ASSUME NEW c \in Chain, NEW x \in Extras, NEW i \in 1 .. Last(c)
  PROVE  Assigned(c, x, i) \in 0 .. MaxHops
<1>1. c.entries[i].extra[x] \in 0 .. MaxHops
  <2>1. c.entries[i] \in Entry
    BY ChainParts
  <2> QED
    BY <2>1 DEF Entry
<1> DEFINE k == Rank(i, Awaiting(c, x))
<1>2. ASSUME i \in Awaiting(c, x), k <= Len(c.pending[x])
      PROVE  c.pending[x][k] \in 1 .. MaxHops
  <2>1. k \in Nat \ {0}
    <3>1. Last(c) \in Nat /\ Awaiting(c, x) \subseteq 1 .. Last(c)
      BY ChainParts
    <3>2. /\ Rank(i, Awaiting(c, x)) \in 1 .. Cardinality(Awaiting(c, x))
          /\ Cardinality(Awaiting(c, x)) \in Nat
      BY <1>2, <3>1, Ranks
    <3> QED
      BY <3>2
  <2>2. c.pending[x] \in Seq(Positions) /\ Len(c.pending[x]) \in Nat
    BY ChainParts
  <2> HIDE DEF k
  <2>3. c.pending[x][k] \in Positions
    BY <1>2, <2>1, <2>2, ElementOfSeq
  <2> QED
    BY <2>3 DEF Positions
<1> QED
  BY <1>1, <1>2 DEF Assigned

LEMMA CountedAwaiting ==
  ASSUME NEW c \in Chain, NEW x \in Extras
  PROVE  Cardinality(Awaiting(c, x)) \in Nat /\ (Awaiting(c, x) = {} <=> Cardinality(Awaiting(c, x)) = 0)
<1>1. Last(c) \in Nat /\ Awaiting(c, x) \subseteq 1 .. Last(c)
  BY ChainParts
<1>2. IsFiniteSet(1 .. Last(c))
  BY <1>1, FS_Interval
<1>3. IsFiniteSet(Awaiting(c, x))
  BY <1>1, <1>2, FS_Subset
<1> QED
  BY <1>3, FS_CardinalityType, FS_EmptySet

LEMMA ReconciledParts ==
  ASSUME NEW c \in Chain
  PROVE  /\ Reconciled(c) \in Chain /\ AsBefore(Reconciled(c), c)
         /\ \A x \in Extras :
              /\ \A i \in 1 .. Last(c) :
                   Reconciled(c).entries[i].extra[x] = Assigned(c, x, i)
              /\ Reconciled(c).pending[x] =
                   SubSeq(c.pending[x], Cardinality(Awaiting(c, x)) + 1, Len(c.pending[x]))
<1> DEFINE es == [i \in DOMAIN c.entries |->
                   [c.entries[i] EXCEPT !.extra = [x \in Extras |-> Assigned(c, x, i)]]]
           ps == [x \in Extras |->
                   SubSeq(c.pending[x], Cardinality(Awaiting(c, x)) + 1, Len(c.pending[x]))]
<1>1. Reconciled(c) = [c EXCEPT !.entries = es, !.pending = ps]
  BY DEF Reconciled
<1>2. /\ es \in [1 .. Last(c) -> Entry]
      /\ \A i \in 1 .. Last(c) :
           /\ es[i] = [c.entries[i] EXCEPT !.extra = [x \in Extras |-> Assigned(c, x, i)]]
           /\ c.entries[i] \in Entry
  <2> SUFFICES ASSUME NEW i \in 1 .. Last(c)
               PROVE  /\ [c.entries[i] EXCEPT !.extra = [x \in Extras |-> Assigned(c, x, i)]] \in Entry
                      /\ c.entries[i] \in Entry
    BY ChainParts
  <2> DEFINE ex == [x \in Extras |-> Assigned(c, x, i)]
  <2>1. ex \in [Extras -> 0 .. MaxHops]
    BY AssignedType
  <2>2. c.entries[i] \in Entry
    BY ChainParts
  <2> HIDE DEF ex
  <2>3. [c.entries[i] EXCEPT !.extra = ex] \in Entry
    BY <2>1, <2>2 DEF Entry
  <2> QED
    BY <2>2, <2>3 DEF ex
<1>3. ASSUME NEW x \in Extras PROVE ps[x] \in Seq(Positions)
  <2>1. Cardinality(Awaiting(c, x)) \in Nat
    BY CountedAwaiting
  <2>2. c.pending[x] \in Seq(Positions)
    BY ChainParts
  <2> QED
    BY <2>1, <2>2, Suffix
<1>4. es \in Seq(Entry) /\ Len(es) = Last(c)
  BY <1>2, SeqIntro, ChainParts
<1> HIDE DEF es, ps
<1>5. ps \in [Extras -> Seq(1 .. MaxHops)]
  BY <1>3 DEF ps, Positions
<1>6. Reconciled(c) \in Chain /\ Reconciled(c).entries = es /\ Reconciled(c).pending = ps
  BY <1>1, <1>4, <1>5 DEF Chain
<1>7. AsBefore(Reconciled(c), c)
  <2>1. ASSUME NEW i \in 1 .. Last(c) PROVE SameFields(es[i], c.entries[i])
    <3> DEFINE ex == [y \in Extras |-> Assigned(c, y, i)]
    <3>1. es[i] = [c.entries[i] EXCEPT !.extra = ex] /\ c.entries[i] \in Entry
      BY <1>2
    <3> HIDE DEF ex
    <3> QED
      BY <3>1 DEF SameFields, Entry
  <2> QED
    BY <1>1, <1>4, <1>6, <2>1 DEF AsBefore, Last, Chain
<1>8. ASSUME NEW x \in Extras, NEW i \in 1 .. Last(c)
      PROVE  es[i].extra[x] = Assigned(c, x, i)
  <2> DEFINE ex == [y \in Extras |-> Assigned(c, y, i)]
  <2>1. es[i] = [c.entries[i] EXCEPT !.extra = ex] /\ c.entries[i] \in Entry
    BY <1>2
  <2>2. es[i].extra = ex
    BY <2>1 DEF Entry
  <2> QED
    BY <2>2
<1> QED
  BY <1>6, <1>7, <1>8 DEF ps

LEMMA Least ==
  ASSUME NEW m \in Nat, NEW S \in SUBSET (1 .. m), S # {}
  PROVE  \E i \in S : \A j \in S : i <= j
<1>1. S \subseteq Nat
  OBVIOUS
<1>2. PICK i \in S : \A j \in S : ~(<<j, i>> \in OpToRel(<, Nat))
  BY <1>1, NatLessThanWellFounded, WFMin
<1>3. ASSUME NEW j \in S PROVE i <= j
  <2>1. i \in Nat /\ j \in Nat
    BY <1>1
  <2>2. ~(<<j, i>> \in {ss \in Nat \X Nat : ss[1] < ss[2]})
    BY <1>2 DEF OpToRel
  <2>3. ~(j < i)
    BY <2>1, <2>2
  <2> QED
    BY <2>1, <2>3
<1> QED
  BY <1>3

LEMMA ReconcileOne ==
  ASSUME NEW c \in Chain, \A x \in Extras : AtMostOne(c, x)
  PROVE  Step1(c, Reconciled(c))
<1> DEFINE d == Reconciled(c)
<1>1. d \in Chain /\ AsBefore(d, c)
  BY ReconciledParts
<1> SUFFICES ASSUME NEW x \in Extras
             PROVE  /\ Leaves(c, d, x) \/ \E i \in Awaiting(c, x) : Assigns(c, d, x, i)
                    /\ d.pending[x] # <<>> => Awaiting(d, x) = {}
  BY <1>1 DEF Step1
<1> DEFINE A == Awaiting(c, x)
           p == c.pending[x]
           n == Cardinality(A)
<1>2. /\ Last(c) \in Nat /\ A \in SUBSET (1 .. Last(c)) /\ n \in Nat
      /\ A = {} <=> n = 0
  BY ChainParts, CountedAwaiting
<1>3. p \in Seq(Positions) /\ Len(p) \in Nat /\ (p = <<>> <=> Len(p) = 0)
  BY ChainParts, EmptySeq, LenProperties
<1>4. /\ \A i \in 1 .. Last(c) : d.entries[i].extra[x] = Assigned(c, x, i)
      /\ d.pending[x] = SubSeq(p, n + 1, Len(p))
  BY ReconciledParts
<1>5. AtMostOne(c, x) /\ A = Awaiting(c, x) /\ p = c.pending[x]
  OBVIOUS
<1> HIDE DEF d, A, p, n
<1>6. /\ n < Len(p) <=> d.pending[x] # <<>>
      /\ n = 0 => d.pending[x] = p
      /\ n = 1 /\ p # <<>> => d.pending[x] = Tail(p)
  BY <1>2, <1>3, <1>4, Suffix
<1>7. \A i \in 1 .. Last(c) : Assigned(c, x, i) =
        IF i \in A /\ Rank(i, A) <= Len(p) THEN p[Rank(i, A)] ELSE c.entries[i].extra[x]
  BY <1>5 DEF Assigned
<1>8. \A i \in A : /\ Rank(i, A) \in 1 .. n
                   /\ (\A j \in A : i <= j) => Rank(i, A) = 1
                   /\ (\E j \in A : j < i) => Rank(i, A) > 1
  BY <1>2, Ranks DEF n
<1>9. ASSUME p = <<>> \/ A = {} PROVE Leaves(c, d, x)
  <2>1. \A i \in 1 .. Last(c) : d.entries[i].extra[x] = c.entries[i].extra[x]
    BY <1>2, <1>3, <1>4, <1>7, <1>8, <1>9
  <2>2. d.pending[x] = p
    BY <1>2, <1>3, <1>6, <1>9
  <2> QED
    BY <1>5, <2>1, <2>2 DEF Leaves
<1>10. ASSUME p # <<>>, A # {} PROVE \E i \in Awaiting(c, x) : Assigns(c, d, x, i)
  <2>1. PICK i \in A : \A j \in A : i <= j
    BY <1>2, <1>10, Least
  <2>2. d.entries[i].extra[x] = p[1]
    BY <1>2, <1>3, <1>4, <1>7, <1>8, <1>10, <2>1
  <2>3. Len(p) <= 1 \/ A = {i}
    BY <1>5, <2>1 DEF AtMostOne
  <2>4. ASSUME NEW j \in 1 .. Last(c), j # i
        PROVE  d.entries[j].extra[x] = c.entries[j].extra[x]
    <3>1. j \in A => ~(Rank(j, A) <= Len(p))
      <4>1. j \in A => i < j
        BY <1>2, <2>1, <2>4
      <4>2. j \in A => Rank(j, A) > 1 /\ Rank(j, A) \in Int
        BY <1>8, <4>1, <2>1
      <4> QED
        BY <1>3, <2>3, <2>4, <4>2
    <3> QED
      BY <1>4, <1>7, <3>1
  <2>5. d.pending[x] = Tail(p)
    <3>1. CASE A = {i}
      BY <1>6, <1>10, <3>1, FS_Singleton DEF n
    <3>2. CASE Len(p) <= 1
      <4>1. Len(p) = 1 /\ n # 0
        <5>1. n # 0
          BY <1>2, <1>10
        <5>2. Len(p) \in Nat /\ Len(p) # 0
          BY <1>3, <1>10
        <5>3. ASSUME NEW l \in Nat, l # 0, l <= 1 PROVE l = 1
          BY <5>3
        <5> QED
          BY <3>2, <5>1, <5>2, <5>3
      <4>2. d.pending[x] = <<>>
        BY <1>2, <1>6, <4>1
      <4>3. Tail(p) \in Seq(Positions) /\ Len(Tail(p)) = 0
        BY <1>3, <1>10, <4>1, HeadTailProperties
      <4> QED
        BY <4>2, <4>3, EmptySeq
    <3> QED
      BY <2>3, <3>1, <3>2
  <2> QED
    BY <1>5, <1>10, <2>1, <2>2, <2>4, <2>5 DEF Assigns
<1>11. ASSUME d.pending[x] # <<>>, NEW i \in Awaiting(d, x) PROVE FALSE
  <2>1. i \in 1 .. Last(c) /\ d.entries[i].extra[x] = 0
    BY <1>1, <1>11, ChainParts DEF Awaiting, AsBefore
  <2>2. i \in A => Rank(i, A) \in 1 .. Len(p)
    BY <1>2, <1>3, <1>6, <1>8, <1>11
  <2>3. i \in A => d.entries[i].extra[x] \in Positions
    BY <1>3, <1>4, <1>7, <2>1, <2>2, ElementOfSeq
  <2>4. i \notin A
    BY <2>1, <2>3 DEF Positions
  <2>5. c.entries[i].extra[x] = 0
    BY <1>4, <1>7, <2>1, <2>4
  <2>6. /\ \A j \in 1 .. i : c.entries[j].known
        /\ c.entries[i].expected
    <3>1. /\ \A j \in 1 .. i : d.entries[j].known
          /\ d.entries[i].expected
      BY <1>11 DEF Awaiting
    <3> QED
      BY <1>1, <1>2, <2>1, <3>1 DEF AsBefore, SameFields
  <2> QED
    BY <1>5, <2>1, <2>4, <2>5, <2>6, ChainParts DEF Awaiting
<1> QED
  BY <1>9, <1>10, <1>11

-----------------------------------------------------------------------------
(* Changing the current entry.                                             *)

Cur(c) == c.entries[Last(c)]
Set(c, entry) == [c EXCEPT !.entries[Last(c)] = entry]

LEMMA CurIn ==
  ASSUME NEW c \in Chain, c.entries # <<>>
  PROVE  Cur(c) \in Entry /\ Last(c) \in DOMAIN c.entries /\ Last(c) \in 1 .. Last(c)
<1>1. Last(c) \in 1 .. Last(c) /\ DOMAIN c.entries = 1 .. Last(c)
  BY ChainParts
<1> QED
  BY <1>1, ChainParts, ElementOfSeq DEF Cur, Last

LEMMA SetParts ==
  ASSUME NEW c \in Chain, c.entries # <<>>, NEW entry \in Entry
  PROVE  /\ Set(c, entry) \in Chain /\ Last(Set(c, entry)) = Last(c)
         /\ Set(c, entry).entries # <<>> /\ Cur(Set(c, entry)) = entry
         /\ \A i \in 1 .. Last(c) : i # Last(c) => Set(c, entry).entries[i] = c.entries[i]
         /\ Set(c, entry).pending = c.pending /\ Set(c, entry).orphans = c.orphans
         /\ Set(c, entry).afterCutoff = c.afterCutoff
         /\ Last(c) \in 1 .. Last(c) /\ Cur(c) \in Entry
<1>1. c.entries \in Seq(Entry) /\ Last(c) \in 1 .. Len(c.entries)
  BY ChainParts DEF Last
<1> DEFINE es == [c.entries EXCEPT ![Last(c)] = entry]
<1>2. /\ es \in Seq(Entry) /\ Len(es) = Len(c.entries) /\ es[Last(c)] = entry
      /\ \A i \in 1 .. Len(c.entries) : i # Last(c) => es[i] = c.entries[i]
  BY <1>1, ExceptSeq
<1>3. Set(c, entry) = [c EXCEPT !.entries = es]
  BY DEF Set
<1> HIDE DEF es
<1>4. /\ Set(c, entry) \in Chain /\ Set(c, entry).entries = es
      /\ Set(c, entry).pending = c.pending /\ Set(c, entry).orphans = c.orphans
      /\ Set(c, entry).afterCutoff = c.afterCutoff
  BY <1>2, <1>3 DEF Chain
<1>5. Last(Set(c, entry)) = Last(c) /\ Set(c, entry).entries # <<>>
  BY <1>1, <1>2, <1>4, EmptySeq DEF Last
<1>6. Cur(c) \in Entry
  BY <1>1, ElementOfSeq DEF Cur
<1> QED
  BY <1>1, <1>2, <1>4, <1>5, <1>6 DEF Cur, Last

Told(entry, expected) == [entry EXCEPT !.known = TRUE, !.expected = expected]

LEMMA ExpectIs ==
  ASSUME NEW c \in Chain, c.entries # <<>>, NEW v \in BOOLEAN
  PROVE  Expect(c, v) = Reconciled(Set(c, Told(Cur(c), v)))
<1>1. c.entries \in Seq(Entry) /\ Last(c) \in 1 .. Len(c.entries) /\ Last(c) \in DOMAIN c.entries
  BY ChainParts DEF Last
<1>2. [c EXCEPT !.entries[Last(c)].known = TRUE, !.entries[Last(c)].expected = v]
        = Set(c, Told(Cur(c), v))
  BY <1>1 DEF Set, Told, Cur, Chain
<1> QED
  BY <1>2 DEF Expect

LEMMA SetTwice ==
  ASSUME NEW c \in Chain, c.entries # <<>>, NEW e1 \in Entry, NEW e2 \in Entry
  PROVE  Set(Set(c, e1), e2) = Set(c, e2)
<1>1. Last(Set(c, e1)) = Last(c) /\ Last(c) \in DOMAIN c.entries
  BY SetParts, ChainParts
<1> QED
  BY <1>1 DEF Set, Chain

\* c1 is c but for the current entry and what is pending; at most one more
\* event of each kind is.
Touched(c, c1) ==
  /\ c1 \in Chain /\ Last(c1) = Last(c)
  /\ c1.orphans = c.orphans /\ c1.afterCutoff = c.afterCutoff
  /\ \A i \in 1 .. Last(c) : /\ i # Last(c) => c1.entries[i] = c.entries[i]
                             /\ c1.entries[i].extra = c.entries[i].extra
  /\ \A x \in Extras : \/ c1.pending[x] = c.pending[x]
                       \/ \E h \in Positions : c1.pending[x] = Append(c.pending[x], h)

LEMMA TouchedAwaits ==
  ASSUME NEW c \in Chain, Settled(c), NEW c1, Touched(c, c1), NEW x \in Extras
  PROVE  /\ AtMostOne(c1, x)
         /\ c.pending[x] # <<>> => Awaiting(c1, x) \subseteq {Last(c)}
<1>1. c1 \in Chain /\ Last(c1) = Last(c) /\ Last(c) \in Nat
  BY ChainParts DEF Touched
<1>2. ASSUME c.pending[x] # <<>>, NEW i \in Awaiting(c1, x), i # Last(c) PROVE FALSE
  <2>1. i \in 1 .. Last(c) /\ \A j \in 1 .. i : j \in 1 .. Last(c) /\ j # Last(c)
    <3>1. i \in 1 .. Last(c)
      BY <1>1, <1>2, ChainParts
    <3> QED
      BY <1>1, <1>2, <3>1
  <2>2. \A j \in 1 .. i : c1.entries[j] = c.entries[j]
    BY <2>1 DEF Touched
  <2>3. i \in 1 .. i
    BY <2>1
  <2>4. i \in DOMAIN c.entries
    BY <2>1, ChainParts
  <2>5. i \in Awaiting(c, x)
    BY <1>2, <2>2, <2>3, <2>4 DEF Awaiting
  <2> QED
    BY <1>2, <2>5 DEF Settled
<1>3. c.pending[x] = <<>> => Len(c1.pending[x]) <= 1
  BY AppendProperties, EmptySeq DEF Touched
<1> QED
  BY <1>1, <1>2, <1>3 DEF AtMostOne

LEMMA TouchedSettles ==
  ASSUME NEW c \in Chain, Settled(c), NEW c1, Touched(c, c1)
  PROVE  Step1(c1, Reconciled(c1)) /\ Settled(Reconciled(c1))
<1>1. c1 \in Chain
  BY DEF Touched
<1>2. Step1(c1, Reconciled(c1))
  BY <1>1, TouchedAwaits, ReconcileOne
<1>3. Reconciled(c1).entries = <<>> <=> c.entries = <<>>
  BY <1>1, <1>2, ChainParts DEF Step1, AsBefore, Touched
<1>4. Reconciled(c1).orphans = c.orphans
  BY <1>2 DEF Step1, AsBefore, Touched
<1> QED
  BY <1>2, <1>3, <1>4 DEF Step1, Settled

\* An entry that cannot be fetched, whatever it is assigned.
Unready(entry) == entry.scheduled \/ entry.end # "finished"

LEMMA NothingReady ==
  ASSUME NEW c \in Chain, Settled(c), Ready(c) = {}, NEW c1, Touched(c, c1),
         c1.pending["responseExtra"] = c.pending["responseExtra"],
         c1.entries = c.entries \/ Unready(Cur(c1))
  PROVE  Ready(Reconciled(c1)) = {}
<1> DEFINE d == Reconciled(c1)
           x == "responseExtra"
<1>1. Step1(c1, d) /\ x \in Extras
  BY TouchedSettles DEF Extras
<1> HIDE DEF d
<1> SUFFICES ASSUME NEW i \in Ready(d) PROVE FALSE
  BY DEF d
<1>2. /\ d \in Chain /\ Last(d) = Last(c) /\ Last(c1) = Last(c)
      /\ i \in 1 .. Last(c) /\ SameFields(d.entries[i], c1.entries[i])
  <2>1. d \in Chain /\ AsBefore(d, c1) /\ Last(c1) = Last(c)
    BY <1>1 DEF Step1, Touched
  <2>2. i \in 1 .. Last(d)
    BY <2>1, ChainParts DEF Ready
  <2> QED
    BY <2>1, <2>2 DEF AsBefore
<1>3. CASE i = Last(c) /\ c1.entries # c.entries
  BY <1>2, <1>3 DEF Cur, Unready, Ready, SameFields
<1>4. CASE i # Last(c) \/ c1.entries = c.entries
  <2>1. c1.entries[i] = c.entries[i]
    BY <1>2, <1>4 DEF Touched
  <2>2. d.entries[i].extra[x] = c1.entries[i].extra[x]
    <3>1. ASSUME NEW j \in Awaiting(c1, x), Assigns(c1, d, x, j) PROVE i # j
      <4>1. c.pending[x] # <<>>
        BY <3>1 DEF Assigns
      <4>2. j = Last(c)
        BY <1>1, <3>1, <4>1, TouchedAwaits
      <4>3. c1.entries = c.entries => Awaiting(c1, x) = Awaiting(c, x)
        BY DEF Awaiting
      <4>4. Awaiting(c, x) = {}
        BY <1>1, <4>1 DEF Settled
      <4> QED
        BY <1>4, <3>1, <4>2, <4>3, <4>4
    <3> QED
      BY <1>1, <1>2, <3>1 DEF Step1, Leaves, Assigns
  <2>3. i \in DOMAIN c.entries
    BY <1>2, ChainParts
  <2>4. i \in Ready(c)
    BY <1>2, <2>1, <2>2, <2>3 DEF Ready, SameFields
  <2> QED
    BY <2>4
<1> QED
  BY <1>3, <1>4

LEMMA SetTouches ==
  ASSUME NEW c \in Chain, c.entries # <<>>, NEW entry \in Entry, entry.extra = Cur(c).extra
  PROVE  Touched(c, Set(c, entry))
BY SetParts DEF Touched, Cur

NoReadier(entry, old) ==
  \/ Unready(entry)
  \/ /\ entry.end = old.end /\ entry.response = old.response
     /\ entry.scheduled = old.scheduled

\* A change of the current entry that leaves alone what it awaits.
LEMMA SetSettles ==
  ASSUME NEW c \in Chain, Settled(c), c.entries # <<>>, NEW entry \in Entry,
         entry.extra = Cur(c).extra, entry.known = Cur(c).known,
         entry.expected = Cur(c).expected
  PROVE  /\ Settled(Set(c, entry))
         /\ Ready(c) = {} /\ NoReadier(entry, Cur(c)) => Ready(Set(c, entry)) = {}
<1> DEFINE d == Set(c, entry)
<1>1. /\ d \in Chain /\ Last(d) = Last(c) /\ d.entries # <<>> /\ d.entries[Last(c)] = entry
      /\ \A i \in 1 .. Last(c) : i # Last(c) => d.entries[i] = c.entries[i]
      /\ d.pending = c.pending /\ d.orphans = c.orphans
      /\ DOMAIN c.entries = 1 .. Last(c) /\ DOMAIN d.entries = 1 .. Last(c) /\ Last(c) \in Nat
  <2>1. d \in Chain /\ Last(d) = Last(c)
    BY SetParts
  <2>2. /\ Last(c) \in Nat /\ DOMAIN c.entries = 1 .. Last(c)
        /\ DOMAIN d.entries = 1 .. Last(d)
    BY <2>1, ChainParts
  <2> QED
    BY <2>1, <2>2, SetParts DEF Cur
<1> HIDE DEF d
<1>2. \A i \in 1 .. Last(c) : /\ d.entries[i].known = c.entries[i].known
                              /\ d.entries[i].expected = c.entries[i].expected
                              /\ d.entries[i].extra = c.entries[i].extra
  BY <1>1 DEF Cur
<1>3. ASSUME NEW x \in Extras PROVE Awaiting(d, x) = Awaiting(c, x)
  <2>1. \A i \in 1 .. Last(c) : \A j \in 1 .. i : j \in 1 .. Last(c)
    BY <1>1
  <2> QED
    BY <1>1, <1>2, <2>1 DEF Awaiting
<1>4. Settled(d)
  BY <1>1, <1>3 DEF Settled
<1>5. ASSUME Ready(c) = {}, NEW i \in Ready(d), NoReadier(entry, Cur(c)) PROVE FALSE
  <2>1. i \in DOMAIN c.entries
    BY <1>1 DEF Ready
  <2>2. ~Unready(d.entries[i])
    BY DEF Ready, Unready
  <2>3. i \in Ready(c)
    BY <1>1, <1>2, <1>5, <2>1, <2>2 DEF Ready, Cur, NoReadier
  <2> QED
    BY <1>5, <2>3
<1> QED
  BY <1>4, <1>5 DEF d

LEMMA NewEntryType == ASSUME NEW h \in Positions PROVE NewEntry(h) \in Entry
BY ConstantsAssumption DEF NewEntry, Entry, Positions, Extras

LEMMA NewHopParts ==
  ASSUME NEW c \in Chain, NEW e, e.hop \in Positions
  PROVE  /\ NewHop(c, e) \in Chain /\ Last(NewHop(c, e)) = Last(c) + 1
         /\ \A i \in 1 .. Last(c) : NewHop(c, e).entries[i] = c.entries[i]
         /\ NewHop(c, e).entries[Last(c) + 1] = NewEntry(e.hop)
         /\ NewHop(c, e).pending = c.pending /\ NewHop(c, e).orphans = c.orphans
         /\ NewHop(c, e).afterCutoff = FALSE
<1> DEFINE es == Append(c.entries, NewEntry(e.hop))
<1>1. NewEntry(e.hop) \in Entry /\ c.entries \in Seq(Entry)
  BY NewEntryType, ChainParts
<1>2. /\ es \in Seq(Entry) /\ Len(es) = Len(c.entries) + 1
      /\ \A i \in 1 .. Len(c.entries) : es[i] = c.entries[i]
      /\ es[Len(c.entries) + 1] = NewEntry(e.hop)
  BY <1>1, AppendProperties
<1> HIDE DEF es
<1>3. NewHop(c, e) = [c EXCEPT !.entries = es, !.afterCutoff = FALSE]
  BY DEF NewHop, es, Chain
<1> QED
  BY <1>2, <1>3 DEF Chain, Last

LEMMA NewHopSettles ==
  ASSUME NEW c \in Chain, NEW e, e.hop \in Positions, c.orphans = None,
         \A x \in Extras : c.pending[x] # <<>> => Awaiting(c, x) = {}
  PROVE  Settled(NewHop(c, e)) /\ (Ready(c) = {} => Ready(NewHop(c, e)) = {})
<1> DEFINE d == NewHop(c, e)
<1>1. /\ d \in Chain /\ Last(d) = Last(c) + 1 /\ Last(c) \in Nat
      /\ \A i \in 1 .. Last(c) : d.entries[i] = c.entries[i]
      /\ d.entries[Last(c) + 1] = NewEntry(e.hop)
      /\ d.pending = c.pending /\ d.orphans = c.orphans
      /\ DOMAIN c.entries = 1 .. Last(c) /\ DOMAIN d.entries = 1 .. Last(c) + 1
  <2>1. d \in Chain /\ Last(d) = Last(c) + 1
    BY NewHopParts
  <2>2. /\ Last(c) \in Nat /\ DOMAIN c.entries = 1 .. Last(c)
        /\ DOMAIN d.entries = 1 .. Last(d)
    BY <2>1, ChainParts
  <2> QED
    BY <2>1, <2>2, NewHopParts
<1> HIDE DEF d
<1>2. ~NewEntry(e.hop).known /\ NewEntry(e.hop).end = "none"
  BY DEF NewEntry
<1>3. ASSUME NEW x \in Extras PROVE Awaiting(d, x) \subseteq Awaiting(c, x)
  <2> SUFFICES ASSUME NEW i \in Awaiting(d, x) PROVE i \in Awaiting(c, x)
    OBVIOUS
  <2>1. i \in 1 .. Last(c) + 1 /\ d.entries[i].known
    <3>1. i \in 1 .. Last(c) + 1
      BY <1>1 DEF Awaiting
    <3>2. i \in 1 .. i
      BY <3>1
    <3> QED
      BY <3>1, <3>2 DEF Awaiting
  <2>2. i \in 1 .. Last(c) /\ \A j \in 1 .. i : j \in 1 .. Last(c)
    BY <1>1, <1>2, <2>1
  <2> QED
    BY <1>1, <2>2 DEF Awaiting
<1>4. ASSUME NEW i \in Ready(d) PROVE i \in Ready(c)
  <2>1. i \in 1 .. Last(c) + 1 /\ d.entries[i].end = "finished"
    BY <1>1 DEF Ready
  <2>2. i \in 1 .. Last(c)
    BY <1>1, <1>2, <2>1
  <2> QED
    BY <1>1, <2>2 DEF Ready
<1> QED
  BY <1>1, <1>3, <1>4 DEF Settled, d

-----------------------------------------------------------------------------
(* What each event makes of a chain.                                       *)

\* The current entry once a redirect, a response or an end is recorded.
RedirectedEntry(entry, e) ==
  [entry EXCEPT !.response = e.hop - 1, !.end = "finished", !.scheduled = TRUE]
Responded(entry, e) == [entry EXCEPT !.response = e.hop]
Ended(entry, end) == [entry EXCEPT !.end = end]
CachedEntry(entry) == [entry EXCEPT !.cached = TRUE]
WithPending(c, e) == [c EXCEPT !.pending[e.type] = Append(@, e.hop)]

LEMMA EntryChanges ==
  ASSUME NEW entry \in Entry, NEW e \in Event, NEW v \in BOOLEAN, NEW end \in Ends
  PROVE  /\ RedirectedEntry(entry, e) \in Entry /\ Responded(entry, e) \in Entry
         /\ Ended(entry, end) \in Entry /\ CachedEntry(entry) \in Entry
         /\ Told(entry, v) \in Entry
         /\ Told(entry, v).extra = entry.extra
         /\ RedirectedEntry(entry, e).extra = entry.extra
         /\ Responded(entry, e).extra = entry.extra
         /\ Ended(entry, end).extra = entry.extra
         /\ CachedEntry(entry).extra = entry.extra
<1>1. e.hop \in 1 .. MaxHops /\ e.hop - 1 \in 0 .. MaxHops /\ e.hop \in 0 .. MaxHops
  BY ConstantsAssumption DEF Event
<1> QED
  BY <1>1 DEF RedirectedEntry, Responded, Ended, CachedEntry, Told, Entry, Ends

LEMMA RedirectedIs ==
  ASSUME NEW c \in Chain, c.entries # <<>>, NEW e \in Event
  PROVE  Redirected(c, e) = Reconciled(Set(c, Told(RedirectedEntry(Cur(c), e), e.extra)))
<1> DEFINE entry == RedirectedEntry(Cur(c), e)
           c0 == Set(c, entry)
<1>1. Cur(c) \in Entry /\ Last(c) \in DOMAIN c.entries /\ e.extra \in BOOLEAN
  BY CurIn DEF Event
<1>2. entry \in Entry /\ Told(entry, e.extra) \in Entry
  BY <1>1, EntryChanges DEF Ends
<1>3. c0 = [c EXCEPT !.entries[Last(c)].response = e.hop - 1,
                     !.entries[Last(c)].end = "finished",
                     !.entries[Last(c)].scheduled = TRUE]
  BY <1>1 DEF Set, RedirectedEntry, Cur, Chain
<1>4. c0 \in Chain /\ c0.entries # <<>> /\ Cur(c0) = entry
  BY <1>2, SetParts
<1>5. Redirected(c, e) = Expect(c0, e.extra)
  BY <1>3 DEF Redirected
<1> HIDE DEF c0, entry
<1>6. Expect(c0, e.extra) = Reconciled(Set(c0, Told(entry, e.extra)))
  BY <1>1, <1>4, ExpectIs
<1>7. Set(c0, Told(entry, e.extra)) = Set(c, Told(entry, e.extra))
  BY <1>2, SetTwice DEF c0
<1> QED
  BY <1>5, <1>6, <1>7 DEF entry

LEMMA LoadingFailedIs ==
  ASSUME NEW c \in Chain, c.entries # <<>>
  PROVE  LoadingFailed(c) =
           IF ~Cur(c).known /\ c.pending # None
           THEN Reconciled(Set(c, Told(Ended(Cur(c), "failed"), TRUE)))
           ELSE Set(c, Ended(Cur(c), "failed"))
<1> DEFINE entry == Ended(Cur(c), "failed")
           c0 == Set(c, entry)
<1>1. Cur(c) \in Entry /\ Last(c) \in DOMAIN c.entries
  BY CurIn
<1>2. entry \in Entry /\ Told(entry, TRUE) \in Entry
  <2>1. entry \in Entry
    BY <1>1 DEF Ended, Entry
  <2> QED
    BY <2>1 DEF Told, Entry
<1>3. c0 = [c EXCEPT !.entries[Last(c)].end = "failed"]
  BY <1>1 DEF Set, Ended, Cur, Chain
<1>4. /\ c0 \in Chain /\ c0.entries # <<>> /\ Cur(c0) = entry
      /\ c0.pending = c.pending
  BY <1>2, SetParts
<1>5. entry.known = Cur(c).known /\ entry.end = "failed"
  BY <1>1 DEF Ended, Entry
<1>6. FailedUnknown(c0) <=> ~Cur(c).known
  BY <1>4, <1>5 DEF FailedUnknown, Cur
<1>7. LoadingFailed(c) = IF FailedUnknown(c0) /\ c0.pending # None THEN Expect(c0, TRUE) ELSE c0
  BY <1>3 DEF LoadingFailed
<1> HIDE DEF c0, entry
<1>8. Expect(c0, TRUE) = Reconciled(Set(c0, Told(entry, TRUE)))
  BY <1>4, ExpectIs
<1>9. Set(c0, Told(entry, TRUE)) = Set(c, Told(entry, TRUE))
  BY <1>2, SetTwice DEF c0
<1> QED
  BY <1>4, <1>6, <1>7, <1>8, <1>9 DEF entry, c0

LEMMA ResponseIs ==
  ASSUME NEW c \in Chain, c.entries # <<>>, NEW e \in Event
  PROVE  Expect([c EXCEPT !.entries[Last(c)].response = e.hop], e.extra)
           = Reconciled(Set(c, Told(Responded(Cur(c), e), e.extra)))
<1> DEFINE entry == Responded(Cur(c), e)
           c0 == Set(c, entry)
<1>1. Cur(c) \in Entry /\ Last(c) \in DOMAIN c.entries /\ e.extra \in BOOLEAN
  BY CurIn DEF Event
<1>2. entry \in Entry /\ Told(entry, e.extra) \in Entry
  BY <1>1, EntryChanges DEF Ends
<1>3. c0 = [c EXCEPT !.entries[Last(c)].response = e.hop]
  BY <1>1 DEF Set, Responded, Cur, Chain
<1>4. c0 \in Chain /\ c0.entries # <<>> /\ Cur(c0) = entry
  BY <1>2, SetParts
<1> HIDE DEF c0, entry
<1>5. Expect(c0, e.extra) = Reconciled(Set(c0, Told(entry, e.extra)))
  BY <1>1, <1>4, ExpectIs
<1>6. Set(c0, Told(entry, e.extra)) = Set(c, Told(entry, e.extra))
  BY <1>2, SetTwice DEF c0
<1> QED
  BY <1>3, <1>5, <1>6 DEF entry

LEMMA PendingParts ==
  ASSUME NEW c \in Chain, NEW e, e.type \in Extras, e.hop \in Positions
  PROVE  LET d == WithPending(c, e) IN
         /\ d \in Chain /\ d.entries = c.entries /\ Last(d) = Last(c) /\ Cur(d) = Cur(c)
         /\ d.orphans = c.orphans /\ d.afterCutoff = c.afterCutoff
         /\ d.pending[e.type] = Append(c.pending[e.type], e.hop)
         /\ \A x \in Extras \ {e.type} : d.pending[x] = c.pending[x]
<1> DEFINE d == WithPending(c, e)
           ps == [c.pending EXCEPT ![e.type] = Append(c.pending[e.type], e.hop)]
<1>1. \A x \in Extras : c.pending[x] \in Seq(Positions)
  BY ChainParts
<1>2. Append(c.pending[e.type], e.hop) \in Seq(Positions)
  BY <1>1, AppendProperties
<1>3. c.pending \in [Extras -> Seq(Positions)]
  BY DEF Chain, Positions
<1>4. ps \in [Extras -> Seq(Positions)]
  BY <1>2, <1>3
<1>5. d = [c EXCEPT !.pending = ps]
  BY DEF WithPending
<1>6. /\ ps[e.type] = Append(c.pending[e.type], e.hop)
      /\ \A x \in Extras \ {e.type} : ps[x] = c.pending[x]
  BY <1>3
<1> HIDE DEF ps, d
<1>7. /\ d \in Chain /\ d.entries = c.entries /\ d.orphans = c.orphans
      /\ d.afterCutoff = c.afterCutoff /\ d.pending = ps
  BY <1>4, <1>5 DEF Chain, Positions
<1> QED
  BY <1>6, <1>7 DEF d, Last, Cur

\* The chain that ExtraInfo reconciles.
WithExtra(c, e) ==
  IF FailedUnknown(c) THEN Set(WithPending(c, e), Told(Cur(c), TRUE)) ELSE WithPending(c, e)

LEMMA ExtraInfoIs ==
  ASSUME NEW c \in Chain, NEW e, e.type \in Extras, e.hop \in Positions
  PROVE  /\ ExtraInfo(c, e) = Reconciled(WithExtra(c, e))
         /\ Touched(c, WithExtra(c, e))
         /\ WithExtra(c, e).pending = WithPending(c, e).pending
         /\ WithExtra(c, e).entries = c.entries \/ Unready(Cur(WithExtra(c, e)))
<1> DEFINE d == WithPending(c, e)
<1>1. /\ d \in Chain /\ d.entries = c.entries /\ Last(d) = Last(c) /\ Cur(d) = Cur(c)
      /\ d.orphans = c.orphans /\ d.afterCutoff = c.afterCutoff
      /\ d.pending[e.type] = Append(c.pending[e.type], e.hop)
      /\ \A x \in Extras \ {e.type} : d.pending[x] = c.pending[x]
  BY PendingParts
<1>2. ExtraInfo(c, e) = IF FailedUnknown(d) THEN Expect(d, TRUE) ELSE Reconciled(d)
  BY DEF ExtraInfo, WithPending
<1> HIDE DEF d
<1>3. FailedUnknown(d) <=> FailedUnknown(c)
  BY <1>1 DEF FailedUnknown
<1>4. Touched(c, d)
  BY <1>1 DEF Touched
<1>5. CASE FailedUnknown(c)
  <2> DEFINE entry == Told(Cur(c), TRUE)
  <2>1. c.entries # <<>> /\ d.entries # <<>> /\ Cur(c) \in Entry /\ Cur(c).end = "failed"
    BY <1>1, <1>5, CurIn DEF FailedUnknown, Cur
  <2>2. entry \in Entry /\ entry.extra = Cur(c).extra /\ entry.end = "failed"
    BY <2>1 DEF Told, Entry
  <2>3. Expect(d, TRUE) = Reconciled(Set(d, entry))
    BY <1>1, <2>1, ExpectIs
  <2> HIDE DEF entry
  <2>4. /\ Touched(d, Set(d, entry)) /\ Set(d, entry).pending = d.pending
        /\ Cur(Set(d, entry)) = entry
    BY <1>1, <2>1, <2>2, SetParts, SetTouches
  <2>5. Touched(c, Set(d, entry))
    BY <1>1, <1>4, <2>4 DEF Touched
  <2> QED
    BY <1>2, <1>3, <1>5, <2>2, <2>3, <2>4, <2>5 DEF WithExtra, Unready, d, entry
<1>6. CASE ~FailedUnknown(c)
  BY <1>1, <1>2, <1>3, <1>4, <1>6 DEF WithExtra, d
<1> QED
  BY <1>5, <1>6

LEMMA RecordedIs ==
  ASSUME NEW c \in Chain, NEW e \in Event
  PROVE  /\ e.type \in Starts => Recorded(c, e) = RequestWillBeSent(c, e)
         /\ e.type \in Extras => Recorded(c, e) = Reconciled(WithExtra(c, e))
         /\ e.type \notin Starts \cup Extras /\ c.entries = <<>> => Recorded(c, e) = c
         /\ c.entries # <<>> =>
              /\ e.type = "cache" => Recorded(c, e) = Set(c, CachedEntry(Cur(c)))
              /\ e.type = "response" =>
                   Recorded(c, e) = Reconciled(Set(c, Told(Responded(Cur(c), e), e.extra)))
              /\ e.type = "finished" => Recorded(c, e) = Set(c, Ended(Cur(c), "finished"))
              /\ e.type = "failed" => Recorded(c, e) = LoadingFailed(c)
<1>1. e.hop \in Positions
  BY DEF Event, Positions
<1>2. e.type \in Starts => Recorded(c, e) = RequestWillBeSent(c, e)
  BY DEF Recorded, Starts, Extras
<1>3. e.type \in Extras => Recorded(c, e) = ExtraInfo(c, e)
  BY DEF Recorded, Starts, Extras
<1>4. e.type \notin Starts \cup Extras /\ c.entries = <<>> => Recorded(c, e) = c
  BY DEF Recorded, Starts, Extras
<1>5. ASSUME c.entries # <<>>
      PROVE  /\ e.type = "cache" => Recorded(c, e) = Set(c, CachedEntry(Cur(c)))
             /\ e.type = "finished" => Recorded(c, e) = Set(c, Ended(Cur(c), "finished"))
             /\ e.type = "failed" => Recorded(c, e) = LoadingFailed(c)
             /\ e.type = "response" =>
                  Recorded(c, e) = Expect([c EXCEPT !.entries[Last(c)].response = e.hop], e.extra)
  <2>1. Cur(c) \in Entry /\ Last(c) \in DOMAIN c.entries
    BY <1>5, CurIn
  <2>2. /\ [c EXCEPT !.entries[Last(c)].cached = TRUE] = Set(c, CachedEntry(Cur(c)))
        /\ [c EXCEPT !.entries[Last(c)].end = "finished"] = Set(c, Ended(Cur(c), "finished"))
    BY <2>1 DEF Set, CachedEntry, Ended, Cur, Chain
  <2>3. /\ e.type = "cache" => Recorded(c, e) = [c EXCEPT !.entries[Last(c)].cached = TRUE]
        /\ e.type = "finished" => Recorded(c, e) = [c EXCEPT !.entries[Last(c)].end = "finished"]
        /\ e.type = "failed" => Recorded(c, e) = LoadingFailed(c)
        /\ e.type = "response" =>
             Recorded(c, e) = Expect([c EXCEPT !.entries[Last(c)].response = e.hop], e.extra)
    BY <1>5 DEF Recorded, Starts, Extras
  <2> QED
    BY <2>2, <2>3
<1> QED
  BY <1>1, <1>2, <1>3, <1>4, <1>5, ExtraInfoIs, ResponseIs

\* Only events that complete an entry make one ready.
Quiet(c, d, e) == Ready(c) = {} /\ e.type \notin Completing => Ready(d) = {}

\* Events with a hop of their own, whatever it is.
LEMMA RecordedSettles ==
  ASSUME NEW c \in Chain, Settled(c), NEW e \in Event
  PROVE  Recorded(c, e) \in Chain /\ Settled(Recorded(c, e)) /\ Quiet(c, Recorded(c, e), e)
<1>1. e.hop \in Positions /\ e.extra \in BOOLEAN /\ e.type \in Types
  BY DEF Event, Positions
<1> DEFINE Good(d) == d \in Chain /\ Settled(d) /\ Quiet(c, d, e)
<1>2. ASSUME NEW entry \in Entry, entry.extra = Cur(c).extra, c.entries # <<>>,
             e.type \in Completing \/ Unready(entry)
      PROVE  Good(Reconciled(Set(c, entry)))
  <2>1. Touched(c, Set(c, entry)) /\ Set(c, entry).pending = c.pending
        /\ Cur(Set(c, entry)) = entry
    BY <1>2, SetTouches, SetParts
  <2>2. Settled(Reconciled(Set(c, entry))) /\ Step1(Set(c, entry), Reconciled(Set(c, entry)))
    BY <2>1, TouchedSettles
  <2> QED
    BY <1>2, <2>1, <2>2, NothingReady DEF Step1, Quiet
<1>3. ASSUME NEW entry \in Entry, entry.extra = Cur(c).extra, c.entries # <<>>,
             entry.known = Cur(c).known, entry.expected = Cur(c).expected,
             e.type \in Completing \/ NoReadier(entry, Cur(c))
      PROVE  Good(Set(c, entry))
  <2>1. Set(c, entry) \in Chain
    BY <1>3, SetParts
  <2>2. Settled(Set(c, entry))
    BY <1>3, SetSettles
  <2>3. Quiet(c, Set(c, entry), e)
    BY <1>3, SetSettles DEF Quiet
  <2> QED
    BY <2>1, <2>2, <2>3
<1>4. CASE e.type \in Starts
  <2>1. CASE c.entries = <<>>
    <3> DEFINE d == Adopted(c)
    <3>1. d \in Chain /\ d.orphans = None /\ d.entries = <<>>
      <4> DEFINE ps == [x \in Extras |-> c.pending[x] \o c.orphans[x]]
      <4>1. ps \in [Extras -> Seq(1 .. MaxHops)]
        BY ChainParts DEF Queued, Positions
      <4>2. None \in [Extras -> Seq(1 .. MaxHops)]
        BY DEF None
      <4>3. d = [c EXCEPT !.pending = ps, !.orphans = None]
        BY DEF Adopted
      <4> HIDE DEF ps, d
      <4> QED
        BY <2>1, <4>1, <4>2, <4>3 DEF Chain
    <3> HIDE DEF d
    <3>2. Last(d) = 0 /\ \A x \in Extras : Awaiting(d, x) = {}
      BY <3>1, ChainParts DEF Awaiting
    <3>3. Ready(d) = {}
      BY <3>1, <3>2, ChainParts DEF Ready
    <3>4. Recorded(c, e) = NewHop(d, e)
      BY <1>4, <2>1, RecordedIs DEF RequestWillBeSent, d
    <3> QED
      BY <1>1, <3>1, <3>2, <3>3, <3>4, NewHopParts, NewHopSettles DEF Quiet
  <2>2. CASE c.entries # <<>> /\ e.type = "duplicate"
    <3>1. Recorded(c, e) = [c EXCEPT !.afterCutoff = FALSE]
      BY <1>4, <2>2, RecordedIs DEF RequestWillBeSent
    <3> DEFINE d == [c EXCEPT !.afterCutoff = FALSE]
    <3>2. d \in Chain /\ d.entries = c.entries /\ d.pending = c.pending /\ d.orphans = c.orphans
      BY DEF Chain
    <3> HIDE DEF d
    <3>3. Settled(d) /\ Ready(d) = Ready(c)
      BY <3>2 DEF Settled, Ready, Awaiting
    <3> QED
      BY <3>1, <3>2, <3>3 DEF Quiet, d
  <2>3. CASE c.entries # <<>> /\ e.type # "duplicate"
    <3> DEFINE entry == Told(RedirectedEntry(Cur(c), e), e.extra)
               d == Reconciled(Set(c, entry))
    <3>1. Cur(c) \in Entry
      BY <2>3, CurIn
    <3>2. RedirectedEntry(Cur(c), e) \in Entry /\ RedirectedEntry(Cur(c), e).scheduled
          /\ RedirectedEntry(Cur(c), e).extra = Cur(c).extra
      BY <3>1, EntryChanges DEF RedirectedEntry, Entry, Ends
    <3>3. entry \in Entry /\ entry.extra = Cur(c).extra /\ Unready(entry)
      BY <1>1, <3>2 DEF Told, Entry, Unready
    <3>4. Recorded(c, e) = NewHop(d, e)
      BY <1>4, <2>3, RecordedIs, RedirectedIs DEF RequestWillBeSent
    <3>5. Good(d)
      BY <1>2, <2>3, <3>3
    <3>6. d.orphans = None
      <4>1. d.entries # <<>>
        <5>1. Step1(Set(c, entry), d)
          BY <2>3, <3>3, SetTouches, TouchedSettles
        <5>2. Last(d) = Last(Set(c, entry)) /\ Set(c, entry) \in Chain /\ Set(c, entry).entries # <<>>
          BY <2>3, <3>3, <5>1, SetParts DEF Step1, AsBefore
        <5> QED
          BY <3>5, <5>2, ChainParts
      <4> QED
        BY <3>5, <4>1 DEF Settled
    <3>7. /\ d \in Chain /\ \A x \in Extras : d.pending[x] # <<>> => Awaiting(d, x) = {}
          /\ Ready(c) = {} /\ e.type \notin Completing => Ready(d) = {}
      BY <3>5 DEF Quiet, Settled
    <3> HIDE DEF d
    <3> QED
      BY <1>1, <3>4, <3>6, <3>7, NewHopParts, NewHopSettles DEF Quiet
  <2> QED
    BY <2>1, <2>2, <2>3
<1>5. CASE e.type \in Extras
  <2>1. /\ Recorded(c, e) = Reconciled(WithExtra(c, e)) /\ Touched(c, WithExtra(c, e))
        /\ WithExtra(c, e).pending = WithPending(c, e).pending
        /\ WithExtra(c, e).entries = c.entries \/ Unready(Cur(WithExtra(c, e)))
    BY <1>1, <1>5, RecordedIs, ExtraInfoIs
  <2>2. e.type \notin Completing => WithExtra(c, e).pending["responseExtra"] = c.pending["responseExtra"]
    BY <1>1, <1>5, <2>1, PendingParts DEF Completing, Extras
  <2>3. Step1(WithExtra(c, e), Recorded(c, e)) /\ Settled(Recorded(c, e))
    BY <2>1, TouchedSettles
  <2> QED
    BY <2>1, <2>2, <2>3, NothingReady DEF Quiet, Step1
<1>6. CASE e.type \notin Starts \cup Extras /\ c.entries = <<>>
  BY <1>6, RecordedIs DEF Quiet
<1>7. CASE e.type \notin Starts \cup Extras /\ c.entries # <<>>
  <2>1. Cur(c) \in Entry
    BY <1>7, CurIn
  <2>2. CASE e.type = "cache"
    <3>1. /\ CachedEntry(Cur(c)) \in Entry /\ CachedEntry(Cur(c)).extra = Cur(c).extra
          /\ CachedEntry(Cur(c)).known = Cur(c).known
          /\ CachedEntry(Cur(c)).expected = Cur(c).expected
          /\ CachedEntry(Cur(c)).end = Cur(c).end
          /\ CachedEntry(Cur(c)).response = Cur(c).response
          /\ CachedEntry(Cur(c)).scheduled = Cur(c).scheduled
      BY <2>1 DEF CachedEntry, Entry
    <3> QED
      BY <1>3, <1>7, <2>2, <3>1, RecordedIs DEF NoReadier
  <2>3. CASE e.type = "response"
    <3> DEFINE entry == Told(Responded(Cur(c), e), e.extra)
    <3>1. Responded(Cur(c), e) \in Entry /\ Responded(Cur(c), e).extra = Cur(c).extra
      BY <2>1, EntryChanges DEF Ends
    <3>2. entry \in Entry /\ entry.extra = Cur(c).extra
      BY <1>1, <3>1 DEF Told, Entry
    <3> QED
      BY <1>2, <1>7, <2>3, <3>2, RecordedIs DEF Completing
  <2>4. CASE e.type = "finished"
    <3> DEFINE entry == Ended(Cur(c), "finished")
    <3>1. /\ entry \in Entry /\ entry.extra = Cur(c).extra
          /\ entry.known = Cur(c).known /\ entry.expected = Cur(c).expected
      BY <2>1 DEF Ended, Entry
    <3> QED
      BY <1>3, <1>7, <2>4, <3>1, RecordedIs DEF Completing
  <2>5. CASE e.type = "failed"
    <3> DEFINE entry == Ended(Cur(c), "failed")
    <3>1. /\ entry \in Entry /\ entry.extra = Cur(c).extra /\ Unready(entry)
          /\ entry.known = Cur(c).known /\ entry.expected = Cur(c).expected
      BY <2>1 DEF Ended, Entry, Unready
    <3>2. /\ Told(entry, TRUE) \in Entry /\ Told(entry, TRUE).extra = Cur(c).extra
          /\ Unready(Told(entry, TRUE))
      BY <3>1 DEF Told, Entry, Unready
    <3>3. NoReadier(entry, Cur(c))
      BY <3>1 DEF NoReadier
    <3>4. Good(Set(c, entry)) /\ Good(Reconciled(Set(c, Told(entry, TRUE))))
      BY <1>2, <1>3, <1>7, <3>1, <3>2, <3>3
    <3> QED
      BY <1>7, <2>5, <3>4, RecordedIs, LoadingFailedIs
  <2> QED
    BY <1>1, <1>7, <2>2, <2>3, <2>4, <2>5 DEF Types, Starts, Extras
<1> QED
  BY <1>4, <1>5, <1>6, <1>7

\* The chain that Schedule leaves.
Scheduled(c) ==
  [c EXCEPT !.entries = [i \in DOMAIN c.entries |->
                          [c.entries[i] EXCEPT !.scheduled = @ \/ i \in Ready(c)]]]

LEMMA ScheduledParts ==
  ASSUME NEW c \in Chain
  PROVE  LET d == Scheduled(c) IN
         /\ d \in Chain /\ Last(d) = Last(c) /\ d.pending = c.pending
         /\ d.orphans = c.orphans /\ d.afterCutoff = c.afterCutoff
         /\ \A i \in 1 .. Last(c) :
              d.entries[i] = [c.entries[i] EXCEPT !.scheduled = @ \/ i \in Ready(c)]
<1> DEFINE es == [i \in DOMAIN c.entries |->
                   [c.entries[i] EXCEPT !.scheduled = @ \/ i \in Ready(c)]]
           d == Scheduled(c)
<1>1. DOMAIN c.entries = 1 .. Last(c) /\ c.entries \in [1 .. Last(c) -> Entry] /\ Last(c) \in Nat
  BY ChainParts
<1>2. ASSUME NEW i \in 1 .. Last(c) PROVE es[i] \in Entry
  BY <1>1, <1>2 DEF Entry
<1>3. es \in [1 .. Last(c) -> Entry]
  BY <1>1, <1>2
<1>4. es \in Seq(Entry) /\ Len(es) = Last(c)
  BY <1>1, <1>3, SeqIntro
<1>5. d = [c EXCEPT !.entries = es]
  BY DEF Scheduled
<1>6. \A i \in 1 .. Last(c) : es[i] = [c.entries[i] EXCEPT !.scheduled = @ \/ i \in Ready(c)]
  BY <1>1
<1> HIDE DEF es, d
<1>7. /\ d \in Chain /\ d.entries = es /\ d.pending = c.pending /\ d.orphans = c.orphans
      /\ d.afterCutoff = c.afterCutoff
  BY <1>4, <1>5 DEF Chain
<1> QED
  BY <1>4, <1>6, <1>7 DEF d, Last

LEMMA ScheduledFields ==
  ASSUME NEW c \in Chain, NEW i \in 1 .. Last(c)
  PROVE  LET new == Scheduled(c).entries[i]
             old == c.entries[i] IN
         /\ new.hop = old.hop /\ new.known = old.known /\ new.expected = old.expected
         /\ new.extra = old.extra /\ new.response = old.response /\ new.end = old.end
         /\ new.cached = old.cached /\ new.body = old.body
         /\ new.scheduled <=> old.scheduled \/ i \in Ready(c)
<1>1. c.entries[i] \in Entry
  BY ChainParts
<1>2. Scheduled(c).entries[i] = [c.entries[i] EXCEPT !.scheduled = @ \/ i \in Ready(c)]
  BY ScheduledParts
<1> QED
  BY <1>1, <1>2 DEF Entry

LEMMA ScheduledSettles ==
  ASSUME NEW c \in Chain, Settled(c)
  PROVE  Settled(Scheduled(c)) /\ Ready(Scheduled(c)) = {}
<1> DEFINE d == Scheduled(c)
<1>1. /\ d \in Chain /\ Last(d) = Last(c) /\ d.pending = c.pending /\ d.orphans = c.orphans
  BY ScheduledParts
<1>2. /\ DOMAIN c.entries = 1 .. Last(c) /\ DOMAIN d.entries = 1 .. Last(c)
      /\ Last(c) \in Nat /\ (d.entries = <<>> <=> c.entries = <<>>)
  BY <1>1, ChainParts
<1>3. \A i \in 1 .. Last(c) :
        /\ d.entries[i].known = c.entries[i].known
        /\ d.entries[i].expected = c.entries[i].expected
        /\ d.entries[i].extra = c.entries[i].extra /\ d.entries[i].end = c.entries[i].end
        /\ d.entries[i].response = c.entries[i].response
        /\ d.entries[i].scheduled <=> c.entries[i].scheduled \/ i \in Ready(c)
  BY ScheduledFields
<1> HIDE DEF d
<1>4. \A i \in 1 .. Last(c) : \A j \in 1 .. i : j \in 1 .. Last(c)
  BY <1>2
<1>5. \A x \in Extras : Awaiting(d, x) = Awaiting(c, x)
  BY <1>2, <1>3, <1>4 DEF Awaiting
<1>6. ASSUME NEW i \in Ready(d) PROVE FALSE
  <2>1. i \in 1 .. Last(c)
    BY <1>2 DEF Ready
  <2>2. i \in Ready(c)
    BY <1>2, <1>3, <2>1 DEF Ready
  <2> QED
    BY <1>3, <2>1, <2>2 DEF Ready
<1> QED
  BY <1>1, <1>2, <1>5, <1>6 DEF Settled, d

\* A chain reconciled once more.
LEMMA ReconciledAgain ==
  ASSUME NEW c \in Chain, Settled(c)
  PROVE  /\ Step1(c, Reconciled(c)) /\ Settled(Reconciled(c))
         /\ Ready(c) = {} => Ready(Reconciled(c)) = {}
<1>1. Touched(c, c)
  BY DEF Touched
<1> QED
  BY <1>1, TouchedSettles, NothingReady DEF Extras

\* A chain with the body of an entry fetched.
Fetched(c, i, body) == [c EXCEPT !.entries[i].body = body]

LEMMA FetchedParts ==
  ASSUME NEW c \in Chain, NEW i, NEW body \in 0 .. MaxHops
  PROVE  LET d == Fetched(c, i, body) IN
         /\ d \in Chain /\ Last(d) = Last(c) /\ d.pending = c.pending
         /\ d.orphans = c.orphans /\ d.afterCutoff = c.afterCutoff
         /\ \A j \in 1 .. Last(c) :
              /\ d.entries[j] = IF j = i THEN [c.entries[j] EXCEPT !.body = body] ELSE c.entries[j]
              /\ d.entries[j].extra = c.entries[j].extra
              /\ d.entries[j].known = c.entries[j].known
              /\ d.entries[j].expected = c.entries[j].expected
              /\ d.entries[j].end = c.entries[j].end
              /\ d.entries[j].response = c.entries[j].response
              /\ d.entries[j].scheduled = c.entries[j].scheduled
         /\ Settled(c) => Settled(d)
         /\ Ready(d) = Ready(c)
<1> DEFINE es == [c.entries EXCEPT ![i].body = body]
           d == Fetched(c, i, body)
<1>1. DOMAIN c.entries = 1 .. Last(c) /\ c.entries \in [1 .. Last(c) -> Entry] /\ Last(c) \in Nat
  BY ChainParts
<1>2. ASSUME NEW j \in 1 .. Last(c)
      PROVE  /\ es[j] = IF j = i THEN [c.entries[j] EXCEPT !.body = body] ELSE c.entries[j]
             /\ c.entries[j] \in Entry /\ es[j] \in Entry
  <2>1. c.entries[j] \in Entry
    BY <1>1
  <2>2. [c.entries[j] EXCEPT !.body = body] \in Entry
    BY <2>1 DEF Entry
  <2>3. es[j] = IF j = i THEN [c.entries[j] EXCEPT !.body = body] ELSE c.entries[j]
    BY <1>1
  <2> QED
    BY <2>1, <2>2, <2>3
<1>3. es \in [1 .. Last(c) -> Entry]
  BY <1>1, <1>2
<1>4. es \in Seq(Entry) /\ Len(es) = Last(c) /\ DOMAIN es = 1 .. Last(c)
  BY <1>1, <1>3, SeqIntro
<1>5. d = [c EXCEPT !.entries = es]
  BY DEF Fetched
<1> HIDE DEF es, d
<1>6. /\ d \in Chain /\ d.entries = es /\ d.pending = c.pending /\ d.orphans = c.orphans
      /\ d.afterCutoff = c.afterCutoff
  BY <1>4, <1>5 DEF Chain
<1>7. \A j \in 1 .. Last(c) :
        /\ es[j].extra = c.entries[j].extra /\ es[j].known = c.entries[j].known
        /\ es[j].expected = c.entries[j].expected /\ es[j].end = c.entries[j].end
        /\ es[j].response = c.entries[j].response /\ es[j].scheduled = c.entries[j].scheduled
  <2> SUFFICES ASSUME NEW j \in 1 .. Last(c)
               PROVE  /\ es[j].extra = c.entries[j].extra /\ es[j].known = c.entries[j].known
                      /\ es[j].expected = c.entries[j].expected /\ es[j].end = c.entries[j].end
                      /\ es[j].response = c.entries[j].response
                      /\ es[j].scheduled = c.entries[j].scheduled
    OBVIOUS
  <2>1. c.entries[j] \in Entry
    BY <1>2
  <2>2. es[j] = c.entries[j] \/ es[j] = [c.entries[j] EXCEPT !.body = body]
    BY <1>2
  <2> QED
    BY <2>1, <2>2 DEF Entry
<1>8. \A j \in 1 .. Last(c) : \A k \in 1 .. j : k \in 1 .. Last(c)
  BY <1>1
<1>9. \A x \in Extras : Awaiting(d, x) = Awaiting(c, x)
  BY <1>1, <1>4, <1>6, <1>7, <1>8 DEF Awaiting
<1>10. Ready(d) = Ready(c)
  BY <1>1, <1>4, <1>6, <1>7 DEF Ready
<1>11. d.entries = <<>> <=> c.entries = <<>>
  BY <1>1, <1>4, <1>6, ChainParts DEF Last
<1>12. Settled(c) => Settled(d)
  BY <1>6, <1>9, <1>11 DEF Settled
<1> QED
  BY <1>2, <1>4, <1>6, <1>7, <1>10, <1>12 DEF d, Last

LEMMA FetchedExtras ==
  ASSUME NEW c \in Chain, NEW i, NEW body \in 0 .. MaxHops, NEW j \in 1 .. Last(c)
  PROVE  Fetched(c, i, body).entries[j].extra = c.entries[j].extra
<1> DEFINE d == Fetched(c, i, body)
<1>1. d.entries[j] = IF j = i THEN [c.entries[j] EXCEPT !.body = body] ELSE c.entries[j]
  BY FetchedParts
<1>2. c.entries[j] \in Entry
  BY ChainParts
<1> HIDE DEF d
<1>3. d.entries[j].extra = c.entries[j].extra
  BY <1>1, <1>2 DEF Entry
<1> QED
  BY <1>3 DEF d

LEMMA FetchedEnds ==
  ASSUME NEW c \in Chain, NEW i, NEW body \in 0 .. MaxHops, NEW j \in 1 .. Last(c)
  PROVE  Fetched(c, i, body).entries[j].end = c.entries[j].end
<1> DEFINE d == Fetched(c, i, body)
<1>1. d.entries[j] = IF j = i THEN [c.entries[j] EXCEPT !.body = body] ELSE c.entries[j]
  BY FetchedParts
<1>2. c.entries[j] \in Entry
  BY ChainParts
<1> HIDE DEF d
<1>3. d.entries[j].end = c.entries[j].end
  BY <1>1, <1>2 DEF Entry
<1> QED
  BY <1>3 DEF d

-----------------------------------------------------------------------------
(* Types.                                                                  *)

TypesInv ==
  /\ phase \in Phases
  /\ hops \in [Requests -> Seq(Hop)]
  /\ stage \in [Requests -> {"none", "sent", "responded", "over"}]
  /\ wire \in [Requests -> Seq(Event)]
  /\ arrived \in [Requests -> [Extras -> 0 .. MaxHops]]
  /\ buffer \in Seq(Requests \X Event)
  /\ chain \in [Requests -> Chain]
  /\ dropped \subseteq Requests

\* What Handle may make of the chain of r.
Handled(c, e, d) ==
  \/ d = [c EXCEPT !.afterCutoff = @ \/ e.type \in Starts]
  \/ e.type \in Extras /\ c.entries = <<>> /\ d = [c EXCEPT !.orphans[e.type] = Append(@, e.hop)]
  \/ d = c
  \/ e.type \notin Completing /\ d = Recorded(c, e)
  \/ d = Scheduled(Recorded(c, e))

LEMMA HandledIs ==
  ASSUME TypesInv, NEW r \in Requests, NEW e \in Event, NEW buffered, Handle(r, e, buffered)
  PROVE  \E d : Handled(chain[r], e, d) /\ chain' = [chain EXCEPT ![r] = d]
<1> DEFINE c == chain[r]
<1>1. chain' = chain => chain' = [chain EXCEPT ![r] = c] /\ Handled(c, e, c)
  BY DEF TypesInv, Handled
<1>2. CASE Ignored(chain[r], e, buffered) /\ Ignore(r, e)
  <2>1. chain' = [chain EXCEPT ![r] = [c EXCEPT !.afterCutoff = @ \/ e.type \in Starts]]
    BY <1>2 DEF Ignore
  <2> QED
    BY <2>1 DEF Handled
<1>3. CASE Orphan(chain[r], e) /\ KeepOrphan(r, e)
  <2>1. CASE chain' = [chain EXCEPT ![r].orphans[e.type] = Append(@, e.hop)]
    <3>1. chain' = [chain EXCEPT ![r] = [c EXCEPT !.orphans[e.type] = Append(@, e.hop)]]
      BY <2>1
    <3> QED
      BY <1>3, <3>1 DEF Orphan, Handled
  <2> QED
    BY <1>1, <1>3, <2>1 DEF KeepOrphan
<1>4. CASE Record(r, e)
  <2>1. CASE e.type \in Completing
    <3>1. chain' = [chain EXCEPT ![r] = Scheduled(Recorded(c, e))]
      BY <1>4, <2>1 DEF Record, Schedule, Scheduled
    <3> QED
      BY <3>1 DEF Handled
  <2>2. CASE e.type \notin Completing
    <3>1. chain' = [chain EXCEPT ![r] = Recorded(c, e)]
      BY <1>4, <2>2 DEF Record
    <3> QED
      BY <2>2, <3>1 DEF Handled
  <2> QED
    BY <2>1, <2>2
<1> QED
  BY <1>2, <1>3, <1>4 DEF Handle

LEMMA HandledSettles ==
  ASSUME NEW c \in Chain, Settled(c), Ready(c) = {}, NEW e \in Event, NEW d, Handled(c, e, d)
  PROVE  d \in Chain /\ Settled(d) /\ Ready(d) = {}
<1>1. CASE d = [c EXCEPT !.afterCutoff = @ \/ e.type \in Starts]
  <2>1. d \in Chain /\ d.entries = c.entries /\ d.pending = c.pending /\ d.orphans = c.orphans
    BY <1>1 DEF Chain
  <2> QED
    BY <2>1 DEF Settled, Ready, Awaiting
<1>2. CASE e.type \in Extras /\ c.entries = <<>> /\ d = [c EXCEPT !.orphans[e.type] = Append(@, e.hop)]
  <2>1. c.orphans[e.type] \in Seq(Positions) /\ e.hop \in Positions
    BY <1>2, ChainParts DEF Event, Positions
  <2>2. Append(c.orphans[e.type], e.hop) \in Seq(Positions)
    BY <2>1, AppendProperties
  <2> DEFINE os == [c.orphans EXCEPT ![e.type] = Append(c.orphans[e.type], e.hop)]
  <2>3. os \in [Extras -> Seq(Positions)] /\ d = [c EXCEPT !.orphans = os]
    BY <1>2, <2>2 DEF Chain, Positions
  <2> HIDE DEF os
  <2>4. d \in Chain /\ d.entries = c.entries /\ d.pending = c.pending
    BY <2>3 DEF Chain, Positions
  <2> QED
    BY <1>2, <2>4 DEF Settled, Ready, Awaiting
<1>3. CASE d = c
  BY <1>3
<1>4. CASE e.type \notin Completing /\ d = Recorded(c, e)
  BY <1>4, RecordedSettles DEF Quiet
<1>5. CASE d = Scheduled(Recorded(c, e))
  BY <1>5, RecordedSettles, ScheduledParts, ScheduledSettles
<1> QED
  BY <1>1, <1>2, <1>3, <1>4, <1>5 DEF Handled

-----------------------------------------------------------------------------
(* The steps of the browser.                                               *)

\* A step of the browser that emits e.
Emits(r, e) ==
  /\ wire' = [wire EXCEPT ![r] = Append(@, e)]
  /\ UNCHANGED <<phase, arrived, buffer, chain, tasks, dropped>>
  /\ \A s \in Requests \ {r} : hops'[s] = hops[s] /\ stage'[s] = stage[s]
  /\ stage[r] # "over" /\ stage'[r] # "none"
  /\ e \in Base /\ e.hop = Len(hops'[r]) /\ e.late = Late
  /\ IF e.type = "request" THEN Len(hops'[r]) = Len(hops[r]) + 1
                           ELSE Len(hops'[r]) = Len(hops[r])
  /\ \A n \in 1 .. Len(hops[r]) :
       /\ hops'[r][n].extra = hops[r][n].extra /\ hops'[r][n].late = hops[r][n].late
       /\ hops[r][n].cached => hops'[r][n].cached
  /\ \A n \in 1 .. Len(hops'[r]) : n > Len(hops[r]) => hops'[r][n].late = Late
  /\ Genuine(hops'[r], stage'[r], e)

LEMMA HopChange ==
  ASSUME NEW hs \in Seq(Hop), NEW n \in 1 .. Len(hs), NEW hop \in Hop
  PROVE  /\ [hs EXCEPT ![n] = hop] \in Seq(Hop)
         /\ Len([hs EXCEPT ![n] = hop]) = Len(hs)
         /\ [hs EXCEPT ![n] = hop][n] = hop
         /\ \A m \in 1 .. Len(hs) : m # n => [hs EXCEPT ![n] = hop][m] = hs[m]
BY ExceptSeq

LEMMA BrowserSteps ==
  ASSUME TypesInv, BrowserInv, NEW r \in Requests,
         \/ SendRequest(r) \/ RepeatRequest(r) \/ HitCache(r) \/ Respond(r) \/ EndRequest(r)
  PROVE  /\ hops' \in [Requests -> Seq(Hop)]
         /\ stage' \in [Requests -> {"none", "sent", "responded", "over"}]
         /\ \E e \in Base : Emits(r, e)
<1> DEFINE hs == hops[r]
           hs2 == hops'[r]
           event(type, extra) == [type |-> type, hop |-> Len(hs2), extra |-> extra, late |-> Late]
<1>1. /\ hs \in Seq(Hop) /\ Len(hs) \in Nat /\ (hs = <<>> <=> Len(hs) = 0)
      /\ stage[r] \in {"none", "sent", "responded", "over"}
      /\ stage[r] = "none" <=> hs = <<>>
      /\ Len(hs) <= MaxHops /\ MaxHops \in Nat \ {0} /\ Late \in BOOLEAN
      /\ DOMAIN hs = 1 .. Len(hs)
  BY ConstantsAssumption, LenProperties, EmptySeq DEF TypesInv, BrowserInv, Late
\* What any emission amounts to.
<1>2. ASSUME NEW type \in Types \ Extras, NEW extra \in BOOLEAN, Emit(r, type, extra),
             Len(hs2) \in 1 .. MaxHops
      PROVE  /\ wire' = [wire EXCEPT ![r] = Append(@, event(type, extra))]
             /\ event(type, extra) \in Base
             /\ UNCHANGED <<phase, arrived, buffer, chain, tasks, dropped>>
  BY <1>1, <1>2 DEF Emit, Base, Event
<1>3. ASSUME hs2 \in Seq(Hop), Len(hs2) = Len(hs),
             \A n \in 1 .. Len(hs) : /\ hs2[n].extra = hs[n].extra /\ hs2[n].late = hs[n].late
                                     /\ hs[n].cached => hs2[n].cached,
             \A s \in Requests \ {r} : hops'[s] = hops[s],
             hops' \in [Requests -> Seq(Hop)],
             NEW st \in {"sent", "responded", "over"}, stage' = [stage EXCEPT ![r] = st],
             stage[r] \in {"sent", "responded"},
             NEW type \in Types \ Extras, type # "request", NEW extra \in BOOLEAN,
             Emit(r, type, extra),
             type = "duplicate" => Len(hs) = 1, type = "cache" => hs2[Len(hs)].cached,
             type = "response" => extra = hs[Len(hs)].extra,
             type \in Ends => st = "over"
      PROVE  /\ hops' \in [Requests -> Seq(Hop)]
             /\ stage' \in [Requests -> {"none", "sent", "responded", "over"}]
             /\ \E e \in Base : Emits(r, e)
  <2> DEFINE e == event(type, extra)
  <2>1. Len(hs) \in 1 .. MaxHops /\ Len(hs2) \in 1 .. MaxHops
    BY <1>1, <1>3
  <2>2. /\ wire' = [wire EXCEPT ![r] = Append(@, e)] /\ e \in Base
        /\ UNCHANGED <<phase, arrived, buffer, chain, tasks, dropped>>
    BY <1>2, <1>3, <2>1
  <2>3. /\ e.type = type /\ e.hop = Len(hs2) /\ e.hop = Len(hs) /\ e.late = Late /\ e.extra = extra
    BY <1>3
  <2>4. hs[Len(hs)].late => Late
    BY <1>1, <2>1 DEF BrowserInv
  <2>5. Genuine(hs2, st, e)
    <3> HIDE DEF e
    <3>1. e.hop <= Len(hs2) /\ e.hop \in 1 .. Len(hs)
      BY <1>3, <2>1, <2>3
    <3>2. hs2[e.hop].late => e.late
      BY <1>3, <2>3, <2>4, <3>1
    <3>3. e.type = "duplicate" => e.hop = 1
      BY <1>3, <2>3
    <3>4. e.type = "cache" => hs2[e.hop].cached
      BY <1>3, <2>3
    <3>5. e.type = "response" => e.extra = hs2[e.hop].extra
      BY <1>3, <2>3, <3>1
    <3>6. e.type \in Ends => st = "over" /\ e.hop = Len(hs2)
      BY <1>3, <2>3
    <3> QED
      BY <1>3, <2>3, <3>1, <3>2, <3>3, <3>4, <3>5, <3>6 DEF Genuine
  <2>6. stage'[r] = st /\ \A s \in Requests \ {r} : stage'[s] = stage[s]
    BY <1>3 DEF TypesInv
  <2> HIDE DEF e
  <2>7. Emits(r, e)
    BY <1>1, <1>3, <2>1, <2>2, <2>3, <2>5, <2>6 DEF Emits
  <2> QED
    BY <1>3, <2>2, <2>7 DEF TypesInv
<1>4. CASE SendRequest(r)
  <2>1. PICK x \in BOOLEAN :
          hops' = [hops EXCEPT ![r] = Append(@, [extra |-> x, cached |-> FALSE,
                                                 repeated |-> FALSE, late |-> Late])]
    BY <1>4 DEF SendRequest
  <2> DEFINE hop == [extra |-> x, cached |-> FALSE, repeated |-> FALSE, late |-> Late]
  <2>2. hop \in Hop /\ hop.late = Late
    BY <1>1 DEF Hop
  <2>3. hs2 = Append(hs, hop) /\ \A s \in Requests \ {r} : hops'[s] = hops[s]
    BY <2>1 DEF TypesInv
  <2> HIDE DEF hop
  <2>4. /\ hs2 \in Seq(Hop) /\ Len(hs2) = Len(hs) + 1
        /\ \A n \in 1 .. Len(hs) : hs2[n] = hs[n]
        /\ hs2[Len(hs) + 1] = hop
    BY <1>1, <2>2, <2>3, AppendProperties
  <2>5. hops' \in [Requests -> Seq(Hop)]
    BY <2>1, <2>3, <2>4 DEF TypesInv
  <2>6. /\ stage' = [stage EXCEPT ![r] = "sent"]
        /\ stage[r] = "none" \/ (stage[r] = "sent" /\ Len(hs) < MaxHops)
        /\ Emit(r, "request", stage[r] = "sent" /\ LastHop(r).extra)
    BY <1>4 DEF SendRequest
  <2> DEFINE extra == stage[r] = "sent" /\ LastHop(r).extra
             e == event("request", extra)
  <2>7. extra \in BOOLEAN /\ Len(hs2) \in 1 .. MaxHops
    <3>1. Len(hs2) \in 1 .. MaxHops
      BY <1>1, <2>4, <2>6
    <3>2. stage[r] = "sent" => LastHop(r) \in Hop
      BY <1>1, ElementOfSeq DEF LastHop
    <3> QED
      BY <3>1, <3>2 DEF Hop
  <2>8. "request" \in Types \ Extras
    BY DEF Types, Starts, Extras
  <2>9. /\ wire' = [wire EXCEPT ![r] = Append(@, e)] /\ e \in Base
        /\ UNCHANGED <<phase, arrived, buffer, chain, tasks, dropped>>
    BY <1>2, <2>6, <2>7, <2>8
  <2>10. /\ e.type = "request" /\ e.hop = Len(hs2) /\ e.late = Late /\ e.extra = extra
    OBVIOUS
  <2>11. Len(hs) # 0 => extra = hs[Len(hs)].extra
    <3>1. Len(hs) # 0 => stage[r] = "sent"
      BY <1>1, <2>6
    <3>2. Len(hs) # 0 => hs[Len(hs)] \in Hop
      BY <1>1, ElementOfSeq
    <3> QED
      BY <3>1, <3>2 DEF LastHop, Hop
  <2> HIDE DEF e, extra
  <2>12. Genuine(hs2, "sent", e)
    <3>1. hs2[e.hop].late => e.late
      BY <1>1, <2>2, <2>4, <2>10
    <3>2. e.hop > 1 => e.extra = hs2[e.hop - 1].extra
      <4>1. e.hop = Len(hs) + 1 /\ e.hop - 1 = Len(hs) /\ Len(hs) \in Nat
        BY <1>1, <2>4, <2>10
      <4>2. e.hop > 1 => Len(hs) \in 1 .. Len(hs) /\ Len(hs) # 0
        BY <4>1
      <4> QED
        BY <2>4, <2>10, <2>11, <4>1, <4>2
    <3>3. e.hop <= Len(hs2)
      BY <1>1, <2>4, <2>10
    <3> QED
      BY <2>10, <3>1, <3>2, <3>3 DEF Genuine, Ends
  <2>13. stage'[r] = "sent" /\ \A s \in Requests \ {r} : stage'[s] = stage[s]
    BY <2>6 DEF TypesInv
  <2>14. \A n \in 1 .. Len(hs2) : n > Len(hs) => hs2[n].late = Late
    <3>1. \A n \in 1 .. Len(hs2) : n > Len(hs) => n = Len(hs) + 1
      BY <1>1, <2>4
    <3> QED
      BY <2>2, <2>4, <3>1
  <2>15. Emits(r, e)
    BY <1>1, <2>3, <2>4, <2>6, <2>9, <2>10, <2>12, <2>13, <2>14 DEF Emits
  <2> QED
    BY <2>5, <2>6, <2>9, <2>15 DEF TypesInv
<1>5. ASSUME NEW n \in 1 .. Len(hs), NEW hop \in Hop, hops' = [hops EXCEPT ![r] = [hs EXCEPT ![n] = hop]],
             hop.extra = hs[n].extra, hop.late = hs[n].late, hs[n].cached => hop.cached
      PROVE  /\ hs2 \in Seq(Hop) /\ Len(hs2) = Len(hs) /\ hs2[n] = hop
             /\ \A m \in 1 .. Len(hs) : /\ hs2[m].extra = hs[m].extra /\ hs2[m].late = hs[m].late
                                        /\ hs[m].cached => hs2[m].cached
             /\ \A s \in Requests \ {r} : hops'[s] = hops[s]
             /\ hops' \in [Requests -> Seq(Hop)]
  <2>1. hs2 = [hs EXCEPT ![n] = hop]
    BY <1>5 DEF TypesInv
  <2>2. /\ hs2 \in Seq(Hop) /\ Len(hs2) = Len(hs) /\ hs2[n] = hop
        /\ \A m \in 1 .. Len(hs) : m # n => hs2[m] = hs[m]
    BY <1>1, <1>5, <2>1, HopChange
  <2> QED
    BY <1>5, <2>2 DEF TypesInv
<1>6. CASE RepeatRequest(r)
  <2> DEFINE hop == [hs[1] EXCEPT !.repeated = TRUE]
  <2>1. 1 \in 1 .. Len(hs) /\ Len(hs) = 1 /\ stage[r] = "sent" /\ stage' = [stage EXCEPT ![r] = "sent"]
    BY <1>6 DEF RepeatRequest, TypesInv
  <2>2. hs[1] \in Hop
    BY <1>1, <2>1, ElementOfSeq
  <2>3. /\ hop \in Hop /\ hop.extra = hs[1].extra /\ hop.late = hs[1].late
        /\ hop.cached = hs[1].cached
    BY <2>2 DEF Hop
  <2>4. hops' = [hops EXCEPT ![r] = [hs EXCEPT ![1] = hop]]
    BY <1>6 DEF RepeatRequest
  <2>5. Emit(r, "duplicate", FALSE) /\ "duplicate" \in Types \ Extras
    BY <1>6 DEF RepeatRequest, Types, Starts, Extras
  <2> HIDE DEF hop
  <2>6. /\ hs2 \in Seq(Hop) /\ Len(hs2) = Len(hs)
        /\ \A m \in 1 .. Len(hs) : /\ hs2[m].extra = hs[m].extra /\ hs2[m].late = hs[m].late
                                   /\ hs[m].cached => hs2[m].cached
        /\ \A s \in Requests \ {r} : hops'[s] = hops[s]
        /\ hops' \in [Requests -> Seq(Hop)]
    BY <1>5, <2>1, <2>3, <2>4
  <2> QED
    BY <1>3, <2>1, <2>5, <2>6 DEF Ends
<1>7. CASE HitCache(r)
  <2> DEFINE hop == [hs[Len(hs)] EXCEPT !.cached = TRUE]
  <2>1. Len(hs) \in 1 .. Len(hs) /\ stage[r] = "sent" /\ stage' = [stage EXCEPT ![r] = "sent"]
    BY <1>1, <1>7 DEF HitCache, TypesInv
  <2>2. hs[Len(hs)] \in Hop
    BY <1>1, <2>1, ElementOfSeq
  <2>3. /\ hop \in Hop /\ hop.extra = hs[Len(hs)].extra /\ hop.late = hs[Len(hs)].late
        /\ hop.cached
    BY <2>2 DEF Hop
  <2>4. hops' = [hops EXCEPT ![r] = [hs EXCEPT ![Len(hs)] = hop]]
    BY <1>7 DEF HitCache
  <2>5. Emit(r, "cache", FALSE) /\ "cache" \in Types \ Extras
    BY <1>7 DEF HitCache, Types, Starts, Extras
  <2> HIDE DEF hop
  <2>6. /\ hs2 \in Seq(Hop) /\ Len(hs2) = Len(hs) /\ hs2[Len(hs)] = hop
        /\ \A m \in 1 .. Len(hs) : /\ hs2[m].extra = hs[m].extra /\ hs2[m].late = hs[m].late
                                   /\ hs[m].cached => hs2[m].cached
        /\ \A s \in Requests \ {r} : hops'[s] = hops[s]
        /\ hops' \in [Requests -> Seq(Hop)]
    BY <1>5, <2>1, <2>3, <2>4
  <2> QED
    BY <1>3, <2>1, <2>3, <2>5, <2>6 DEF Ends
<1>8. CASE Respond(r)
  <2>1. /\ stage[r] = "sent" /\ stage' = [stage EXCEPT ![r] = "responded"] /\ hops' = hops
        /\ Emit(r, "response", LastHop(r).extra) /\ "response" \in Types \ Extras
    BY <1>8 DEF Respond, Types, Starts, Extras
  <2>2. LastHop(r).extra = hs[Len(hs)].extra /\ LastHop(r).extra \in BOOLEAN
    <3>1. hs[Len(hs)] \in Hop
      BY <1>1, <2>1, ElementOfSeq
    <3> QED
      BY <3>1 DEF LastHop, Hop
  <2>3. hops' \in [Requests -> Seq(Hop)]
    BY <2>1 DEF TypesInv
  <2> QED
    BY <1>1, <1>3, <2>1, <2>2, <2>3 DEF Ends
<1>9. CASE EndRequest(r)
  <2>1. /\ stage' = [stage EXCEPT ![r] = "over"] /\ hops' = hops
        /\ stage[r] \in {"sent", "responded"}
        /\ \E type \in {"finished", "failed"} : Emit(r, type, FALSE)
    BY <1>9 DEF EndRequest
  <2>2. \A type \in {"finished", "failed"} : type \in Types \ Extras
    BY DEF Types, Starts, Extras
  <2>3. hops' \in [Requests -> Seq(Hop)]
    BY <2>1 DEF TypesInv
  <2> QED
    BY <1>1, <1>3, <2>1, <2>2, <2>3 DEF Ends
<1> QED
  BY <1>4, <1>6, <1>7, <1>8, <1>9

-----------------------------------------------------------------------------
(* No body is forgotten.                                                   *)

Stable == TypesInv /\ BrowserInv /\ SettledInv

LEMMA HandleStable ==
  ASSUME TypesInv, SettledInv, NEW r \in Requests, NEW e \in Event, NEW buffered,
         Handle(r, e, buffered)
  PROVE  chain' \in [Requests -> Chain] /\ SettledInv' /\ dropped' \subseteq Requests
<1>1. PICK d : Handled(chain[r], e, d) /\ chain' = [chain EXCEPT ![r] = d]
  BY HandledIs
<1>2. chain \in [Requests -> Chain] /\ \A s \in Requests : Settled(chain[s]) /\ Ready(chain[s]) = {}
  BY DEF TypesInv, SettledInv
<1>3. d \in Chain /\ Settled(d) /\ Ready(d) = {}
  BY <1>1, <1>2, HandledSettles
<1>4. dropped' = dropped \/ dropped' = dropped \cup {r}
  BY DEF Handle, Ignore, KeepOrphan, Record
<1>5. chain'[r] = d /\ \A s \in Requests \ {r} : chain'[s] = chain[s]
  BY <1>1, <1>2
<1> QED
  BY <1>1, <1>2, <1>3, <1>4, <1>5 DEF SettledInv, TypesInv

LEMMA ListenStable ==
  ASSUME TypesInv, SettledInv, NEW r \in Requests, NEW e \in Event, Listen(r, e)
  PROVE  /\ chain' \in [Requests -> Chain] /\ SettledInv' /\ dropped' \subseteq Requests
         /\ buffer' \in Seq(Requests \X Event)
<1>1. CASE Buffering
  <2>1. buffer' = Append(buffer, <<r, e>>) /\ chain' = chain /\ dropped' = dropped
    BY <1>1 DEF Listen
  <2>2. <<r, e>> \in Requests \X Event /\ buffer \in Seq(Requests \X Event)
    BY DEF TypesInv
  <2>3. buffer' \in Seq(Requests \X Event)
    BY <2>1, <2>2, AppendProperties
  <2>4. SettledInv'
    BY <2>1 DEF SettledInv
  <2> QED
    BY <2>1, <2>3, <2>4 DEF TypesInv
<1>2. CASE ~Buffering
  BY <1>2, HandleStable DEF Listen, TypesInv
<1> QED
  BY <1>1, <1>2

LEMMA BrowserKept ==
  ASSUME BrowserInv, UNCHANGED <<hops, stage>>, Late => Late'
  PROVE  BrowserInv'
BY DEF BrowserInv

LEMMA EmitsStable ==
  ASSUME Stable, NEW r \in Requests, NEW e \in Base, Emits(r, e),
         hops' \in [Requests -> Seq(Hop)],
         stage' \in [Requests -> {"none", "sent", "responded", "over"}]
  PROVE  Stable'
<1>1. Append(wire[r], e) \in Seq(Event)
  BY AppendProperties DEF Stable, TypesInv, Base
<1>2. TypesInv'
  BY <1>1 DEF Stable, TypesInv, Emits
<1>3. SettledInv'
  BY DEF Stable, SettledInv, Emits
<1>4. ASSUME NEW s \in Requests
      PROVE  /\ stage'[s] = "none" <=> hops'[s] = <<>>
             /\ Len(hops'[s]) <= MaxHops
             /\ \A n \in DOMAIN hops'[s] : hops'[s][n].late => Late'
  <2>1. Late' = Late
    BY DEF Emits, Late
  <2>2. CASE s # r
    BY <2>1, <2>2 DEF Emits, Stable, BrowserInv
  <2>3. CASE s = r
    <3>1. hops[r] \in Seq(Hop) /\ hops'[r] \in Seq(Hop) /\ Len(hops[r]) \in Nat
          /\ DOMAIN hops'[r] = 1 .. Len(hops'[r]) /\ DOMAIN hops[r] = 1 .. Len(hops[r])
      BY LenProperties DEF Stable, TypesInv
    <3>2. Len(hops'[r]) \in 1 .. MaxHops
      BY DEF Emits, Base, Event
    <3>3. stage'[r] # "none" /\ hops'[r] # <<>>
      <4>1. stage'[r] # "none"
        BY DEF Emits
      <4>2. hops'[r] = <<>> => Len(hops'[r]) = 0
        BY <3>1, EmptySeq
      <4> QED
        BY <3>2, <4>1, <4>2
    <3>4. ASSUME NEW n \in 1 .. Len(hops'[r]), hops'[r][n].late PROVE Late
      <4>1. n \in 1 .. Len(hops[r]) \/ n > Len(hops[r])
        BY <3>1
      <4>2. n \in 1 .. Len(hops[r]) => hops[r][n].late
        BY <3>4 DEF Emits
      <4> QED
        BY <3>1, <3>4, <4>1, <4>2 DEF Emits, Stable, BrowserInv
    <3> QED
      BY <2>1, <2>3, <3>1, <3>2, <3>3, <3>4
  <2> QED
    BY <2>2, <2>3
<1> QED
  BY <1>2, <1>3, <1>4 DEF Stable, BrowserInv

LEMMA StableSteps == Stable /\ [Next]_vars => Stable'
<1> SUFFICES ASSUME Stable, [Next]_vars PROVE Stable'
  OBVIOUS
<1> USE DEF Stable
<1>1. ASSUME NEW r \in Requests,
             SendRequest(r) \/ RepeatRequest(r) \/ HitCache(r) \/ Respond(r) \/ EndRequest(r)
      PROVE  Stable'
  BY <1>1, BrowserSteps, EmitsStable
<1>2. ASSUME NEW r \in Requests, Deliver(r) PROVE Stable'
  <2>1. /\ Head(wire[r]) \in Event /\ Tail(wire[r]) \in Seq(Event)
        /\ Listen(r, Head(wire[r])) /\ wire' = [wire EXCEPT ![r] = Tail(@)]
        /\ UNCHANGED <<phase, hops, stage, arrived>>
    BY <1>2, HeadTailProperties DEF Deliver, TypesInv
  <2>2. BrowserInv'
    BY <2>1, BrowserKept DEF Late
  <2> QED
    BY <2>1, <2>2, ListenStable DEF TypesInv
<1>3. ASSUME NEW r \in Requests, NEW x \in Extras, DeliverExtra(r, x) PROVE Stable'
  <2>1. PICK n \in DOMAIN hops[r] :
          /\ Listen(r, [type |-> x, hop |-> n, extra |-> FALSE, late |-> FALSE])
          /\ arrived' = [arrived EXCEPT ![r][x] = n]
          /\ UNCHANGED <<phase, hops, stage, wire>>
    BY <1>3 DEF DeliverExtra
  <2>2. n \in 1 .. MaxHops
    <3>1. n \in 1 .. Len(hops[r]) /\ Len(hops[r]) \in Nat /\ Len(hops[r]) <= MaxHops
      BY DEF TypesInv, BrowserInv
    <3> QED
      BY <3>1, ConstantsAssumption
  <2>3. [type |-> x, hop |-> n, extra |-> FALSE, late |-> FALSE] \in Event
    BY <2>2 DEF Event, Types
  <2>4. arrived' \in [Requests -> [Extras -> 0 .. MaxHops]]
    BY <2>1, <2>2 DEF TypesInv
  <2>5. BrowserInv'
    BY <2>1, BrowserKept DEF Late
  <2> QED
    BY <2>1, <2>3, <2>4, <2>5, ListenStable DEF TypesInv
<1>4. ASSUME NEW r \in Requests, NEW i \in 1 .. MaxHops, Fetch(r, i) PROVE Stable'
  <2>1. PICK body \in {0, Len(hops[r])} : chain' = [chain EXCEPT ![r].entries[i].body = body]
    BY <1>4 DEF Fetch
  <2> DEFINE c == chain[r]
             d == Fetched(c, i, body)
  <2>2. c \in Chain /\ body \in 0 .. MaxHops /\ Settled(c) /\ Ready(c) = {}
    BY <2>1, ConstantsAssumption DEF TypesInv, BrowserInv, SettledInv
  <2>3. d \in Chain /\ (Settled(c) => Settled(d)) /\ Ready(d) = Ready(c)
    <3> HIDE DEF c
    <3> QED
      BY <2>2, FetchedParts
  <2>4. chain' = [chain EXCEPT ![r] = d]
    BY <2>1 DEF Fetched
  <2> HIDE DEF d
  <2>5. chain' \in [Requests -> Chain] /\ SettledInv'
    BY <2>2, <2>3, <2>4 DEF TypesInv, SettledInv
  <2>6. UNCHANGED <<phase, browser, buffer, dropped>>
    BY <1>4 DEF Fetch
  <2>7. BrowserInv'
    BY <2>6, BrowserKept DEF Late, browser
  <2> QED
    BY <2>5, <2>6, <2>7 DEF TypesInv, browser
<1>5. CASE Freeze
  <2>1. \A r \in Requests : /\ chain[r] \in Chain /\ Settled(chain[r]) /\ Ready(chain[r]) = {}
    BY DEF TypesInv, SettledInv
  <2>2. \A r \in Requests : /\ Reconciled(chain[r]) \in Chain /\ Settled(Reconciled(chain[r]))
                            /\ Ready(Reconciled(chain[r])) = {}
    BY <2>1, ReconciledAgain DEF Step1
  <2>3. /\ chain' = [r \in Requests |-> Reconciled(chain[r])] /\ phase' = "replaying"
        /\ UNCHANGED <<browser, buffer, dropped>>
    BY <1>5 DEF Freeze
  <2>4. BrowserInv'
    BY <2>3, BrowserKept DEF Late, browser
  <2> QED
    BY <2>2, <2>3, <2>4 DEF TypesInv, SettledInv, browser, Phases
<1>6. CASE Replay
  <2>1. /\ Head(buffer) \in Requests \X Event /\ Tail(buffer) \in Seq(Requests \X Event)
        /\ Handle(Head(buffer)[1], Head(buffer)[2], TRUE)
        /\ buffer' = Tail(buffer) /\ UNCHANGED <<phase, browser>>
    BY <1>6, HeadTailProperties DEF Replay, TypesInv
  <2>2. BrowserInv'
    BY <2>1, BrowserKept DEF Late, browser
  <2>3. Head(buffer)[1] \in Requests /\ Head(buffer)[2] \in Event
    BY <2>1
  <2> QED
    BY <2>1, <2>2, <2>3, HandleStable DEF TypesInv, browser
<1>7. ASSUME UNCHANGED <<browser, buffer, chain, dropped>>, phase' \in Phases, Late => Late'
      PROVE  Stable'
  BY <1>7, BrowserKept DEF TypesInv, SettledInv, browser
<1>8. CASE BeginFreeze \/ ReadClock \/ Drain \/ StopListening \/ Archive \/ Fail \/ Stop \/ UNCHANGED vars
  BY <1>7, <1>8 DEF BeginFreeze, ReadClock, Drain, StopListening, Archive, Fail, Stop, vars,
                    Late, Phases, TypesInv, browser
<1> QED
  BY <1>1, <1>2, <1>3, <1>4, <1>5, <1>6, <1>8 DEF Next

LEMMA StableInit == Init => Stable
<1> SUFFICES ASSUME Init PROVE Stable
  OBVIOUS
<1> DEFINE c0 == [entries |-> <<>>, pending |-> None, orphans |-> None, afterCutoff |-> FALSE]
<1>1. None \in [Extras -> Seq(1 .. MaxHops)] /\ \A x \in Extras : None[x] = <<>>
  BY DEF None
<1>2. c0 \in Chain /\ Last(c0) = 0
  BY <1>1 DEF Chain, Last
<1>3. Settled(c0) /\ Ready(c0) = {}
  BY <1>1 DEF Settled, Ready
<1>4. chain = [r \in Requests |-> c0]
  BY DEF Init
<1> HIDE DEF c0
<1>5. TypesInv
  <2>1. \A S : <<>> \in Seq(S)
    OBVIOUS
  <2>2. 0 \in 0 .. MaxHops
    BY ConstantsAssumption
  <2>3. arrived \in [Requests -> [Extras -> 0 .. MaxHops]]
    BY <2>2 DEF Init
  <2>4. chain \in [Requests -> Chain]
    BY <1>2, <1>4
  <2> QED
    BY <2>1, <2>3, <2>4 DEF Init, TypesInv, Phases
<1>6. SettledInv
  BY <1>3, <1>4 DEF SettledInv
<1>7. BrowserInv
  BY ConstantsAssumption DEF Init, BrowserInv
<1> QED
  BY <1>5, <1>6, <1>7 DEF Stable

LEMMA StableAlways == Spec => []Stable
BY StableInit, StableSteps, PTL DEF Spec

(***************************************************************************)
(* No body is forgotten: whatever the order in which the response, the end *)
(* and the supplemental events of a hop are handled, once the last one     *)
(* missing is, the fetch of the entry's body has been scheduled            *)
(* (readyBodyFetchTasks, called after each of them).                       *)
(***************************************************************************)
THEOREM NothingIsForgotten == Spec => []NoBodyForgotten
<1>1. Stable => NoBodyForgotten
  BY DEF Stable, SettledInv, NoBodyForgotten
<1> QED
  BY <1>1, StableAlways, PTL

-----------------------------------------------------------------------------
(* Entries remain those of the hops of their request.                      *)

LEMMA BeforeFaithful ==
  ASSUME NEW c \in Chain, NEW d \in Chain, AsBefore(d, c), NEW hs, NEW st, Faithful(c, hs, st)
  PROVE  Faithful(d, hs, st)
<1>1. Last(d) = Last(c) /\ \A i \in 1 .. Last(c) : SameFields(d.entries[i], c.entries[i])
  BY DEF AsBefore
<1>2. \A i \in 1 .. Last(c) : Sound(c.entries[i], i, hs, st) => Sound(d.entries[i], i, hs, st)
  BY <1>1 DEF SameFields, Sound
<1> QED
  BY <1>1, <1>2 DEF Faithful, SameFields

LEMMA SetFaithful ==
  ASSUME NEW c \in Chain, c.entries # <<>>, NEW entry \in Entry, NEW hs, NEW st,
         Faithful(c, hs, st), Sound(entry, Last(c), hs, st)
  PROVE  Faithful(Set(c, entry), hs, st)
<1>1. /\ Last(Set(c, entry)) = Last(c) /\ Cur(Set(c, entry)) = entry
      /\ \A i \in 1 .. Last(c) : i # Last(c) => Set(c, entry).entries[i] = c.entries[i]
  BY SetParts
<1>2. Set(c, entry).entries[Last(c)] = entry /\ Last(c) \in Nat
  BY <1>1, ChainParts DEF Cur
<1> QED
  BY <1>1, <1>2 DEF Faithful

LEMMA NewHopFaithful ==
  ASSUME NEW c \in Chain, NEW e, e.hop \in Positions, e.hop = Last(c) + 1,
         NEW hs, NEW st, Faithful(c, hs, st), Last(c) + 1 <= Len(hs), ~hs[e.hop].late,
         c.entries # <<>> => Cur(c).known
  PROVE  /\ Faithful(NewHop(c, e), hs, st) /\ NewHop(c, e) \in Chain
         /\ Last(NewHop(c, e)) = Last(c) + 1 /\ Cur(NewHop(c, e)).end = "none"
         /\ NewHop(c, e).afterCutoff = FALSE
<1> DEFINE d == NewHop(c, e)
<1>1. /\ d \in Chain /\ Last(d) = Last(c) + 1
      /\ \A i \in 1 .. Last(c) : d.entries[i] = c.entries[i]
      /\ d.entries[Last(c) + 1] = NewEntry(e.hop) /\ d.afterCutoff = FALSE
  BY NewHopParts
<1>2. Last(c) \in Nat /\ (Last(c) # 0 => c.entries # <<>>)
  BY ChainParts
<1>3. /\ Sound(NewEntry(e.hop), e.hop, hs, st) /\ NewEntry(e.hop).end = "none"
  BY DEF Sound, NewEntry
<1> HIDE DEF d
<1>4. ASSUME NEW i \in 1 .. Last(d)
      PROVE  Sound(d.entries[i], i, hs, st) /\ (i < Last(d) => d.entries[i].known)
  <2>1. CASE i = Last(c) + 1
    BY <1>1, <1>2, <1>3, <2>1
  <2>2. CASE i # Last(c) + 1
    <3>1. i \in 1 .. Last(c) /\ Last(c) # 0
      BY <1>1, <1>2, <2>2
    <3>2. Sound(c.entries[i], i, hs, st)
      BY <3>1 DEF Faithful
    <3>3. c.entries[i].known
      <4>1. i = Last(c) => Cur(c).known
        BY <1>2, <3>1
      <4>2. i # Last(c) => i < Last(c)
        BY <1>2, <3>1
      <4> QED
        BY <3>1, <4>1, <4>2 DEF Faithful, Cur
    <3> QED
      BY <1>1, <3>1, <3>2, <3>3
  <2> QED
    BY <2>1, <2>2
<1> QED
  BY <1>1, <1>3, <1>4 DEF Faithful, Cur, d

LEMMA ScheduledFaithful ==
  ASSUME NEW c \in Chain, NEW hs, NEW st, Faithful(c, hs, st)
  PROVE  Faithful(Scheduled(c), hs, st)
<1>1. Last(Scheduled(c)) = Last(c)
  BY ScheduledParts
<1>2. \A i \in 1 .. Last(c) :
        Sound(c.entries[i], i, hs, st) =>
          /\ Sound(Scheduled(c).entries[i], i, hs, st)
          /\ Scheduled(c).entries[i].known = c.entries[i].known
  BY ScheduledFields DEF Sound
<1> QED
  BY <1>1, <1>2 DEF Faithful

LEMMA FetchedFaithful ==
  ASSUME NEW c \in Chain, NEW hs, NEW st, Faithful(c, hs, st), NEW i, NEW body \in 0 .. MaxHops,
         body \in {0, i}
  PROVE  Faithful(Fetched(c, i, body), hs, st)
<1> DEFINE d == Fetched(c, i, body)
<1>1. /\ Last(d) = Last(c)
      /\ \A j \in 1 .. Last(c) :
           d.entries[j] = IF j = i THEN [c.entries[j] EXCEPT !.body = body] ELSE c.entries[j]
  BY FetchedParts
<1> HIDE DEF d
<1>2. ASSUME NEW j \in 1 .. Last(c)
      PROVE  Sound(d.entries[j], j, hs, st) /\ d.entries[j].known = c.entries[j].known
  <2>1. Sound(c.entries[j], j, hs, st) /\ c.entries[j] \in Entry
    BY ChainParts DEF Faithful
  <2>2. CASE j # i
    BY <1>1, <2>1, <2>2
  <2>3. CASE j = i
    <3>1. d.entries[j] = [c.entries[j] EXCEPT !.body = body]
      BY <1>1, <2>3
    <3> QED
      BY <2>1, <2>3, <3>1 DEF Sound, Entry
  <2> QED
    BY <2>2, <2>3
<1> QED
  BY <1>1, <1>2 DEF Faithful, d

-----------------------------------------------------------------------------
(* The next event of a request is handled.                                 *)

\* The event e, the first of F, is taken off, and leaves G.
Pops(F, O, G, e) == e \in F /\ G \subseteq F /\ F \subseteq G \cup {e} /\ \A f \in G : <<e, f>> \in O
\* It is recorded.
Takes(c, e) == IF e.type = "cache" THEN ~c.afterCutoff ELSE ~e.late

\* A base event that is recorded is one of the current entry, or the request
\* of the next.
LEMMA TakenFollows ==
  ASSUME NEW c \in Chain, NEW hs \in Seq(Hop), NEW st, NEW late, NEW F \in SUBSET Base, NEW O,
         NEW G, NEW e, Flow(F, O, c, hs, st, late), Pops(F, O, G, e), Takes(c, e)
  PROVE  /\ Complete(F, c, hs)
         /\ e.type = "request" => e.hop = Last(c) + 1
         /\ e.type # "request" => c.entries # <<>> /\ e.hop = Last(c)
         /\ c.entries # <<>> => Cur(c).end # "failed"
         /\ e.hop \in Positions /\ e.hop <= Len(hs)
<1>1. e \in F /\ e \in Base /\ e.hop \in 1 .. MaxHops /\ Last(c) \in Nat /\ Len(hs) \in Nat
  BY ChainParts, LenProperties DEF Pops, Base, Event
<1>2. Complete(F, c, hs)
  BY <1>1 DEF Flow, Takes
<1>3. /\ e.hop <= Len(hs) /\ e.hop >= Last(c) /\ (e.type = "request" => e.hop > Last(c))
  BY <1>1 DEF Flow, Genuine
<1>4. ASSUME e.hop > Last(c), ~(e.type = "request" /\ e.hop = Last(c) + 1) PROVE FALSE
  <2>1. Last(c) + 1 \in (Last(c) + 1) .. Len(hs)
    BY <1>1, <1>3, <1>4
  <2>2. PICK g \in F : g.type = "request" /\ g.hop = Last(c) + 1
    BY <1>2, <2>1 DEF Complete
  <2>3. g \in G
    BY <1>4, <2>2 DEF Pops
  <2>4. InOrder(e, g)
    BY <1>1, <2>3 DEF Pops, Flow
  <2> QED
    BY <1>1, <1>4, <2>2, <2>4 DEF InOrder
<1>5. c.entries # <<>> => Cur(c).end # "failed"
  BY <1>1 DEF Flow, Cur
<1>6. ASSUME e.type # "request" PROVE c.entries # <<>> /\ e.hop = Last(c)
  <2>1. e.hop = Last(c) /\ Last(c) # 0
    BY <1>1, <1>3, <1>4, <1>6
  <2> QED
    BY <2>1, ChainParts
<1>7. ASSUME e.type = "request" PROVE e.hop = Last(c) + 1
  BY <1>1, <1>3, <1>4, <1>7
<1> QED
  BY <1>1, <1>2, <1>3, <1>5, <1>6, <1>7 DEF Positions

\* What is left then follows the chain d.
LEMMA TakenFlows ==
  ASSUME NEW c \in Chain, NEW hs \in Seq(Hop), NEW st, NEW late, NEW F \in SUBSET Base, NEW O,
         NEW G, NEW P, NEW e, Flow(F, O, c, hs, st, late), Pops(F, O, G, e), Takes(c, e),
         P \subseteq O, NEW d \in Chain,
         Last(d) = IF e.type = "request" THEN Last(c) + 1 ELSE Last(c),
         d.entries # <<>> /\ d.entries[Last(d)].end = "failed" => e.type = "failed"
  PROVE  Flow(G, P, d, hs, st, late)
<1>1. /\ Complete(F, c, hs) /\ (e.type = "request" => e.hop = Last(c) + 1)
      /\ Last(c) \in Nat /\ Last(d) \in Nat /\ Len(hs) \in Nat
  BY TakenFollows, ChainParts, LenProperties
<1>2. \A f \in G : f \in F /\ f \in Base /\ f.hop \in Nat /\ InOrder(e, f)
  <2>1. \A f \in G : f \in F /\ f \in Base /\ InOrder(e, f)
    BY DEF Pops, Flow
  <2> QED
    BY <2>1 DEF Base, Event
<1>3. \A f \in G : f.hop >= Last(d) /\ (f.type = "request" => f.hop > Last(d))
  <2>1. CASE e.type = "request"
    BY <1>1, <1>2, <2>1 DEF InOrder
  <2>2. CASE e.type # "request"
    BY <1>2, <2>2 DEF Flow
  <2> QED
    BY <2>1, <2>2
<1>4. Complete(G, d, hs)
  <2> SUFFICES ASSUME NEW n \in (Last(d) + 1) .. Len(hs)
               PROVE  \E f \in G : f.type = "request" /\ f.hop = n
    BY DEF Complete
  <2>1. n \in (Last(c) + 1) .. Len(hs)
    BY <1>1
  <2>2. PICK f \in F : f.type = "request" /\ f.hop = n
    BY <1>1, <2>1 DEF Complete
  <2>3. f # e
    BY <1>1, <2>2
  <2> QED
    BY <2>2, <2>3 DEF Pops
<1>5. e.type = "failed" => G = {}
  BY <1>2 DEF InOrder, Ends
<1>6. \A f \in G : Genuine(hs, st, f) /\ (f.late => late)
  BY <1>2 DEF Flow
<1>7. \A f, g \in G : <<f, g>> \in P => InOrder(f, g)
  BY <1>2 DEF Flow
<1> QED
  BY <1>3, <1>4, <1>5, <1>6, <1>7 DEF Flow

\* A base event that is ignored.
LEMMA IgnoredFlows ==
  ASSUME NEW c \in Chain, NEW hs \in Seq(Hop), NEW st, NEW late, NEW F \in SUBSET Base, NEW O,
         NEW G, NEW P, NEW e, Flow(F, O, c, hs, st, late), Pops(F, O, G, e),
         P \subseteq O, e.type = "cache" \/ e.late,
         NEW d \in Chain, d.entries = c.entries,
         d.afterCutoff <=> c.afterCutoff \/ e.type \in Starts
  PROVE  Flow(G, P, d, hs, st, late)
<1>1. Last(d) = Last(c) /\ e \in F
  BY DEF Last, Pops
<1>2. \A f \in G : f \in F /\ InOrder(e, f)
  BY DEF Pops, Flow
<1>3. Complete(G, d, hs) \/ (d.afterCutoff /\ \A f \in G : f.late)
  <2>1. CASE e.type = "request"
    BY <1>2, <2>1 DEF InOrder, Starts
  <2>2. CASE e.type # "request" /\ Complete(F, c, hs)
    BY <1>1, <2>2 DEF Complete, Pops
  <2>3. CASE c.afterCutoff /\ \A f \in F : f.late
    BY <1>2, <2>3
  <2> QED
    BY <2>1, <2>2, <2>3 DEF Flow
<1>4. F = {} => G = {}
  BY DEF Pops
<1>5. \A f \in G : Genuine(hs, st, f) /\ (f.late => late)
  BY <1>2 DEF Flow
<1>6. \A f, g \in G : <<f, g>> \in P => InOrder(f, g)
  BY <1>2 DEF Flow
<1>7. \A f \in G : f.hop >= Last(d) /\ (f.type = "request" => f.hop > Last(d))
  BY <1>1, <1>2 DEF Flow
<1>8. d.entries # <<>> /\ d.entries[Last(d)].end = "failed" => G = {}
  BY <1>1, <1>4 DEF Flow
<1> QED
  BY <1>3, <1>5, <1>6, <1>7, <1>8 DEF Flow

\* A step that handles no base event.
LEMMA StillFlows ==
  ASSUME NEW c, NEW d, NEW hs, NEW st, NEW late, NEW late2, NEW F, NEW O, NEW P,
         Flow(F, O, c, hs, st, late), P \subseteq O, late => late2,
         Last(d) = Last(c), d.afterCutoff = c.afterCutoff,
         d.entries # <<>> /\ d.entries[Last(d)].end = "failed" =>
           c.entries # <<>> /\ c.entries[Last(c)].end = "failed"
  PROVE  Flow(F, P, d, hs, st, late2)
<1>1. Complete(F, c, hs) => Complete(F, d, hs)
  BY DEF Complete
<1> QED
  BY <1>1 DEF Flow

LEMMA AdoptedParts ==
  ASSUME NEW c \in Chain
  PROVE  /\ Adopted(c) \in Chain /\ Adopted(c).entries = c.entries
         /\ Adopted(c).orphans = None /\ Adopted(c).afterCutoff = c.afterCutoff
         /\ \A x \in Extras : Adopted(c).pending[x] = Queued(c, x)
<1> DEFINE d == Adopted(c)
           ps == [x \in Extras |-> c.pending[x] \o c.orphans[x]]
<1>1. ps \in [Extras -> Seq(1 .. MaxHops)] /\ \A x \in Extras : ps[x] = Queued(c, x)
  BY ChainParts DEF Queued, Positions
<1>2. None \in [Extras -> Seq(1 .. MaxHops)]
  BY DEF None
<1>3. d = [c EXCEPT !.pending = ps, !.orphans = None]
  BY DEF Adopted
<1> HIDE DEF ps, d
<1>4. /\ d \in Chain /\ d.entries = c.entries /\ d.pending = ps /\ d.orphans = None
      /\ d.afterCutoff = c.afterCutoff
  BY <1>1, <1>2, <1>3 DEF Chain
<1> QED
  BY <1>1, <1>4 DEF d

\* The current entry is changed, then perhaps reconciled.
LEMMA ChangeFaithful ==
  ASSUME NEW c \in Chain, Settled(c), c.entries # <<>>, NEW hs, NEW st, Faithful(c, hs, st),
         NEW entry \in Entry, entry.extra = Cur(c).extra, Sound(entry, Last(c), hs, st),
         NEW d \in {Set(c, entry), Reconciled(Set(c, entry))}
  PROVE  /\ Faithful(d, hs, st) /\ Last(d) = Last(c) /\ d \in Chain /\ d.entries # <<>>
         /\ d.afterCutoff = c.afterCutoff
         /\ Cur(d).end = entry.end /\ Cur(d).known = entry.known
<1> DEFINE c1 == Set(c, entry)
<1>1. /\ c1 \in Chain /\ Last(c1) = Last(c) /\ c1.entries # <<>> /\ Cur(c1) = entry
      /\ c1.afterCutoff = c.afterCutoff /\ Last(c) \in 1 .. Last(c)
  BY SetParts
<1>2. Faithful(c1, hs, st)
  BY SetFaithful
<1>3. Step1(c1, Reconciled(c1))
  BY SetTouches, TouchedSettles
<1> HIDE DEF c1
<1>4. AsBefore(Reconciled(c1), c1) /\ Reconciled(c1) \in Chain
  BY <1>3 DEF Step1
<1>5. Faithful(Reconciled(c1), hs, st)
  BY <1>1, <1>2, <1>4, BeforeFaithful
<1>6. /\ Last(Reconciled(c1)) = Last(c1) /\ Reconciled(c1).afterCutoff = c1.afterCutoff
      /\ SameFields(Cur(Reconciled(c1)), Cur(c1))
  BY <1>1, <1>4 DEF AsBefore, Cur
<1>7. Reconciled(c1).entries # <<>>
  BY <1>1, <1>4, <1>6, ChainParts
<1>8. CASE d = c1
  BY <1>1, <1>2, <1>8
<1>9. CASE d = Reconciled(c1)
  BY <1>1, <1>4, <1>5, <1>6, <1>7, <1>9 DEF SameFields
<1> QED
  BY <1>8, <1>9 DEF c1

LEMMA RecordedFaithful ==
  ASSUME NEW c \in Chain, Settled(c), NEW hs, NEW st, Faithful(c, hs, st),
         NEW e \in Base, Genuine(hs, st, e), Takes(c, e),
         e.type = "request" => e.hop = Last(c) + 1,
         e.type # "request" => c.entries # <<>> /\ e.hop = Last(c),
         c.entries # <<>> => Cur(c).end # "failed"
  PROVE  LET d == Recorded(c, e) IN
         /\ Faithful(d, hs, st)
         /\ Last(d) = IF e.type = "request" THEN Last(c) + 1 ELSE Last(c)
         /\ Cur(d).end = "failed" => e.type = "failed"
         /\ d.afterCutoff => c.afterCutoff
<1>1. /\ e \in Event /\ e.hop \in Positions /\ e.type \in Types /\ e.extra \in BOOLEAN
      /\ e.type \notin Extras /\ Last(c) \in Nat
  BY ChainParts DEF Base, Event, Positions
<1>2. ASSUME c.entries # <<>>
      PROVE  Cur(c) \in Entry /\ Sound(Cur(c), Last(c), hs, st)
  BY <1>2, CurIn DEF Faithful, Cur
<1>3. CASE e.type = "request"
  <2>1. ~hs[e.hop].late /\ e.hop <= Len(hs)
    BY <1>3 DEF Genuine, Takes
  <2>2. CASE c.entries = <<>>
    <3> DEFINE d == Adopted(c)
    <3>1. d \in Chain /\ d.entries = <<>> /\ Last(d) = Last(c) /\ Last(d) = 0
      BY <2>2, AdoptedParts, ChainParts DEF Last
    <3>2. Recorded(c, e) = NewHop(d, e)
      BY <1>1, <1>3, <2>2, RecordedIs DEF RequestWillBeSent, Starts
    <3> HIDE DEF d
    <3>3. Faithful(d, hs, st)
      BY <2>2, <3>1 DEF Faithful
    <3> QED
      BY <1>1, <1>3, <2>1, <3>1, <3>2, <3>3, NewHopFaithful
  <2>3. CASE c.entries # <<>>
    <3> DEFINE entry == Told(RedirectedEntry(Cur(c), e), e.extra)
               d == Reconciled(Set(c, entry))
    <3>1. Last(c) \in 1 .. Last(c) /\ e.hop > 1 /\ e.hop - 1 = Last(c)
      BY <1>1, <1>3, <2>3, CurIn
    <3>2. entry \in Entry /\ entry.extra = Cur(c).extra
      <4>1. RedirectedEntry(Cur(c), e) \in Entry /\ RedirectedEntry(Cur(c), e).extra = Cur(c).extra
        BY <1>1, <1>2, <2>3, EntryChanges DEF Ends
      <4> QED
        BY <1>1, <4>1 DEF Told, Entry
    <3>3. /\ entry.hop = Cur(c).hop /\ entry.response = Last(c) /\ entry.cached = Cur(c).cached
          /\ entry.body = Cur(c).body /\ entry.known /\ entry.expected = e.extra
          /\ entry.end = "finished" /\ entry.scheduled
      BY <1>2, <2>3, <3>1 DEF Told, RedirectedEntry, Entry
    <3>4. e.extra = hs[Last(c)].extra
      BY <1>3, <3>1 DEF Genuine
    <3> HIDE DEF entry
    <3>5. Sound(entry, Last(c), hs, st)
      BY <1>2, <2>3, <3>3, <3>4 DEF Sound
    <3>6. /\ Faithful(d, hs, st) /\ Last(d) = Last(c) /\ d \in Chain /\ Cur(d).known
      BY <2>3, <3>2, <3>3, <3>5, ChangeFaithful
    <3>7. Recorded(c, e) = NewHop(d, e)
      BY <1>1, <1>3, <2>3, RecordedIs, RedirectedIs DEF RequestWillBeSent, entry, Starts
    <3> HIDE DEF d
    <3>8. e.hop = Last(d) + 1 /\ Last(d) + 1 <= Len(hs)
      BY <1>3, <2>1, <3>6
    <3>9. /\ Faithful(NewHop(d, e), hs, st) /\ Last(NewHop(d, e)) = Last(d) + 1
          /\ Cur(NewHop(d, e)).end = "none" /\ NewHop(d, e).afterCutoff = FALSE
      BY <1>1, <2>1, <3>6, <3>8, NewHopFaithful
    <3> QED
      BY <1>3, <3>6, <3>7, <3>9
  <2> QED
    BY <2>2, <2>3
<1>4. CASE e.type # "request"
  <2>1. c.entries # <<>> /\ e.hop = Last(c) /\ Cur(c) \in Entry /\ Sound(Cur(c), Last(c), hs, st)
        /\ Cur(c).end # "failed"
    BY <1>2, <1>4
  <2>2. CASE e.type = "duplicate"
    <3> DEFINE d == [c EXCEPT !.afterCutoff = FALSE]
    <3>1. Recorded(c, e) = d
      BY <1>1, <2>1, <2>2, RecordedIs DEF RequestWillBeSent, Starts
    <3>2. d.entries = c.entries /\ d.afterCutoff = FALSE
      BY DEF Chain
    <3> HIDE DEF d
    <3> QED
      BY <1>4, <2>1, <3>1, <3>2 DEF Faithful, Last, Cur
  <2>3. CASE e.type = "cache"
    <3> DEFINE entry == CachedEntry(Cur(c))
    <3>1. /\ entry \in Entry /\ entry.extra = Cur(c).extra /\ entry.hop = Cur(c).hop
          /\ entry.response = Cur(c).response /\ entry.body = Cur(c).body
          /\ entry.known = Cur(c).known /\ entry.expected = Cur(c).expected
          /\ entry.end = Cur(c).end /\ entry.scheduled = Cur(c).scheduled
      BY <2>1 DEF CachedEntry, Entry
    <3>2. hs[Last(c)].cached
      BY <2>1, <2>3 DEF Genuine
    <3> HIDE DEF entry
    <3>3. Sound(entry, Last(c), hs, st)
      BY <2>1, <3>1, <3>2 DEF Sound
    <3>4. Recorded(c, e) = Set(c, entry)
      BY <1>1, <2>1, <2>3, RecordedIs DEF entry
    <3> QED
      BY <1>4, <2>1, <3>1, <3>3, <3>4, ChangeFaithful
  <2>4. CASE e.type = "response"
    <3> DEFINE entry == Told(Responded(Cur(c), e), e.extra)
    <3>1. Responded(Cur(c), e) \in Entry /\ Responded(Cur(c), e).extra = Cur(c).extra
      BY <1>1, <2>1, EntryChanges DEF Ends
    <3>2. entry \in Entry /\ entry.extra = Cur(c).extra
      BY <1>1, <3>1 DEF Told, Entry
    <3>3. /\ entry.hop = Cur(c).hop /\ entry.response = Last(c) /\ entry.body = Cur(c).body
          /\ entry.known /\ entry.expected = e.extra /\ entry.cached = Cur(c).cached
          /\ entry.end = Cur(c).end /\ entry.scheduled = Cur(c).scheduled
      BY <2>1 DEF Told, Responded, Entry
    <3>4. e.extra = hs[Last(c)].extra
      BY <2>1, <2>4 DEF Genuine
    <3> HIDE DEF entry
    <3>5. Sound(entry, Last(c), hs, st)
      BY <2>1, <3>3, <3>4 DEF Sound
    <3>6. Recorded(c, e) = Reconciled(Set(c, entry))
      BY <1>1, <2>1, <2>4, RecordedIs DEF entry
    <3> QED
      BY <1>4, <2>1, <3>2, <3>3, <3>5, <3>6, ChangeFaithful
  <2>5. CASE e.type \in Ends
    <3> DEFINE entry == Ended(Cur(c), e.type)
    <3>1. st = "over" /\ Last(c) = Len(hs)
      BY <2>1, <2>5 DEF Genuine
    <3>2. /\ entry \in Entry /\ entry.extra = Cur(c).extra /\ entry.hop = Cur(c).hop
          /\ entry.response = Cur(c).response /\ entry.body = Cur(c).body
          /\ entry.known = Cur(c).known /\ entry.expected = Cur(c).expected
          /\ entry.cached = Cur(c).cached /\ entry.end = e.type
      BY <2>1, <2>5 DEF Ended, Entry, Ends
    <3>3. /\ Told(entry, TRUE) \in Entry /\ Told(entry, TRUE).extra = entry.extra
          /\ Told(entry, TRUE).hop = entry.hop /\ Told(entry, TRUE).response = entry.response
          /\ Told(entry, TRUE).body = entry.body /\ Told(entry, TRUE).cached = entry.cached
          /\ Told(entry, TRUE).end = entry.end
      BY <3>2 DEF Told, Entry
    <3> HIDE DEF entry
    <3>4. Sound(entry, Last(c), hs, st)
      BY <2>1, <3>1, <3>2 DEF Sound
    <3>5. e.type = "failed" => Sound(Told(entry, TRUE), Last(c), hs, st)
      BY <2>1, <3>1, <3>2, <3>3 DEF Sound
    <3>6. \/ Recorded(c, e) = Set(c, entry)
          \/ e.type = "failed" /\ Recorded(c, e) = Reconciled(Set(c, Told(entry, TRUE)))
      BY <1>1, <2>1, <2>5, RecordedIs, LoadingFailedIs DEF entry, Ends
    <3>7. CASE Recorded(c, e) = Set(c, entry)
      BY <1>4, <2>1, <3>2, <3>4, <3>7, ChangeFaithful
    <3>8. CASE e.type = "failed" /\ Recorded(c, e) = Reconciled(Set(c, Told(entry, TRUE)))
      <4> DEFINE told == Told(entry, TRUE)
      <4>1. told \in Entry /\ told.extra = Cur(c).extra /\ Sound(told, Last(c), hs, st)
        BY <3>2, <3>3, <3>5, <3>8
      <4> HIDE DEF told
      <4>2. /\ Faithful(Reconciled(Set(c, told)), hs, st)
            /\ Last(Reconciled(Set(c, told))) = Last(c)
            /\ Reconciled(Set(c, told)).afterCutoff = c.afterCutoff
        BY <2>1, <4>1, ChangeFaithful
      <4> QED
        BY <1>4, <3>8, <4>2 DEF told
    <3> QED
      BY <3>6, <3>7, <3>8
  <2> QED
    BY <1>1, <1>4, <2>2, <2>3, <2>4, <2>5 DEF Types, Starts, Ends
<1> QED
  BY <1>3, <1>4

\* A supplemental event.
LEMMA ExtraFaithful ==
  ASSUME NEW c \in Chain, Settled(c), NEW hs, NEW st, Faithful(c, hs, st),
         NEW e \in Event, e.type \in Extras
  PROVE  LET d == Recorded(c, e) IN
         /\ Faithful(d, hs, st) /\ Last(d) = Last(c) /\ d.afterCutoff = c.afterCutoff
         /\ d.entries # <<>> => c.entries # <<>> /\ Cur(d).end = Cur(c).end
<1> DEFINE c1 == WithExtra(c, e)
<1>1. e.hop \in Positions
  BY DEF Event, Positions
<1>2. Recorded(c, e) = Reconciled(c1) /\ Touched(c, c1)
  BY <1>1, RecordedIs, ExtraInfoIs
<1>3. Step1(c1, Reconciled(c1))
  BY <1>2, TouchedSettles
<1>4. \A i \in 1 .. Last(c) : \/ c1.entries[i] = c.entries[i]
                              \/ /\ i = Last(c) /\ c.entries[i] \in Entry
                                 /\ c.entries[i].end = "failed"
                                 /\ c1.entries[i] = Told(c.entries[i], TRUE)
  <2>1. /\ WithPending(c, e) \in Chain /\ WithPending(c, e).entries = c.entries
        /\ Last(WithPending(c, e)) = Last(c)
    BY <1>1, PendingParts
  <2>2. CASE ~FailedUnknown(c)
    BY <2>1, <2>2 DEF WithExtra
  <2>3. CASE FailedUnknown(c)
    <3> DEFINE entry == Told(Cur(c), TRUE)
               w == WithPending(c, e)
    <3>1. c.entries # <<>> /\ Cur(c) \in Entry /\ Cur(c).end = "failed"
      BY <2>3, CurIn DEF FailedUnknown, Cur
    <3>2. entry \in Entry
      BY <3>1 DEF Told, Entry
    <3>3. c1 = Set(w, entry)
      BY <2>3 DEF WithExtra
    <3> HIDE DEF entry, w, c1
    <3>4. w \in Chain /\ w.entries = c.entries /\ Last(w) = Last(c)
      BY <2>1 DEF w
    <3>5. /\ Last(c1) = Last(c) /\ Cur(c1) = entry
          /\ \A i \in 1 .. Last(c) : i # Last(c) => c1.entries[i] = c.entries[i]
      <4>1. w.entries # <<>>
        BY <3>1, <3>4
      <4>2. /\ Last(c1) = Last(w) /\ Cur(c1) = entry
            /\ \A i \in 1 .. Last(w) : i # Last(w) => c1.entries[i] = w.entries[i]
        BY <3>2, <3>3, <3>4, <4>1, SetParts
      <4> QED
        BY <3>4, <4>2
    <3> QED
      BY <3>1, <3>5 DEF Cur, entry
  <2> QED
    BY <2>2, <2>3
<1> HIDE DEF c1
<1>5. c1 \in Chain /\ Last(c1) = Last(c) /\ c1.afterCutoff = c.afterCutoff
  BY <1>2 DEF Touched
<1>6. \A i \in 1 .. Last(c) :
        /\ Sound(c.entries[i], i, hs, st) => Sound(c1.entries[i], i, hs, st)
        /\ c1.entries[i].end = c.entries[i].end
        /\ i < Last(c) => c1.entries[i] = c.entries[i]
  <2> SUFFICES ASSUME NEW i \in 1 .. Last(c)
               PROVE  /\ Sound(c.entries[i], i, hs, st) => Sound(c1.entries[i], i, hs, st)
                      /\ c1.entries[i].end = c.entries[i].end
                      /\ i < Last(c) => c1.entries[i] = c.entries[i]
    OBVIOUS
  <2>1. CASE c1.entries[i] = c.entries[i]
    BY <2>1
  <2>2. CASE c1.entries[i] # c.entries[i]
    <3>1. /\ i = Last(c) /\ c.entries[i] \in Entry /\ c.entries[i].end = "failed"
          /\ c1.entries[i] = Told(c.entries[i], TRUE)
      BY <1>4, <2>2
    <3> DEFINE old == c.entries[i]
               new == Told(old, TRUE)
    <3>2. /\ new.hop = old.hop /\ new.response = old.response /\ new.body = old.body
          /\ new.cached = old.cached /\ new.end = old.end /\ new.end = "failed"
      BY <3>1 DEF Told, Entry
    <3> HIDE DEF new
    <3>3. Sound(old, i, hs, st) => Sound(new, i, hs, st)
      BY <3>2 DEF Sound
    <3>4. ~(i < Last(c))
      BY <3>1, ChainParts
    <3> QED
      BY <3>1, <3>2, <3>3, <3>4 DEF new
  <2> QED
    BY <2>1, <2>2
<1>7. Faithful(c1, hs, st)
  BY <1>5, <1>6 DEF Faithful
<1> DEFINE d == Reconciled(c1)
<1>8. d \in Chain /\ AsBefore(d, c1)
  BY <1>3 DEF Step1
<1>9. Faithful(d, hs, st)
  BY <1>5, <1>7, <1>8, BeforeFaithful
<1> HIDE DEF d
<1>10. Last(d) = Last(c) /\ d.afterCutoff = c.afterCutoff
  BY <1>5, <1>8 DEF AsBefore
<1>11. d.entries # <<>> => Last(c) \in 1 .. Last(c) /\ c.entries # <<>>
  BY <1>8, <1>10, ChainParts
<1>12. d.entries # <<>> => Cur(d).end = Cur(c).end
  BY <1>5, <1>6, <1>8, <1>10, <1>11 DEF Cur, AsBefore, SameFields
<1> QED
  BY <1>2, <1>9, <1>10, <1>11, <1>12 DEF d

-----------------------------------------------------------------------------
(* What is on its way, once an event is emitted, buffered or handled.      *)

LEMMA Appended ==
  ASSUME NEW S, NEW s \in Seq(S), NEW a \in S
  PROVE  /\ DOMAIN s = 1 .. Len(s) /\ DOMAIN Append(s, a) = 1 .. Len(s) + 1 /\ Len(s) \in Nat
         /\ Append(s, a)[Len(s) + 1] = a
         /\ \A p \in DOMAIN s : /\ p \in DOMAIN Append(s, a) /\ Append(s, a)[p] = s[p]
                                /\ p < Len(s) + 1 /\ p \in Nat
         /\ \A p \in DOMAIN Append(s, a) : p \in DOMAIN s \/ p = Len(s) + 1
BY AppendProperties, LenProperties

LEMMA Tailed ==
  ASSUME NEW S, NEW s \in Seq(S), s # <<>>
  PROVE  /\ Tail(s) \in Seq(S) /\ 1 \in DOMAIN s /\ s[1] = Head(s) /\ Head(s) \in S
         /\ \A p \in DOMAIN Tail(s) : /\ p \in Nat /\ p > 0 /\ p + 1 \in DOMAIN s
                                      /\ Tail(s)[p] = s[p + 1]
         /\ \A p \in DOMAIN s : p \in Nat /\ (p # 1 => p - 1 \in DOMAIN Tail(s) /\ Tail(s)[p - 1] = s[p])
<1>1. /\ Len(s) \in Nat /\ Len(s) # 0 /\ DOMAIN s = 1 .. Len(s)
  BY EmptySeq, LenProperties
<1>2. /\ Tail(s) \in Seq(S) /\ Head(s) \in S /\ Len(Tail(s)) = Len(s) - 1
      /\ \A i \in 1 .. Len(Tail(s)) : Tail(s)[i] = s[i + 1]
  BY HeadTailProperties
<1>3. DOMAIN Tail(s) = 1 .. Len(s) - 1
  BY <1>2, LenProperties
<1>4. s[1] = Head(s)
  BY <1>1
<1>5. ASSUME NEW p \in DOMAIN s, p # 1
      PROVE  p - 1 \in DOMAIN Tail(s) /\ Tail(s)[p - 1] = s[p]
  <2>1. p - 1 \in 1 .. Len(s) - 1 /\ (p - 1) + 1 = p
    BY <1>1, <1>5
  <2> QED
    BY <1>2, <1>3, <2>1
<1>6. ASSUME NEW p \in DOMAIN Tail(s)
      PROVE  p \in Nat /\ p > 0 /\ p + 1 \in DOMAIN s /\ Tail(s)[p] = s[p + 1]
  <2>1. p \in 1 .. Len(s) - 1
    BY <1>3
  <2> QED
    BY <1>1, <1>2, <1>3, <2>1
<1> QED
  BY <1>1, <1>2, <1>4, <1>5, <1>6

LEMMA Pushed ==
  ASSUME NEW b \in Seq(Requests \X Event), NEW w \in Seq(Event), NEW r \in Requests, NEW e \in Base
  PROVE  /\ Flights(b, Append(w, e), r) = Flights(b, w, r) \cup {e}
         /\ \A f, g \in Base : <<f, g>> \in Orders(b, Append(w, e), r) =>
              f \in Flights(b, w, r) /\ ((g \in Flights(b, w, r) /\ <<f, g>> \in Orders(b, w, r)) \/ g = e)
<1> DEFINE v == Append(w, e)
           n == Len(w) + 1
<1>1. /\ v[n] = e /\ n \in DOMAIN v /\ n \in Nat
      /\ \A p \in DOMAIN w : p \in DOMAIN v /\ v[p] = w[p] /\ p < n /\ p \in Nat
      /\ \A p \in DOMAIN v : p \in DOMAIN w \/ p = n
  <2>1. e \in Event
    BY DEF Base
  <2> QED
    BY <2>1, Appended
<1> HIDE DEF v, n
<1>2. \A f : Flying(b, v, r, f) <=> Flying(b, w, r, f) \/ f = e
  BY <1>1 DEF Flying
<1>3. ASSUME NEW f \in Base, NEW g \in Base, Before(b, v, r, f, g)
      PROVE  Flying(b, w, r, f) /\ ((Flying(b, w, r, g) /\ Before(b, w, r, f, g)) \/ g = e)
  <2>1. CASE \E p, q \in DOMAIN b : p < q /\ b[p] = <<r, f>> /\ b[q] = <<r, g>>
    BY <2>1 DEF Before, Flying
  <2>2. CASE \E p \in DOMAIN b, q \in DOMAIN v : b[p] = <<r, f>> /\ v[q] = g
    BY <1>1, <2>2 DEF Before, Flying
  <2>3. CASE \E p, q \in DOMAIN v : p < q /\ v[p] = f /\ v[q] = g
    <3>1. PICK p \in DOMAIN v, q \in DOMAIN v : p < q /\ v[p] = f /\ v[q] = g
      BY <2>3
    <3>2. p \in DOMAIN w
      BY <1>1, <3>1
    <3>3. v[p] = w[p]
      BY <1>1, <3>2
    <3>4. CASE q = n
      BY <1>1, <3>1, <3>2, <3>3, <3>4 DEF Flying
    <3>5. CASE q \in DOMAIN w
      BY <1>1, <3>1, <3>2, <3>3, <3>5 DEF Before, Flying
    <3> QED
      BY <1>1, <3>4, <3>5
  <2> QED
    BY <1>3, <2>1, <2>2, <2>3 DEF Before
<1>4. \A f, g : <<f, g>>[1] = f /\ <<f, g>>[2] = g
  OBVIOUS
<1> QED
  BY <1>2, <1>3, <1>4 DEF Flights, Orders, v

LEMMA Moved ==
  ASSUME NEW b \in Seq(Requests \X Event), NEW w \in Seq(Event), w # <<>>, NEW r \in Requests
  PROVE  /\ Flights(Append(b, <<r, Head(w)>>), Tail(w), r) = Flights(b, w, r)
         /\ Orders(Append(b, <<r, Head(w)>>), Tail(w), r) \subseteq Orders(b, w, r)
<1> DEFINE a == <<r, Head(w)>>
           c == Append(b, a)
           v == Tail(w)
           n == Len(b) + 1
           e == Head(w)
<1>1. /\ 1 \in DOMAIN w /\ w[1] = e /\ e \in Event
      /\ \A p \in DOMAIN v : p \in Nat /\ p > 0 /\ p + 1 \in DOMAIN w /\ v[p] = w[p + 1]
      /\ \A p \in DOMAIN w : p # 1 => p - 1 \in DOMAIN v /\ v[p - 1] = w[p]
  BY Tailed
<1>2. /\ c[n] = <<r, e>> /\ n \in DOMAIN c /\ n \in Nat
      /\ \A p \in DOMAIN b : p \in DOMAIN c /\ c[p] = b[p] /\ p < n /\ p \in Nat
      /\ \A p \in DOMAIN c : p \in DOMAIN b \/ p = n
  <2>1. a \in Requests \X Event
    BY <1>1
  <2> QED
    BY <2>1, Appended
<1> HIDE DEF a, c, v, n, e
<1>3. ASSUME NEW f PROVE Flying(c, v, r, f) <=> Flying(b, w, r, f)
  <2>1. ASSUME Flying(c, v, r, f) PROVE Flying(b, w, r, f)
    <3>1. CASE \E p \in DOMAIN c : c[p] = <<r, f>>
      BY <1>1, <1>2, <3>1 DEF Flying
    <3>2. CASE \E p \in DOMAIN v : v[p] = f
      BY <1>1, <3>2 DEF Flying
    <3> QED
      BY <2>1, <3>1, <3>2 DEF Flying
  <2>2. ASSUME Flying(b, w, r, f) PROVE Flying(c, v, r, f)
    <3>1. CASE \E p \in DOMAIN b : b[p] = <<r, f>>
      BY <1>2, <3>1 DEF Flying
    <3>2. CASE \E p \in DOMAIN w : w[p] = f
      BY <1>1, <1>2, <3>2 DEF Flying
    <3> QED
      BY <2>2, <3>1, <3>2 DEF Flying
  <2> QED
    BY <2>1, <2>2
<1>4. ASSUME NEW f, NEW g, Before(c, v, r, f, g) PROVE Before(b, w, r, f, g)
  <2>1. CASE \E p, q \in DOMAIN c : p < q /\ c[p] = <<r, f>> /\ c[q] = <<r, g>>
    <3>1. PICK p \in DOMAIN c, q \in DOMAIN c : p < q /\ c[p] = <<r, f>> /\ c[q] = <<r, g>>
      BY <2>1
    <3>2. p \in DOMAIN b
      BY <1>2, <3>1
    <3>3. b[p] = <<r, f>>
      BY <1>2, <3>1, <3>2
    <3>4. CASE q \in DOMAIN b
      BY <1>2, <3>1, <3>2, <3>3, <3>4 DEF Before
    <3>5. CASE q = n
      BY <1>1, <1>2, <3>1, <3>2, <3>3, <3>5 DEF Before
    <3> QED
      BY <1>2, <3>4, <3>5
  <2>2. CASE \E p \in DOMAIN c, q \in DOMAIN v : c[p] = <<r, f>> /\ v[q] = g
    <3>1. PICK p \in DOMAIN c, q \in DOMAIN v : c[p] = <<r, f>> /\ v[q] = g
      BY <2>2
    <3>2. q \in Nat /\ q > 0 /\ q + 1 \in DOMAIN w /\ w[q + 1] = g
      BY <1>1, <3>1
    <3>3. CASE p \in DOMAIN b
      BY <1>2, <3>1, <3>2, <3>3 DEF Before
    <3>4. CASE p = n
      <4>1. w[1] = f /\ 1 < q + 1
        BY <1>1, <1>2, <3>1, <3>2, <3>4
      <4> QED
        BY <1>1, <3>2, <4>1 DEF Before
    <3> QED
      BY <1>2, <3>3, <3>4
  <2>3. CASE \E p, q \in DOMAIN v : p < q /\ v[p] = f /\ v[q] = g
    <3>1. PICK p \in DOMAIN v, q \in DOMAIN v : p < q /\ v[p] = f /\ v[q] = g
      BY <2>3
    <3>2. /\ p + 1 \in DOMAIN w /\ q + 1 \in DOMAIN w /\ p + 1 < q + 1
          /\ w[p + 1] = f /\ w[q + 1] = g
      BY <1>1, <3>1
    <3> QED
      BY <3>2 DEF Before
  <2> QED
    BY <1>4, <2>1, <2>2, <2>3 DEF Before
<1> QED
  BY <1>3, <1>4 DEF Flights, Orders, c, v, a

\* An event buffered that is not a base event of r.
LEMMA Inserted ==
  ASSUME NEW b \in Seq(Requests \X Event), NEW w, NEW r \in Requests, NEW s \in Requests,
         NEW e \in Event, s # r \/ e \notin Base
  PROVE  /\ Flights(Append(b, <<s, e>>), w, r) = Flights(b, w, r)
         /\ Orders(Append(b, <<s, e>>), w, r) \subseteq Orders(b, w, r)
<1> DEFINE c == Append(b, <<s, e>>)
           n == Len(b) + 1
<1>1. /\ c[n] = <<s, e>> /\ n \in DOMAIN c
      /\ \A p \in DOMAIN b : p \in DOMAIN c /\ c[p] = b[p]
      /\ \A p \in DOMAIN c : p \in DOMAIN b \/ p = n
  BY Appended
<1> HIDE DEF c, n
<1>2. \A f \in Base : <<s, e>> # <<r, f>>
  OBVIOUS
<1>3. \A f \in Base : \A p \in DOMAIN c : c[p] = <<r, f>> => p \in DOMAIN b /\ b[p] = <<r, f>>
  BY <1>1, <1>2
<1>4. \A f \in Base : Flying(c, w, r, f) <=> Flying(b, w, r, f)
  BY <1>1, <1>3 DEF Flying
<1>5. \A f, g \in Base : Before(c, w, r, f, g) => Before(b, w, r, f, g)
  BY <1>3 DEF Before
<1>6. \A p \in Base \X Base : p[1] \in Base /\ p[2] \in Base
  OBVIOUS
<1> QED
  BY <1>4, <1>5, <1>6 DEF Flights, Orders, c

LEMMA PoppedWire ==
  ASSUME NEW w \in Seq(Event), w # <<>>, Head(w) \in Base, NEW r \in Requests
  PROVE  /\ Pops(Flights(<<>>, w, r), Orders(<<>>, w, r), Flights(<<>>, Tail(w), r), Head(w))
         /\ Orders(<<>>, Tail(w), r) \subseteq Orders(<<>>, w, r)
<1> DEFINE v == Tail(w)
           e == Head(w)
<1>1. /\ 1 \in DOMAIN w /\ w[1] = e
      /\ \A p \in DOMAIN v : p \in Nat /\ p > 0 /\ p + 1 \in DOMAIN w /\ v[p] = w[p + 1]
      /\ \A p \in DOMAIN w : p # 1 => p - 1 \in DOMAIN v /\ v[p - 1] = w[p]
  BY Tailed
<1> HIDE DEF v, e
<1>2. DOMAIN <<>> = {}
  OBVIOUS
<1>3. \A f : /\ Flying(<<>>, w, r, f) <=> \E p \in DOMAIN w : w[p] = f
             /\ Flying(<<>>, v, r, f) <=> \E p \in DOMAIN v : v[p] = f
  BY <1>2 DEF Flying
<1>4. Flying(<<>>, w, r, e)
  BY <1>1, <1>3
<1>5. \A f : Flying(<<>>, v, r, f) => Flying(<<>>, w, r, f)
  BY <1>1, <1>3
<1>6. \A f : Flying(<<>>, w, r, f) => Flying(<<>>, v, r, f) \/ f = e
  BY <1>1, <1>3
<1>7. ASSUME NEW f, Flying(<<>>, v, r, f) PROVE Before(<<>>, w, r, e, f)
  <2>1. PICK p \in DOMAIN v : v[p] = f
    BY <1>3, <1>7
  <2>2. p + 1 \in DOMAIN w /\ 1 < p + 1 /\ w[p + 1] = f
    BY <1>1, <2>1
  <2> QED
    BY <1>1, <2>2 DEF Before
<1>8. ASSUME NEW f, NEW g, Before(<<>>, v, r, f, g) PROVE Before(<<>>, w, r, f, g)
  <2>1. PICK p \in DOMAIN v, q \in DOMAIN v : p < q /\ v[p] = f /\ v[q] = g
    BY <1>2, <1>8 DEF Before
  <2>2. /\ p + 1 \in DOMAIN w /\ q + 1 \in DOMAIN w /\ p + 1 < q + 1
        /\ w[p + 1] = f /\ w[q + 1] = g
    BY <1>1, <2>1
  <2> QED
    BY <2>2 DEF Before
<1>9. \A f : <<e, f>>[1] = e /\ <<e, f>>[2] = f
  OBVIOUS
<1>10. e \in Base
  BY DEF e
<1>11. \A f \in Flights(<<>>, v, r) : <<e, f>> \in Orders(<<>>, w, r)
  BY <1>7, <1>9, <1>10 DEF Flights, Orders
<1> QED
  BY <1>4, <1>5, <1>6, <1>8, <1>10, <1>11 DEF Pops, Flights, Orders, v, e

LEMMA PoppedBuffer ==
  ASSUME NEW b \in Seq(Requests \X Event), b # <<>>, NEW w, NEW r \in Requests
  PROVE  /\ Head(b)[1] = r /\ Head(b)[2] \in Base =>
              Pops(Flights(b, w, r), Orders(b, w, r), Flights(Tail(b), w, r), Head(b)[2])
         /\ Head(b)[1] # r \/ Head(b)[2] \notin Base =>
              Flights(Tail(b), w, r) = Flights(b, w, r)
         /\ Orders(Tail(b), w, r) \subseteq Orders(b, w, r)
<1> DEFINE v == Tail(b)
           s == Head(b)[1]
           e == Head(b)[2]
<1>1. /\ 1 \in DOMAIN b /\ b[1] = <<s, e>>
      /\ \A p \in DOMAIN v : p \in Nat /\ p > 0 /\ p + 1 \in DOMAIN b /\ v[p] = b[p + 1]
      /\ \A p \in DOMAIN b : p \in Nat /\ (p # 1 => p - 1 \in DOMAIN v /\ v[p - 1] = b[p])
  BY Tailed
<1> HIDE DEF v, s, e
<1>2. \A f : Flying(v, w, r, f) => Flying(b, w, r, f)
  BY <1>1 DEF Flying
<1>3. \A f : Flying(b, w, r, f) => Flying(v, w, r, f) \/ (s = r /\ f = e)
  <2>1. \A f : <<s, e>> = <<r, f>> => s = r /\ f = e
    OBVIOUS
  <2> QED
    BY <1>1, <2>1 DEF Flying
<1>4. ASSUME NEW f, NEW g, Before(v, w, r, f, g) PROVE Before(b, w, r, f, g)
  <2>1. CASE \E p, q \in DOMAIN v : p < q /\ v[p] = <<r, f>> /\ v[q] = <<r, g>>
    <3>1. PICK p \in DOMAIN v, q \in DOMAIN v : p < q /\ v[p] = <<r, f>> /\ v[q] = <<r, g>>
      BY <2>1
    <3>2. /\ p + 1 \in DOMAIN b /\ q + 1 \in DOMAIN b /\ p + 1 < q + 1
          /\ b[p + 1] = <<r, f>> /\ b[q + 1] = <<r, g>>
      BY <1>1, <3>1
    <3> QED
      BY <3>2 DEF Before
  <2>2. CASE \E p \in DOMAIN v, q \in DOMAIN w : v[p] = <<r, f>> /\ w[q] = g
    BY <1>1, <2>2 DEF Before
  <2>3. CASE \E p, q \in DOMAIN w : p < q /\ w[p] = f /\ w[q] = g
    BY <2>3 DEF Before
  <2> QED
    BY <1>4, <2>1, <2>2, <2>3 DEF Before
<1>5. ASSUME s = r, NEW f, Flying(v, w, r, f) PROVE Before(b, w, r, e, f)
  <2>1. CASE \E p \in DOMAIN v : v[p] = <<r, f>>
    <3>1. PICK p \in DOMAIN v : v[p] = <<r, f>>
      BY <2>1
    <3>2. p + 1 \in DOMAIN b /\ 1 < p + 1 /\ b[p + 1] = <<r, f>>
      BY <1>1, <3>1
    <3> QED
      BY <1>1, <1>5, <3>2 DEF Before
  <2>2. CASE \E q \in DOMAIN w : w[q] = f
    BY <1>1, <1>5, <2>2 DEF Before
  <2> QED
    BY <1>5, <2>1, <2>2 DEF Flying
<1>6. \A f : <<e, f>>[1] = e /\ <<e, f>>[2] = f
  OBVIOUS
<1>7. Orders(v, w, r) \subseteq Orders(b, w, r)
  BY <1>4 DEF Orders
<1>8. ASSUME s # r \/ e \notin Base PROVE Flights(v, w, r) = Flights(b, w, r)
  BY <1>2, <1>3, <1>8 DEF Flights
<1>9. ASSUME s = r, e \in Base PROVE Pops(Flights(b, w, r), Orders(b, w, r), Flights(v, w, r), e)
  <2>1. Flying(b, w, r, e)
    BY <1>1, <1>9 DEF Flying
  <2>2. \A f \in Flights(v, w, r) : <<e, f>> \in Orders(b, w, r)
    BY <1>5, <1>6, <1>9 DEF Flights, Orders
  <2> QED
    BY <1>2, <1>3, <1>9, <2>1, <2>2 DEF Pops, Flights
<1> QED
  BY <1>7, <1>8, <1>9 DEF v, s, e

-----------------------------------------------------------------------------
(* What the handling of an event makes of its chain.                       *)

Ignores(c, e, d) ==
  /\ e.type \notin Extras /\ (e.type = "cache" \/ e.late)
  /\ d = [c EXCEPT !.afterCutoff = @ \/ e.type \in Starts]
Keeps(c, e, d) ==
  e.type \in Extras /\ c.entries = <<>> /\ d = [c EXCEPT !.orphans[e.type] = Append(@, e.hop)]
Records(c, e, d) ==
  /\ e.type \notin Extras => Takes(c, e)
  /\ d = IF e.type \in Completing THEN Scheduled(Recorded(c, e)) ELSE Recorded(c, e)

LEMMA HandleCases ==
  ASSUME TypesInv, CutoffInv, NEW r \in Requests, NEW e \in Event, NEW buffered,
         Handle(r, e, buffered), phase \in {"capturing", "replaying", "draining"},
         e.type \notin Extras /\ e.late => Late
  PROVE  /\ dropped \subseteq dropped'
         /\ \E d : /\ chain' = [chain EXCEPT ![r] = d]
                   /\ \/ Ignores(chain[r], e, d) /\ Frozen /\ tasks' = tasks
                      \/ Keeps(chain[r], e, d) /\ OrphansFit /\ Frozen /\ tasks' = tasks
                      \/ d = chain[r] /\ e.type \in Extras /\ r \in dropped' /\ tasks' = tasks
                      \/ /\ Records(chain[r], e, d)
                         /\ e.type \in Extras /\ Frozen => chain[r].entries # <<>>
                         /\ tasks' \subseteq tasks \cup {<<r, i>> : i \in Ready(Recorded(chain[r], e))}
<1> DEFINE c == chain[r]
<1>1. dropped \subseteq dropped'
  BY DEF Handle, Ignore, KeepOrphan, Record
<1>2. CASE Ignored(c, e, buffered) /\ Ignore(r, e)
  <2> DEFINE d == [c EXCEPT !.afterCutoff = @ \/ e.type \in Starts]
  <2>1. chain' = [chain EXCEPT ![r] = d] /\ tasks' = tasks
    BY <1>2 DEF Ignore
  <2>2. Ignores(c, e, d) /\ Frozen
    BY <1>2 DEF Ignores, Ignored
  <2> QED
    BY <1>1, <2>1, <2>2
<1>3. CASE Orphan(c, e) /\ KeepOrphan(r, e)
  <2>1. CASE OrphansFit
    <3> DEFINE d == [c EXCEPT !.orphans[e.type] = Append(@, e.hop)]
    <3>1. chain' = [chain EXCEPT ![r] = d] /\ tasks' = tasks
      BY <1>3, <2>1 DEF KeepOrphan
    <3>2. Keeps(c, e, d) /\ Frozen
      BY <1>3 DEF Keeps, Orphan
    <3> QED
      BY <1>1, <2>1, <3>1, <3>2
  <2>2. CASE ~OrphansFit
    <3>1. chain' = chain /\ r \in dropped' /\ tasks' = tasks /\ e.type \in Extras
      BY <1>3, <2>2 DEF KeepOrphan, Orphan
    <3>2. chain' = [chain EXCEPT ![r] = c]
      BY <3>1 DEF TypesInv
    <3> QED
      BY <1>1, <3>1, <3>2
  <2> QED
    BY <2>1, <2>2
<1>4. CASE ~Ignored(c, e, buffered) /\ ~Orphan(c, e) /\ Record(r, e)
  <2>1. e.type \notin Extras => Takes(c, e)
    <3>1. CASE phase = "capturing"
      BY <3>1 DEF CutoffInv, Late, Takes
    <3>2. CASE Frozen
      BY <1>4, <3>2 DEF Ignored, Takes
    <3> QED
      BY <3>1, <3>2 DEF Frozen
  <2>0. e.type \in Extras /\ Frozen => c.entries # <<>>
    BY <1>4 DEF Orphan
  <2>2. CASE e.type \in Completing
    <3> DEFINE d == Scheduled(Recorded(c, e))
    <3>1. /\ chain' = [chain EXCEPT ![r] = d]
          /\ tasks' \subseteq tasks \cup {<<r, i>> : i \in Ready(Recorded(c, e))}
      BY <1>4, <2>2 DEF Record, Schedule, Scheduled
    <3>2. Records(c, e, d)
      BY <2>1, <2>2 DEF Records
    <3> QED
      BY <1>1, <2>0, <3>1, <3>2
  <2>3. CASE e.type \notin Completing
    <3> DEFINE d == Recorded(c, e)
    <3>1. chain' = [chain EXCEPT ![r] = d] /\ tasks' = tasks
      BY <1>4, <2>3 DEF Record
    <3>2. Records(c, e, d)
      BY <2>1, <2>3 DEF Records
    <3> QED
      BY <1>1, <2>0, <3>1, <3>2
  <2> QED
    BY <2>2, <2>3
<1> QED
  BY <1>2, <1>3, <1>4 DEF Handle

\* A body that can be fetched is that of the last hop.
LEMMA ReadyIsLast ==
  ASSUME NEW c \in Chain, NEW hs, NEW st, Faithful(c, hs, st), NEW i \in Ready(c)
  PROVE  i \in 1 .. Last(c) /\ st = "over" /\ i = Len(hs)
<1>1. i \in 1 .. Last(c)
  BY ChainParts DEF Ready
<1> QED
  BY <1>1 DEF Ready, Faithful, Sound

LEMMA BaseOutcome ==
  ASSUME NEW c \in Chain, Settled(c), NEW hs \in Seq(Hop), NEW st, NEW late,
         NEW F \in SUBSET Base, NEW O, NEW G, NEW P, NEW e,
         Flow(F, O, c, hs, st, late), Faithful(c, hs, st), Pops(F, O, G, e), P \subseteq O,
         NEW d \in Chain, Ignores(c, e, d) \/ Records(c, e, d)
  PROVE  /\ Flow(G, P, d, hs, st, late) /\ Faithful(d, hs, st)
         /\ Records(c, e, d) =>
              Faithful(Recorded(c, e), hs, st) /\ (d.afterCutoff => c.afterCutoff)
<1>1. e \in Base /\ e \in Event /\ e.type \notin Extras /\ Genuine(hs, st, e)
  BY DEF Pops, Base, Flow
<1>2. ASSUME Ignores(c, e, d) PROVE Flow(G, P, d, hs, st, late) /\ Faithful(d, hs, st)
  <2>1. d.entries = c.entries /\ (d.afterCutoff <=> c.afterCutoff \/ e.type \in Starts)
    BY <1>2 DEF Ignores, Chain
  <2>2. Faithful(d, hs, st)
    BY <2>1 DEF Faithful, Last
  <2> QED
    BY <1>2, <2>1, <2>2, IgnoredFlows DEF Ignores
<1>3. ASSUME Records(c, e, d)
      PROVE  /\ Flow(G, P, d, hs, st, late) /\ Faithful(d, hs, st)
             /\ Faithful(Recorded(c, e), hs, st) /\ (d.afterCutoff => c.afterCutoff)
  <2> DEFINE m == Recorded(c, e)
  <2>1. Takes(c, e)
    BY <1>1, <1>3 DEF Records
  <2>2. /\ e.type = "request" => e.hop = Last(c) + 1
        /\ e.type # "request" => c.entries # <<>> /\ e.hop = Last(c)
        /\ c.entries # <<>> => Cur(c).end # "failed"
    BY <2>1, TakenFollows
  <2>3. /\ Faithful(m, hs, st)
        /\ Last(m) = IF e.type = "request" THEN Last(c) + 1 ELSE Last(c)
        /\ Cur(m).end = "failed" => e.type = "failed"
        /\ m.afterCutoff => c.afterCutoff
    BY <1>1, <2>1, <2>2, RecordedFaithful
  <2>4. m \in Chain
    BY <1>1, RecordedSettles
  <2>5. d = m \/ d = Scheduled(m)
    BY <1>3 DEF Records
  <2> HIDE DEF m
  <2>6. /\ Faithful(d, hs, st) /\ Last(d) = Last(m) /\ d.afterCutoff = m.afterCutoff
        /\ \A i \in 1 .. Last(m) : d.entries[i].end = m.entries[i].end
    BY <2>3, <2>4, <2>5, ScheduledFaithful, ScheduledParts, ScheduledFields
  <2>7. d.entries # <<>> /\ d.entries[Last(d)].end = "failed" => e.type = "failed"
    <3>1. d.entries # <<>> => Last(d) \in 1 .. Last(m)
      BY <2>6, CurIn
    <3> QED
      BY <2>3, <2>6, <3>1 DEF Cur
  <2>8. Flow(G, P, d, hs, st, late)
    BY <2>1, <2>3, <2>6, <2>7, TakenFlows
  <2> QED
    BY <2>3, <2>6, <2>8 DEF m
<1> QED
  BY <1>2, <1>3

LEMMA ExtraOutcome ==
  ASSUME NEW c \in Chain, Settled(c), NEW hs \in Seq(Hop), NEW st, NEW late,
         NEW F, NEW O, NEW e \in Event, e.type \in Extras,
         Flow(F, O, c, hs, st, late), Faithful(c, hs, st),
         NEW d \in Chain, d = c \/ Keeps(c, e, d) \/ Records(c, e, d)
  PROVE  /\ Flow(F, O, d, hs, st, late) /\ Faithful(d, hs, st) /\ d.afterCutoff = c.afterCutoff
         /\ Records(c, e, d) => Faithful(Recorded(c, e), hs, st)
<1>1. ASSUME d.entries = c.entries, d.afterCutoff = c.afterCutoff
      PROVE  Flow(F, O, d, hs, st, late) /\ Faithful(d, hs, st)
  <2>1. Last(d) = Last(c)
    BY <1>1 DEF Last
  <2> QED
    BY <1>1, <2>1, StillFlows DEF Faithful
<1>2. CASE d = c
  BY <1>1, <1>2, ExtraFaithful
<1>3. CASE Keeps(c, e, d)
  <2>1. d.entries = c.entries /\ d.afterCutoff = c.afterCutoff
    BY <1>3 DEF Keeps, Chain
  <2> QED
    BY <1>1, <2>1, ExtraFaithful
<1>4. CASE Records(c, e, d)
  <2> DEFINE m == Recorded(c, e)
  <2>1. /\ Faithful(m, hs, st) /\ Last(m) = Last(c) /\ m.afterCutoff = c.afterCutoff
        /\ m.entries # <<>> => c.entries # <<>> /\ Cur(m).end = Cur(c).end
    BY ExtraFaithful
  <2>2. m \in Chain
    BY RecordedSettles
  <2>3. d = m \/ d = Scheduled(m)
    BY <1>4 DEF Records
  <2> HIDE DEF m
  <2>4. /\ Faithful(d, hs, st) /\ Last(d) = Last(m) /\ d.afterCutoff = m.afterCutoff
        /\ \A i \in 1 .. Last(m) : d.entries[i].end = m.entries[i].end
    BY <2>1, <2>2, <2>3, ScheduledFaithful, ScheduledParts, ScheduledFields
  <2>5. d.entries # <<>> => Last(d) \in 1 .. Last(m) /\ m.entries # <<>>
    BY <2>2, <2>4, CurIn, ChainParts
  <2>6. d.entries # <<>> /\ d.entries[Last(d)].end = "failed" =>
          c.entries # <<>> /\ c.entries[Last(c)].end = "failed"
    BY <2>1, <2>4, <2>5 DEF Cur
  <2>7. Flow(F, O, d, hs, st, late)
    BY <2>1, <2>4, <2>6, StillFlows
  <2> QED
    BY <2>1, <2>4, <2>7 DEF m
<1> QED
  BY <1>2, <1>3, <1>4

-----------------------------------------------------------------------------
(* The steps, and what is on its way.                                      *)

FlightsOf(r) == Flights(buffer, wire[r], r)
OrdersOf(r) == Orders(buffer, wire[r], r)
\* Everything said so far.
Inv == Stable /\ FlowInv /\ CutoffInv /\ TasksInv

\* The chain of r handles e, which is taken off what is on its way.
LEMMA HandleKeeps ==
  ASSUME Inv, NEW r \in Requests, NEW e \in Event, NEW buffered, Handle(r, e, buffered),
         phase \in {"capturing", "replaying", "draining"},
         UNCHANGED <<phase, hops, stage>>, wire' \in [Requests -> Seq(Event)],
         \A s \in Requests : /\ \A p \in DOMAIN wire'[s] : wire'[s][p] \in Base
                             /\ OrdersOf(s)' \subseteq OrdersOf(s)
                             /\ s # r \/ e \notin Base => FlightsOf(s)' = FlightsOf(s),
         e \in Base => Pops(FlightsOf(r), OrdersOf(r), FlightsOf(r)', e),
         buffer' # <<>> => buffer # <<>>
  PROVE  FlowInv' /\ CutoffInv' /\ TasksInv'
<1> DEFINE c == chain[r]
           hs == hops[r]
           st == stage[r]
<1>1. /\ c \in Chain /\ Settled(c) /\ Ready(c) = {} /\ hs \in Seq(Hop)
      /\ Flow(FlightsOf(r), OrdersOf(r), c, hs, st, Late) /\ Faithful(c, hs, st)
      /\ FlightsOf(r) \in SUBSET Base /\ Len(hs) <= MaxHops /\ Len(hs) \in Nat
  BY LenProperties
     DEF Inv, Stable, TypesInv, BrowserInv, SettledInv, FlowInv, FlightsOf, OrdersOf, Flights
<1>2. e.type \notin Extras <=> e \in Base
  BY DEF Base
<1>3. e \in Base /\ e.late => Late
  BY <1>1 DEF Flow, Pops
<1>4. PICK d : /\ chain' = [chain EXCEPT ![r] = d]
               /\ \/ Ignores(c, e, d) /\ Frozen /\ tasks' = tasks
                  \/ Keeps(c, e, d) /\ OrphansFit /\ tasks' = tasks
                  \/ d = c /\ e.type \in Extras /\ r \in dropped' /\ tasks' = tasks
                  \/ /\ Records(c, e, d)
                     /\ tasks' \subseteq tasks \cup {<<r, i>> : i \in Ready(Recorded(c, e))}
  BY <1>2, <1>3, HandleCases DEF Inv, Stable
<1>5. d \in Chain /\ chain'[r] = d /\ \A s \in Requests \ {r} : chain'[s] = chain[s]
  <2>1. /\ chain'[r] = d /\ (\A s \in Requests \ {r} : chain'[s] = chain[s])
        /\ chain \in [Requests -> Chain]
    BY <1>4 DEF Inv, Stable, TypesInv
  <2>2. chain' \in [Requests -> Chain]
    BY HandleStable DEF Inv, Stable
  <2> QED
    BY <2>1, <2>2
<1> HIDE DEF c, hs, st
<1>6. /\ Flow(FlightsOf(r)', OrdersOf(r)', d, hs, st, Late) /\ Faithful(d, hs, st)
      /\ Records(c, e, d) \/ Keeps(c, e, d) \/ d = c => (d.afterCutoff => c.afterCutoff)
      /\ Records(c, e, d) => Faithful(Recorded(c, e), hs, st)
  <2>1. OrdersOf(r)' \subseteq OrdersOf(r)
    OBVIOUS
  <2>2. CASE e \in Base
    <3>1. Pops(FlightsOf(r), OrdersOf(r), FlightsOf(r)', e)
      BY <2>2
    <3>2. Ignores(c, e, d) \/ Records(c, e, d)
      BY <1>2, <1>4, <2>2 DEF Keeps
    <3> QED
      BY <1>1, <1>2, <1>5, <2>1, <2>2, <3>1, <3>2, BaseOutcome DEF Keeps
  <2>3. CASE e \notin Base
    <3>1. FlightsOf(r)' = FlightsOf(r)
      BY <2>3
    <3>2. d = c \/ Keeps(c, e, d) \/ Records(c, e, d)
      BY <1>2, <1>4, <2>3 DEF Ignores
    <3>3. e.type \in Extras
      BY <1>2, <2>3
    <3>4. /\ Flow(FlightsOf(r), OrdersOf(r)', d, hs, st, Late) /\ Faithful(d, hs, st)
          /\ d.afterCutoff = c.afterCutoff
          /\ Records(c, e, d) => Faithful(Recorded(c, e), hs, st)
      <4>1. /\ Flow(FlightsOf(r), OrdersOf(r), d, hs, st, Late) /\ Faithful(d, hs, st)
            /\ d.afterCutoff = c.afterCutoff
            /\ Records(c, e, d) => Faithful(Recorded(c, e), hs, st)
        <5>1. c \in Chain /\ Settled(c) /\ hs \in Seq(Hop) /\ d \in Chain /\ e \in Event
          BY <1>1, <1>5
        <5>2. Flow(FlightsOf(r), OrdersOf(r), c, hs, st, Late) /\ Faithful(c, hs, st)
          BY <1>1
        <5>3. Faithful(d, hs, st)
          BY <5>1, <5>2, <3>2, <3>3, ExtraOutcome
        <5>4. Flow(FlightsOf(r), OrdersOf(r), d, hs, st, Late)
          BY <5>1, <5>2, <3>2, <3>3, ExtraOutcome
        <5>5. d.afterCutoff = c.afterCutoff
          BY <5>1, <5>2, <3>2, <3>3, ExtraOutcome
        <5>6. Records(c, e, d) => Faithful(Recorded(c, e), hs, st)
          BY <5>1, <5>2, <3>2, <3>3, ExtraOutcome
        <5> QED
          BY <5>3, <5>4, <5>5, <5>6
      <4> QED
        BY <2>1, <4>1, StillFlows
    <3> QED
      BY <3>1, <3>4
  <2> QED
    BY <2>2, <2>3
<1>7. Late' = Late
  BY DEF Late
<1>8. ASSUME NEW s \in Requests
      PROVE  /\ Flow(FlightsOf(s)', OrdersOf(s)', chain'[s], hops'[s], stage'[s], Late')
             /\ Faithful(chain'[s], hops'[s], stage'[s])
  <2>1. CASE s = r
    BY <1>5, <1>6, <1>7, <2>1 DEF hs, st
  <2>2. CASE s # r
    <3>1. /\ Flow(FlightsOf(s), OrdersOf(s), chain[s], hops[s], stage[s], Late)
          /\ Faithful(chain[s], hops[s], stage[s])
      BY DEF Inv, FlowInv, FlightsOf, OrdersOf
    <3>2. FlightsOf(s)' = FlightsOf(s) /\ OrdersOf(s)' \subseteq OrdersOf(s) /\ chain'[s] = chain[s]
      BY <1>5, <2>2
    <3>3. Flow(FlightsOf(s), OrdersOf(s)', chain[s], hops[s], stage[s], Late)
      BY <3>1, <3>2, StillFlows
    <3> QED
      BY <1>7, <3>1, <3>2, <3>3
  <2> QED
    BY <2>1, <2>2
<1>9. FlowInv'
  BY <1>8 DEF FlowInv, FlightsOf, OrdersOf
<1>10. CutoffInv'
  <2>1. Frozen \/ (d.afterCutoff => c.afterCutoff)
    BY <1>4, <1>6
  <2>2. \A s \in Requests : chain'[s].afterCutoff => phase \notin {"capturing", "freezing", "cut"}
    BY <1>5, <2>1 DEF Inv, CutoffInv, Frozen, c
  <2> QED
    BY <2>2 DEF Inv, CutoffInv
<1>11. TasksInv'
  <2>1. ASSUME NEW i \in Ready(Recorded(c, e)), Records(c, e, d)
        PROVE  st = "over" /\ i = Len(hs) /\ i \in 1 .. MaxHops
    <3>1. Recorded(c, e) \in Chain
      BY <1>1, RecordedSettles
    <3>2. i \in 1 .. Last(Recorded(c, e)) /\ st = "over" /\ i = Len(hs)
      BY <1>6, <2>1, <3>1, ReadyIsLast
    <3>3. i \in Nat /\ i # 0
      BY <3>2
    <3> QED
      BY <1>1, <3>2, <3>3, ConstantsAssumption
  <2>2. tasks \subseteq Requests \X (1 .. MaxHops)
    BY DEF Inv, TasksInv
  <2>3. \A t \in tasks' : \/ t \in tasks
                          \/ \E i \in 1 .. MaxHops : t = <<r, i>> /\ st = "over" /\ i = Len(hs)
    BY <1>4, <2>1
  <2>4. tasks' \subseteq Requests \X (1 .. MaxHops)
    BY <2>2, <2>3
  <2>5. ASSUME NEW s \in Requests, NEW i \in 1 .. MaxHops, <<s, i>> \in tasks'
        PROVE  stage[s] = "over" /\ i = Len(hops[s])
    BY <2>3, <2>5 DEF Inv, TasksInv, hs, st
  <2> QED
    BY <2>4, <2>5 DEF TasksInv
<1> QED
  BY <1>9, <1>10, <1>11

\* The browser has emitted one more event e, the last under way, of the last
\* of the hops hs2, which were hs.
Follows(F, O, P, e) ==
  \A f, g \in Base : <<f, g>> \in P => f \in F /\ ((g \in F /\ <<f, g>> \in O) \/ g = e)
Grows(hs, hs2, e) ==
  /\ e.hop = Len(hs2) /\ Len(hs2) = IF e.type = "request" THEN Len(hs) + 1 ELSE Len(hs)
  /\ \A n \in 1 .. Len(hs) :
       /\ hs2[n].extra = hs[n].extra /\ hs2[n].late = hs[n].late
       /\ hs[n].cached => hs2[n].cached
LEMMA EmitFlows ==
  ASSUME NEW c \in Chain, NEW hs \in Seq(Hop), NEW hs2 \in Seq(Hop), NEW st, NEW st2,
         NEW F \in SUBSET Base, NEW G, NEW O, NEW P, NEW e \in Base, G = F \cup {e},
         Flow(F, O, c, hs, st, e.late), Faithful(c, hs, st), c.afterCutoff => e.late,
         Follows(F, O, P, e), st # "over", Grows(hs, hs2, e), Genuine(hs2, st2, e)
  PROVE  Flow(G, P, c, hs2, st2, e.late) /\ Faithful(c, hs2, st2)
<1>1. Last(c) \in Nat /\ Len(hs) \in Nat /\ Len(hs2) \in Nat /\ Last(c) <= Len(hs)
  BY ChainParts, LenProperties DEF Faithful
<1> USE DEF Follows, Grows
<1>2. \A f \in F : /\ f \in Base /\ f.hop \in 1 .. Len(hs) /\ f.type \notin Ends
                   /\ f.type \in Types
  <2>1. \A f \in F : /\ f \in Base /\ f.hop \in Nat \ {0} /\ f.hop <= Len(hs) /\ f.type \notin Ends
                     /\ f.type \in Types
    BY DEF Flow, Genuine, Base, Event
  <2> QED
    BY <1>1, <2>1
<1>3. ASSUME NEW f \in F PROVE Genuine(hs2, st2, f) /\ (f.late => e.late)
  <2>1. Genuine(hs, st, f) /\ f.hop \in 1 .. Len(hs) /\ Len(hs) <= Len(hs2)
    BY <1>1, <1>2 DEF Flow
  <2>2. f.hop > 1 => f.hop - 1 \in 1 .. Len(hs)
    BY <1>1, <2>1
  <2> QED
    BY <1>1, <1>2, <2>1, <2>2 DEF Genuine, Flow
<1>4. ASSUME NEW f \in F PROVE InOrder(f, e)
  <2>1. f.hop <= e.hop /\ (e.type = "request" => f.hop < e.hop)
    BY <1>1, <1>2
  <2> QED
    BY <1>2, <1>3, <2>1 DEF InOrder
<1>5. \A f, g \in F \cup {e} : <<f, g>> \in P => InOrder(f, g)
  <2> SUFFICES ASSUME NEW f \in F \cup {e}, NEW g \in F \cup {e}, <<f, g>> \in P
               PROVE  InOrder(f, g)
    OBVIOUS
  <2>1. f \in F /\ ((g \in F /\ <<f, g>> \in O) \/ g = e)
    BY <1>2
  <2> QED
    BY <1>4, <2>1 DEF Flow
<1>6. e.hop >= Last(c) /\ (e.type = "request" => e.hop > Last(c))
  BY <1>1
<1>7. Complete(F, c, hs) => Complete(F \cup {e}, c, hs2)
  <2> SUFFICES ASSUME Complete(F, c, hs), NEW n \in (Last(c) + 1) .. Len(hs2)
               PROVE  \E f \in F \cup {e} : f.type = "request" /\ f.hop = n
    BY DEF Complete
  <2>1. n \in (Last(c) + 1) .. Len(hs) \/ (n = Len(hs2) /\ e.type = "request")
    BY <1>1
  <2> QED
    BY <2>1 DEF Complete
<1>8. c.entries # <<>> => c.entries[Last(c)].end # "failed"
  <2>1. c.entries # <<>> => Last(c) \in 1 .. Last(c)
    BY CurIn
  <2> QED
    BY <2>1 DEF Faithful, Sound
<1>9. Flow(F \cup {e}, P, c, hs2, st2, e.late)
  <2>1. \A f \in F \cup {e} : f.hop >= Last(c) /\ (f.type = "request" => f.hop > Last(c))
    BY <1>6 DEF Flow
  <2>2. \A f \in F \cup {e} : Genuine(hs2, st2, f) /\ (f.late => e.late)
    BY <1>3
  <2>3. Complete(F \cup {e}, c, hs2) \/ (c.afterCutoff /\ \A f \in F \cup {e} : f.late)
    BY <1>7 DEF Flow
  <2> QED
    BY <1>5, <1>8, <2>1, <2>2, <2>3 DEF Flow
<1>10. Faithful(c, hs2, st2)
  <2>1. ASSUME NEW i \in 1 .. Last(c) PROVE Sound(c.entries[i], i, hs2, st2)
    <3>1. Sound(c.entries[i], i, hs, st) /\ i \in 1 .. Len(hs)
      BY <1>1 DEF Faithful
    <3> QED
      BY <3>1 DEF Sound
  <2>2. Last(c) <= Len(hs2)
    BY <1>1
  <2> QED
    BY <2>1, <2>2 DEF Faithful
<1>11. G = F \cup {e}
  OBVIOUS
<1> QED
  BY <1>9, <1>10, <1>11

LEMMA EmitKeeps ==
  ASSUME Inv, NEW r \in Requests, NEW e \in Base, Emits(r, e),
         hops' \in [Requests -> Seq(Hop)]
  PROVE  FlowInv' /\ CutoffInv' /\ TasksInv'
<1>1. UNCHANGED <<phase, buffer, chain, tasks>> /\ Late' = Late
  BY DEF Emits, Late
<1>2. /\ wire'[r] = Append(wire[r], e) /\ (\A s \in Requests \ {r} : wire'[s] = wire[s])
      /\ \A s \in Requests : buffer \in Seq(Requests \X Event) /\ wire[s] \in Seq(Event)
  BY DEF Emits, Inv, Stable, TypesInv
<1>3. /\ FlightsOf(r)' = FlightsOf(r) \cup {e}
      /\ \A f, g \in Base : <<f, g>> \in OrdersOf(r)' =>
           f \in FlightsOf(r) /\ ((g \in FlightsOf(r) /\ <<f, g>> \in OrdersOf(r)) \/ g = e)
  <2>1. /\ FlightsOf(r)' = Flights(buffer, Append(wire[r], e), r)
        /\ OrdersOf(r)' = Orders(buffer, Append(wire[r], e), r)
    BY <1>1, <1>2 DEF FlightsOf, OrdersOf
  <2>2. buffer \in Seq(Requests \X Event) /\ wire[r] \in Seq(Event)
    BY <1>2
  <2>3. Flights(buffer, Append(wire[r], e), r) = FlightsOf(r) \cup {e}
    BY <2>2, Pushed DEF FlightsOf
  <2>4. \A f, g \in Base : <<f, g>> \in Orders(buffer, Append(wire[r], e), r) =>
          f \in FlightsOf(r) /\ ((g \in FlightsOf(r) /\ <<f, g>> \in OrdersOf(r)) \/ g = e)
    BY <2>2, Pushed DEF FlightsOf, OrdersOf
  <2> QED
    BY <2>1, <2>3, <2>4
<1>4. /\ Flow(FlightsOf(r)', OrdersOf(r)', chain'[r], hops'[r], stage'[r], Late')
      /\ Faithful(chain'[r], hops'[r], stage'[r])
  <2> DEFINE c == chain[r]
             hs == hops[r]
             hs2 == hops'[r]
             st == stage[r]
             st2 == stage'[r]
             F == FlightsOf(r)
             O == OrdersOf(r)
             P == OrdersOf(r)'
             G == FlightsOf(r)'
  <2>0. G = F \cup {e}
    BY <1>3
  <2>7. e.late = Late
    BY DEF Emits
  <2>1. /\ c \in Chain /\ hs \in Seq(Hop) /\ hs2 \in Seq(Hop) /\ F \in SUBSET Base
        /\ Flow(F, O, c, hs, st, e.late) /\ Faithful(c, hs, st)
    BY <2>7 DEF Inv, Stable, TypesInv, FlowInv, FlightsOf, OrdersOf, Flights
  <2>2. c.afterCutoff => e.late
    BY <2>7 DEF Inv, CutoffInv, Late
  <2>3. st # "over" /\ Grows(hs, hs2, e) /\ Genuine(hs2, st2, e)
    BY DEF Emits, Grows
  <2>4. Follows(F, O, P, e)
    BY <1>3 DEF Follows
  <2> HIDE DEF c, hs, hs2, st, st2, F, G, O, P
  <2>5. Flow(G, P, c, hs2, st2, e.late)
    BY <2>0, <2>1, <2>2, <2>3, <2>4, EmitFlows
  <2>6. Faithful(c, hs2, st2)
    BY <2>0, <2>1, <2>2, <2>3, <2>4, EmitFlows
  <2> QED
    BY <1>1, <2>7, <2>5, <2>6 DEF c, hs2, st2, G, P
<1>5. ASSUME NEW s \in Requests, s # r
      PROVE  /\ Flow(FlightsOf(s)', OrdersOf(s)', chain'[s], hops'[s], stage'[s], Late')
             /\ Faithful(chain'[s], hops'[s], stage'[s])
             /\ \A p \in DOMAIN wire'[s] : wire'[s][p] \in Base
  <2>1. /\ hops'[s] = hops[s] /\ stage'[s] = stage[s] /\ wire'[s] = wire[s]
        /\ buffer' = buffer /\ chain' = chain
    BY <1>1, <1>2, <1>5 DEF Emits
  <2>2. FlightsOf(s)' = FlightsOf(s) /\ OrdersOf(s)' = OrdersOf(s)
    BY <2>1 DEF FlightsOf, OrdersOf
  <2>3. /\ Flow(FlightsOf(s), OrdersOf(s), chain[s], hops[s], stage[s], Late)
        /\ Faithful(chain[s], hops[s], stage[s])
        /\ \A p \in DOMAIN wire[s] : wire[s][p] \in Base
    BY DEF Inv, FlowInv, FlightsOf, OrdersOf
  <2> QED
    BY <1>1, <2>1, <2>2, <2>3
<1>6. \A p \in DOMAIN wire'[r] : wire'[r][p] \in Base
  <2>1. \A p \in DOMAIN wire[r] : wire[r][p] \in Base
    BY DEF Inv, FlowInv
  <2>2. e \in Event
    BY DEF Base
  <2> QED
    BY <1>2, <2>1, <2>2, Appended
<1>7. FlowInv'
  BY <1>4, <1>5, <1>6 DEF FlowInv, FlightsOf, OrdersOf
<1>8. CutoffInv'
  BY <1>1 DEF Inv, CutoffInv
<1>9. TasksInv'
  <2>1. stage[r] # "over" /\ \A s \in Requests \ {r} : hops'[s] = hops[s] /\ stage'[s] = stage[s]
    BY DEF Emits
  <2> QED
    BY <1>1, <2>1 DEF Inv, TasksInv
<1> QED
  BY <1>7, <1>8, <1>9

\* No base event is handled, and the entries change in what they are assigned
\* at most.
LEMMA StillKeeps ==
  ASSUME Inv, UNCHANGED <<hops, stage, tasks>>, chain' \in [Requests -> Chain], Late => Late',
         \A s \in Requests : /\ AsBefore(chain'[s], chain[s])
                             /\ FlightsOf(s)' = FlightsOf(s)
                             /\ OrdersOf(s)' \subseteq OrdersOf(s)
                             /\ \A p \in DOMAIN wire'[s] : wire'[s][p] \in Base,
         phase \notin {"capturing", "freezing", "cut"} => phase' \notin {"capturing", "freezing", "cut"},
         buffer' # <<>> => phase' \in {"freezing", "cut", "replaying", "failed"}
  PROVE  FlowInv' /\ CutoffInv' /\ TasksInv'
<1>1. ASSUME NEW s \in Requests
      PROVE  /\ Flow(FlightsOf(s)', OrdersOf(s)', chain'[s], hops'[s], stage'[s], Late')
             /\ Faithful(chain'[s], hops'[s], stage'[s])
  <2> DEFINE c == chain[s]
             d == chain'[s]
             hs == hops[s]
             st == stage[s]
             F == FlightsOf(s)
             O == OrdersOf(s)
             P == OrdersOf(s)'
  <2>1. c \in Chain /\ d \in Chain /\ AsBefore(d, c) /\ P \subseteq O /\ Faithful(c, hs, st)
    BY DEF Inv, Stable, TypesInv, FlowInv
  <2>2. \A late : Flow(F, O, c, hs, st, Late) /\ late = Late' => Flow(F, O, c, hs, st, late)
    BY DEF Flow
  <2>3. Flow(F, O, c, hs, st, Late)
    BY DEF Inv, FlowInv, FlightsOf, OrdersOf
  <2>4. FlightsOf(s)' = F /\ hops'[s] = hs /\ stage'[s] = st
    OBVIOUS
  <2> HIDE DEF c, d, hs, st, F, O, P
  <2>5. Faithful(d, hs, st)
    BY <2>1, BeforeFaithful
  <2>6. Last(d) = Last(c) /\ d.afterCutoff = c.afterCutoff
    BY <2>1 DEF AsBefore
  <2>7. /\ d.entries # <<>> => c.entries # <<>> /\ Last(d) \in 1 .. Last(c)
    BY <2>1, <2>6, CurIn, ChainParts
  <2>8. d.entries # <<>> /\ d.entries[Last(d)].end = "failed" =>
          c.entries # <<>> /\ c.entries[Last(c)].end = "failed"
    BY <2>1, <2>6, <2>7 DEF AsBefore, SameFields
  <2>9. ASSUME NEW late, late = Late' PROVE Flow(F, P, d, hs, st, late)
    <3>1. Flow(F, O, c, hs, st, late)
      BY <2>2, <2>3, <2>9
    <3> QED
      BY <2>1, <2>6, <2>8, <3>1, StillFlows
  <2>10. Flow(F, P, d, hs, st, Late')
    BY <2>9
  <2> QED
    BY <2>4, <2>5, <2>10 DEF d, P
<1>2. FlowInv'
  BY <1>1 DEF FlowInv, FlightsOf, OrdersOf
<1>3. CutoffInv'
  BY DEF Inv, CutoffInv, AsBefore
<1>4. TasksInv'
  BY DEF Inv, TasksInv
<1> QED
  BY <1>2, <1>3, <1>4

LEMMA FetchKeeps ==
  ASSUME Inv, NEW r \in Requests, NEW i \in 1 .. MaxHops, Fetch(r, i)
  PROVE  FlowInv' /\ CutoffInv' /\ TasksInv'
<1>1. PICK body \in {0, Len(hops[r])} : chain' = [chain EXCEPT ![r].entries[i].body = body]
  BY DEF Fetch
<1>2. UNCHANGED <<phase, hops, stage, wire, buffer>> /\ tasks' \subseteq tasks /\ <<r, i>> \in tasks
  BY DEF Fetch, browser
<1>3. i = Len(hops[r]) /\ body \in {0, i} /\ body \in 0 .. MaxHops
  BY <1>1, <1>2, ConstantsAssumption DEF Inv, TasksInv
<1>4. Late' = Late
  BY <1>2 DEF Late
<1>5. ASSUME NEW s \in Requests
      PROVE  /\ Flow(FlightsOf(s)', OrdersOf(s)', chain'[s], hops'[s], stage'[s], Late')
             /\ Faithful(chain'[s], hops'[s], stage'[s])
             /\ chain'[s].afterCutoff = chain[s].afterCutoff
  <2> DEFINE c == chain[s]
  <2>1. /\ c \in Chain /\ Flow(FlightsOf(s), OrdersOf(s), c, hops[s], stage[s], Late)
        /\ Faithful(c, hops[s], stage[s])
    BY DEF Inv, Stable, TypesInv, FlowInv, FlightsOf, OrdersOf
  <2>2. FlightsOf(s)' = FlightsOf(s) /\ OrdersOf(s)' = OrdersOf(s)
    BY <1>2 DEF FlightsOf, OrdersOf
  <2>3. CASE s # r
    <3>1. chain'[s] = c
      BY <1>1, <2>3 DEF Inv, Stable, TypesInv
    <3> QED
      BY <1>2, <1>4, <2>1, <2>2, <3>1
  <2>4. CASE s = r
    <3> DEFINE d == Fetched(c, i, body)
    <3>1. chain'[s] = d
      BY <1>1, <2>4 DEF Inv, Stable, TypesInv, Fetched
    <3> HIDE DEF c
    <3>2. Faithful(d, hops[s], stage[s])
      BY <1>3, <2>1, FetchedFaithful
    <3>3. /\ d \in Chain /\ Last(d) = Last(c) /\ d.afterCutoff = c.afterCutoff
          /\ \A j \in 1 .. Last(c) : d.entries[j].end = c.entries[j].end
      <4>1. c \in Chain /\ body \in 0 .. MaxHops
        BY <1>3, <2>1
      <4>2. d \in Chain /\ Last(d) = Last(c) /\ d.afterCutoff = c.afterCutoff
        BY <4>1, FetchedParts
      <4>3. ASSUME NEW j \in 1 .. Last(c) PROVE d.entries[j].end = c.entries[j].end
        BY <4>1, FetchedEnds
      <4> QED
        BY <4>2, <4>3
    <3> HIDE DEF d
    <3>4. d.entries # <<>> => c.entries # <<>> /\ Last(d) \in 1 .. Last(c)
      BY <2>1, <3>3, CurIn, ChainParts
    <3>5. d.entries # <<>> /\ d.entries[Last(d)].end = "failed" =>
            c.entries # <<>> /\ c.entries[Last(c)].end = "failed"
      BY <3>3, <3>4
    <3>6. Flow(FlightsOf(s), OrdersOf(s), d, hops[s], stage[s], Late)
      BY <2>1, <3>3, <3>5, StillFlows
    <3> QED
      BY <1>2, <1>4, <2>2, <3>1, <3>2, <3>3, <3>6 DEF c
  <2> QED
    BY <2>3, <2>4
<1>6. FlowInv'
  BY <1>2, <1>5 DEF Inv, FlowInv, FlightsOf, OrdersOf
<1>7. CutoffInv'
  BY <1>2, <1>5 DEF Inv, CutoffInv
<1>8. TasksInv'
  BY <1>2 DEF Inv, TasksInv
<1> QED
  BY <1>6, <1>7, <1>8

LEMMA DeliverKeeps ==
  ASSUME Inv, NEW r \in Requests, Deliver(r)
  PROVE  FlowInv' /\ CutoffInv' /\ TasksInv'
<1> DEFINE e == Head(wire[r])
<1>1. /\ wire[r] # <<>> /\ Listen(r, e) /\ wire' = [wire EXCEPT ![r] = Tail(wire[r])]
      /\ UNCHANGED <<phase, hops, stage>>
  BY DEF Deliver
<1>2. /\ wire[r] \in Seq(Event) /\ buffer \in Seq(Requests \X Event)
      /\ wire \in [Requests -> Seq(Event)] /\ chain \in [Requests -> Chain]
  BY DEF Inv, Stable, TypesInv
<1>3. /\ Tail(wire[r]) \in Seq(Event) /\ e \in Event /\ e \in Base
      /\ \A p \in DOMAIN Tail(wire[r]) : Tail(wire[r])[p] \in Base
  <2>1. \A p \in DOMAIN wire[r] : wire[r][p] \in Base
    BY DEF Inv, FlowInv
  <2> QED
    BY <1>1, <1>2, <2>1, Tailed
<1>4. wire'[r] = Tail(wire[r]) /\ \A s \in Requests \ {r} : wire'[s] = wire[s]
  BY <1>1, <1>2
<1>5. wire' \in [Requests -> Seq(Event)]
  BY <1>1, <1>2, <1>3
<1>6. \A s \in Requests : \A p \in DOMAIN wire'[s] : wire'[s][p] \in Base
  BY <1>3, <1>4 DEF Inv, FlowInv
<1> HIDE DEF e
<1>7. CASE Buffering
  <2>1. buffer' = Append(buffer, <<r, e>>) /\ UNCHANGED <<chain, tasks>>
    BY <1>1, <1>7 DEF Listen
  <2>2. ASSUME NEW s \in Requests
        PROVE  FlightsOf(s)' = FlightsOf(s) /\ OrdersOf(s)' \subseteq OrdersOf(s)
    <3>1. CASE s = r
      <4>1. /\ FlightsOf(r)' = Flights(Append(buffer, <<r, Head(wire[r])>>), Tail(wire[r]), r)
            /\ OrdersOf(r)' = Orders(Append(buffer, <<r, Head(wire[r])>>), Tail(wire[r]), r)
        BY <1>4, <2>1 DEF FlightsOf, OrdersOf, e
      <4> QED
        BY <1>1, <1>2, <3>1, <4>1, Moved DEF FlightsOf, OrdersOf
    <3>2. CASE s # r
      <4>1. /\ FlightsOf(s)' = Flights(Append(buffer, <<r, e>>), wire[s], s)
            /\ OrdersOf(s)' = Orders(Append(buffer, <<r, e>>), wire[s], s)
        BY <1>4, <2>1, <3>2 DEF FlightsOf, OrdersOf
      <4> QED
        BY <1>2, <1>3, <3>2, <4>1, Inserted DEF FlightsOf, OrdersOf
    <3> QED
      BY <3>1, <3>2
  <2>3. \A s \in Requests : AsBefore(chain'[s], chain[s])
    BY <2>1 DEF AsBefore, SameFields
  <2>4. phase' = phase /\ phase \in {"freezing", "cut"} /\ Late' = Late
    BY <1>1, <1>7 DEF Buffering, Late
  <2> QED
    BY <1>1, <1>2, <1>6, <2>1, <2>2, <2>3, <2>4, StillKeeps
<1>8. CASE ~Buffering
  <2>1. Handle(r, e, FALSE) /\ buffer' = buffer /\ phase \in {"capturing", "draining"}
    BY <1>1, <1>8 DEF Listen, Buffering
  <2>2. buffer = <<>>
    BY <2>1 DEF Inv, CutoffInv
  <2>3. /\ FlightsOf(r)' = Flights(<<>>, Tail(wire[r]), r) /\ FlightsOf(r) = Flights(<<>>, wire[r], r)
        /\ OrdersOf(r)' = Orders(<<>>, Tail(wire[r]), r) /\ OrdersOf(r) = Orders(<<>>, wire[r], r)
    BY <1>4, <2>1, <2>2 DEF FlightsOf, OrdersOf
  <2>4. Pops(FlightsOf(r), OrdersOf(r), FlightsOf(r)', e) /\ OrdersOf(r)' \subseteq OrdersOf(r)
    BY <1>1, <1>2, <1>3, <2>3, PoppedWire DEF e
  <2>5. \A s \in Requests \ {r} : FlightsOf(s)' = FlightsOf(s) /\ OrdersOf(s)' = OrdersOf(s)
    BY <1>4, <2>1 DEF FlightsOf, OrdersOf
  <2>6. \A s \in Requests : /\ \A p \in DOMAIN wire'[s] : wire'[s][p] \in Base
                            /\ OrdersOf(s)' \subseteq OrdersOf(s)
                            /\ s # r \/ e \notin Base => FlightsOf(s)' = FlightsOf(s)
    BY <1>3, <1>6, <2>4, <2>5
  <2> QED
    BY <1>1, <1>3, <1>5, <2>1, <2>4, <2>6, HandleKeeps
<1> QED
  BY <1>7, <1>8

LEMMA DeliverExtraKeeps ==
  ASSUME Inv, NEW r \in Requests, NEW x \in Extras, DeliverExtra(r, x)
  PROVE  FlowInv' /\ CutoffInv' /\ TasksInv'
<1>1. PICK n \in DOMAIN hops[r] :
        /\ Listen(r, [type |-> x, hop |-> n, extra |-> FALSE, late |-> FALSE])
        /\ UNCHANGED <<phase, hops, stage, wire>>
  BY DEF DeliverExtra
<1> DEFINE e == [type |-> x, hop |-> n, extra |-> FALSE, late |-> FALSE]
<1>2. e \in Event /\ e.type = x /\ e \notin Base
  <2>1. n \in 1 .. Len(hops[r]) /\ Len(hops[r]) \in Nat /\ Len(hops[r]) <= MaxHops
    BY DEF Inv, Stable, TypesInv, BrowserInv
  <2>2. n \in 1 .. MaxHops
    BY <2>1, ConstantsAssumption
  <2> QED
    BY <2>2 DEF Event, Types, Base
<1>3. Listen(r, e)
  BY <1>1
<1>4. /\ buffer \in Seq(Requests \X Event) /\ wire \in [Requests -> Seq(Event)]
      /\ chain \in [Requests -> Chain]
      /\ \A s \in Requests : \A p \in DOMAIN wire'[s] : wire'[s][p] \in Base
  BY <1>1 DEF Inv, Stable, TypesInv, FlowInv
<1> HIDE DEF e
<1>5. CASE Buffering
  <2>1. buffer' = Append(buffer, <<r, e>>) /\ UNCHANGED <<chain, tasks>>
    BY <1>3, <1>5 DEF Listen
  <2>2. ASSUME NEW s \in Requests
        PROVE  FlightsOf(s)' = FlightsOf(s) /\ OrdersOf(s)' \subseteq OrdersOf(s)
    <3>1. /\ FlightsOf(s)' = Flights(Append(buffer, <<r, e>>), wire[s], s)
          /\ OrdersOf(s)' = Orders(Append(buffer, <<r, e>>), wire[s], s)
      BY <1>1, <2>1 DEF FlightsOf, OrdersOf
    <3>2. buffer \in Seq(Requests \X Event) /\ e \in Event /\ e \notin Base
      BY <1>2, <1>4
    <3>3. /\ Flights(Append(buffer, <<r, e>>), wire[s], s) = Flights(buffer, wire[s], s)
          /\ Orders(Append(buffer, <<r, e>>), wire[s], s) \subseteq Orders(buffer, wire[s], s)
      BY <3>2, Inserted
    <3> QED
      BY <3>1, <3>3 DEF FlightsOf, OrdersOf
  <2>3. \A s \in Requests : AsBefore(chain'[s], chain[s])
    BY <2>1 DEF AsBefore, SameFields
  <2>4. phase' = phase /\ phase \in {"freezing", "cut"} /\ Late' = Late
    BY <1>1, <1>5 DEF Buffering, Late
  <2> QED
    BY <1>1, <1>4, <2>1, <2>2, <2>3, <2>4, StillKeeps
<1>6. CASE ~Buffering
  <2>1. Handle(r, e, FALSE) /\ buffer' = buffer /\ phase \in {"capturing", "draining"}
    BY <1>3, <1>6 DEF Listen, Buffering
  <2>2. \A s \in Requests : FlightsOf(s)' = FlightsOf(s) /\ OrdersOf(s)' \subseteq OrdersOf(s)
    BY <1>1, <2>1 DEF FlightsOf, OrdersOf
  <2>3. wire' \in [Requests -> Seq(Event)]
    BY <1>1, <1>4
  <2> QED
    BY <1>1, <1>2, <1>4, <2>1, <2>2, <2>3, HandleKeeps
<1> QED
  BY <1>5, <1>6

LEMMA ReplayKeeps == ASSUME Inv, Replay PROVE FlowInv' /\ CutoffInv' /\ TasksInv'
<1>1. /\ phase = "replaying" /\ buffer # <<>> /\ buffer' = Tail(buffer)
      /\ Handle(Head(buffer)[1], Head(buffer)[2], TRUE)
      /\ UNCHANGED <<phase, hops, stage, wire>>
  BY DEF Replay, browser
<1>2. /\ buffer \in Seq(Requests \X Event) /\ wire' \in [Requests -> Seq(Event)]
      /\ \A s \in Requests : \A p \in DOMAIN wire'[s] : wire'[s][p] \in Base
  BY <1>1 DEF Inv, Stable, TypesInv, FlowInv
<1>3. Head(buffer) \in Requests \X Event
  BY <1>1, <1>2, HeadTailProperties
<1>4. PICK r \in Requests, e \in Event : r = Head(buffer)[1] /\ e = Head(buffer)[2]
  BY <1>3
<1>5. \A s \in Requests : /\ FlightsOf(s)' = Flights(Tail(buffer), wire[s], s)
                          /\ OrdersOf(s)' = Orders(Tail(buffer), wire[s], s)
  BY <1>1 DEF FlightsOf, OrdersOf
<1>6. ASSUME NEW s \in Requests
      PROVE  /\ OrdersOf(s)' \subseteq OrdersOf(s)
             /\ s # r \/ e \notin Base => FlightsOf(s)' = FlightsOf(s)
  <2>1. Orders(Tail(buffer), wire[s], s) \subseteq Orders(buffer, wire[s], s)
    BY <1>1, <1>2, PoppedBuffer
  <2>2. s # r \/ e \notin Base => Flights(Tail(buffer), wire[s], s) = Flights(buffer, wire[s], s)
    BY <1>1, <1>2, <1>4, PoppedBuffer
  <2> QED
    BY <1>5, <2>1, <2>2 DEF FlightsOf, OrdersOf
<1>7. e \in Base => Pops(FlightsOf(r), OrdersOf(r), FlightsOf(r)', e)
  <2>1. e \in Base => Pops(Flights(buffer, wire[r], r), Orders(buffer, wire[r], r),
                           Flights(Tail(buffer), wire[r], r), e)
    BY <1>1, <1>2, <1>4, PoppedBuffer
  <2>2. /\ FlightsOf(r) = Flights(buffer, wire[r], r) /\ OrdersOf(r) = Orders(buffer, wire[r], r)
        /\ FlightsOf(r)' = Flights(Tail(buffer), wire[r], r)
    BY <1>4, <1>5 DEF FlightsOf, OrdersOf
  <2> QED
    BY <2>1, <2>2
<1>8. \A s \in Requests : /\ \A p \in DOMAIN wire'[s] : wire'[s][p] \in Base
                          /\ OrdersOf(s)' \subseteq OrdersOf(s)
                          /\ s # r \/ e \notin Base => FlightsOf(s)' = FlightsOf(s)
  BY <1>2, <1>6
<1>9. Handle(r, e, TRUE) /\ phase \in {"capturing", "replaying", "draining"}
  BY <1>1, <1>4
<1> QED
  BY <1>1, <1>2, <1>7, <1>8, <1>9, HandleKeeps

LEMMA InvSteps == Inv /\ [Next]_vars => Inv'
<1> SUFFICES ASSUME Inv, [Next]_vars PROVE Inv'
  OBVIOUS
<1>1. Stable'
  BY StableSteps DEF Inv
<1> SUFFICES FlowInv' /\ CutoffInv' /\ TasksInv'
  BY <1>1 DEF Inv
<1>2. ASSUME NEW r \in Requests,
             SendRequest(r) \/ RepeatRequest(r) \/ HitCache(r) \/ Respond(r) \/ EndRequest(r)
      PROVE  FlowInv' /\ CutoffInv' /\ TasksInv'
  <2>1. PICK e \in Base : Emits(r, e)
    BY <1>2, BrowserSteps DEF Inv, Stable
  <2>2. hops' \in [Requests -> Seq(Hop)]
    BY <1>2, BrowserSteps DEF Inv, Stable
  <2> QED
    BY <2>1, <2>2, EmitKeeps
<1>3. ASSUME phase' # phase \/ UNCHANGED vars, UNCHANGED <<browser, buffer, tasks>>,
             phase' # phase => phase' \notin {"capturing", "freezing"} \/ phase = "capturing",
             phase' # phase => \/ phase' \notin {"capturing", "freezing", "cut"}
                               \/ phase \in {"capturing", "freezing"},
             buffer # <<>> /\ phase' # phase => phase' \in {"cut", "replaying", "failed"},
             \A s \in Requests : AsBefore(chain'[s], chain[s])
      PROVE  FlowInv' /\ CutoffInv' /\ TasksInv'
  <2>1. UNCHANGED <<hops, stage, wire, buffer, tasks>> /\ chain' \in [Requests -> Chain]
    BY <1>1, <1>3 DEF browser, Stable, TypesInv
  <2>2. /\ \A s \in Requests : /\ FlightsOf(s)' = FlightsOf(s) /\ OrdersOf(s)' = OrdersOf(s)
                               /\ \A p \in DOMAIN wire'[s] : wire'[s][p] \in Base
    BY <2>1 DEF FlightsOf, OrdersOf, Inv, FlowInv
  <2>3. Late => Late'
    BY <1>3 DEF Late, vars
  <2>4. phase \notin {"capturing", "freezing", "cut"} => phase' \notin {"capturing", "freezing", "cut"}
    BY <1>3 DEF vars
  <2>5. buffer' # <<>> => phase' \in {"freezing", "cut", "replaying", "failed"}
    BY <1>3, <2>1 DEF vars, Inv, CutoffInv
  <2> QED
    BY <1>3, <2>1, <2>2, <2>3, <2>4, <2>5, StillKeeps
<1>4. CASE Freeze
  <2>1. \A s \in Requests : AsBefore(chain'[s], chain[s])
    <3>1. \A s \in Requests : chain[s] \in Chain
      BY DEF Inv, Stable, TypesInv
    <3>2. \A s \in Requests : AsBefore(Reconciled(chain[s]), chain[s])
      BY <3>1, ReconciledParts
    <3> QED
      BY <1>4, <3>2 DEF Freeze
  <2> QED
    BY <1>3, <1>4, <2>1 DEF Freeze
<1>5. CASE BeginFreeze \/ ReadClock \/ Drain \/ StopListening \/ Archive \/ Fail \/ Stop \/ UNCHANGED vars
  <2>1. chain' = chain
    BY <1>5 DEF BeginFreeze, ReadClock, Drain, StopListening, Archive, Fail, Stop, vars
  <2>2. \A s \in Requests : AsBefore(chain'[s], chain[s])
    BY <2>1 DEF AsBefore, SameFields
  <2>3. phase = "capturing" => buffer = <<>>
    BY DEF Inv, CutoffInv
  <2> QED
    BY <1>3, <1>5, <2>2, <2>3
       DEF BeginFreeze, ReadClock, Drain, StopListening, Archive, Fail, Stop, vars, browser, Inv, CutoffInv
<1> QED
  BY <1>2, <1>4, <1>5, DeliverKeeps, DeliverExtraKeeps, ReplayKeeps, FetchKeeps DEF Next

LEMMA InvInit == Init => Inv
<1> SUFFICES ASSUME Init PROVE Inv
  OBVIOUS
<1>1. Stable
  BY StableInit
<1>0. DOMAIN <<>> = {} /\ Len(<<>>) = 0
  OBVIOUS
<1>2. /\ buffer = <<>>
      /\ \A r \in Requests : /\ wire[r] = <<>> /\ hops[r] = <<>>
                             /\ chain[r].entries = <<>> /\ chain[r].afterCutoff = FALSE
  BY DEF Init
<1>3. ASSUME NEW r \in Requests PROVE FlightsOf(r) = {} /\ Last(chain[r]) = 0 /\ Len(hops[r]) = 0
  <2>1. DOMAIN buffer = {} /\ DOMAIN wire[r] = {}
    BY <1>0, <1>2
  <2>2. FlightsOf(r) = {}
    BY <2>1 DEF FlightsOf, Flights, Flying
  <2>3. Last(chain[r]) = 0 /\ Len(hops[r]) = 0
    BY <1>0, <1>2 DEF Last
  <2> QED
    BY <2>2, <2>3
<1>4. \A r \in Requests : \A n \in (0 + 1) .. 0 : FALSE
  OBVIOUS
<1>5. ASSUME NEW r \in Requests
      PROVE  /\ Flow(FlightsOf(r), OrdersOf(r), chain[r], hops[r], stage[r], Late)
             /\ Faithful(chain[r], hops[r], stage[r])
  BY <1>2, <1>3, <1>4 DEF Flow, Complete, Faithful
<1>6. FlowInv
  <2>1. ASSUME NEW r \in Requests PROVE \A p \in DOMAIN wire[r] : wire[r][p] \in Base
    BY <1>0, <1>2
  <2>2. ASSUME NEW r \in Requests
        PROVE  /\ Flow(Flights(buffer, wire[r], r), Orders(buffer, wire[r], r),
                       chain[r], hops[r], stage[r], Late)
               /\ Faithful(chain[r], hops[r], stage[r])
    BY <1>5 DEF FlightsOf, OrdersOf
  <2> QED
    BY <2>1, <2>2 DEF FlowInv
<1>7. CutoffInv /\ TasksInv
  BY DEF Init, CutoffInv, TasksInv
<1> QED
  BY <1>1, <1>6, <1>7 DEF Inv

LEMMA InvAlways == Spec => []Inv
BY InvInit, InvSteps, PTL DEF Spec

(***************************************************************************)
(* Every hop up to the cutoff has one entry, in order, with its own        *)
(* response, and a hop after the cutoff has none, however the base events  *)
(* are delayed and whether they are buffered while the cutoff is read.     *)
(***************************************************************************)
THEOREM HopsHaveTheirEntries == Spec => []OneEntryPerHop
<1>1. Inv => OneEntryPerHop
  <2> SUFFICES ASSUME Inv, NEW r \in Requests, NEW i \in DOMAIN chain[r].entries
               PROVE  /\ chain[r].entries[i].hop = i /\ ~hops[r][i].late
                      /\ chain[r].entries[i].response \in {0, i}
    BY DEF OneEntryPerHop
  <2>1. i \in 1 .. Last(chain[r])
    BY ChainParts DEF Inv, Stable, TypesInv
  <2> QED
    BY <2>1 DEF Inv, FlowInv, Faithful, Sound
<1> QED
  BY <1>1, InvAlways, PTL

(***************************************************************************)
(* An entry said to come from the cache is that of a hop which did: a      *)
(* cache hit, an event without a time, is not taken for one of the last    *)
(* hop recorded when it is one of a request sent after the cutoff.         *)
(***************************************************************************)
THEOREM CachedHopsWere == Spec => []CacheHitsAreTrue
<1>1. Inv => CacheHitsAreTrue
  <2> SUFFICES ASSUME Inv, NEW r \in Requests, NEW i \in DOMAIN chain[r].entries,
                      chain[r].entries[i].cached
               PROVE  hops[r][i].cached
    BY DEF CacheHitsAreTrue
  <2>1. i \in 1 .. Last(chain[r])
    BY ChainParts DEF Inv, Stable, TypesInv
  <2> QED
    BY <2>1 DEF Inv, FlowInv, Faithful, Sound
<1> QED
  BY <1>1, InvAlways, PTL

(***************************************************************************)
(* The body of an entry is that of its own hop, although it is fetched     *)
(* later and by the identifier that all hops of the request share: only    *)
(* for the last hop is a fetch ever scheduled, and only once it is over.   *)
(***************************************************************************)
THEOREM BodiesAreNotConfused == Spec => []BodiesAreTheirOwn
<1>1. Inv => BodiesAreTheirOwn
  <2> SUFFICES ASSUME Inv, NEW r \in Requests, NEW i \in DOMAIN chain[r].entries
               PROVE  chain[r].entries[i].body \in {0, i}
    BY DEF BodiesAreTheirOwn
  <2>1. i \in 1 .. Last(chain[r])
    BY ChainParts DEF Inv, Stable, TypesInv
  <2> QED
    BY <2>1 DEF Inv, FlowInv, Faithful, Sound
<1> QED
  BY <1>1, InvAlways, PTL

-----------------------------------------------------------------------------
(* Supplemental events waiting.                                            *)

LEMMA PositionsAreNumbers ==
  /\ \A n \in Positions : n \in Nat /\ n >= 1 /\ n <= MaxHops
  /\ \A e \in Event : e.hop \in Positions
BY ConstantsAssumption DEF Positions, Event

\* The first of those that q keeps is taken.
LEMMA FirstTaken ==
  ASSUME NEW q \in Seq(Positions), q # <<>>, NEW b, NEW r, NEW x, Ordered(q, b, r, x),
         \A p \in Buffered(b, r, x) : b[p][2].hop \in Positions
  PROVE  /\ Tail(q) \in Seq(Positions) /\ Ordered(Tail(q), b, r, x)
         /\ q[1] \in Waiting(q, b, r, x)
         /\ \A n \in Waiting(q, b, r, x) : q[1] <= n
         /\ \A n \in Positions : n \in Waiting(Tail(q), b, r, x) <=>
                                   n \in Waiting(q, b, r, x) /\ n # q[1]
<1> DEFINE t == Tail(q)
<1>1. /\ t \in Seq(Positions) /\ 1 \in DOMAIN q /\ q[1] \in Positions
      /\ \A p \in DOMAIN t : p \in Nat /\ p > 0 /\ p + 1 \in DOMAIN q /\ t[p] = q[p + 1]
      /\ \A p \in DOMAIN q : p \in Nat /\ p >= 1 /\ (p # 1 => p - 1 \in DOMAIN t /\ t[p - 1] = q[p])
      /\ \A p \in DOMAIN q : q[p] \in Positions
  <2>1. \A p \in DOMAIN q : q[p] \in Positions /\ p >= 1
    BY ElementOfSeq, LenProperties
  <2> QED
    BY <2>1, Tailed
<1> HIDE DEF t
<1>2. \A p \in DOMAIN q : p # 1 => q[1] < q[p]
  BY <1>1 DEF Ordered
<1>3. \A p \in Buffered(b, r, x) : q[1] < b[p][2].hop
  BY <1>1 DEF Ordered
<1>4. \A n \in Positions : n \in Nat
  BY PositionsAreNumbers
<1>5. Ordered(t, b, r, x)
  <2>1. \A i, j \in DOMAIN t : i < j => t[i] < t[j]
    <3> SUFFICES ASSUME NEW i \in DOMAIN t, NEW j \in DOMAIN t, i < j PROVE t[i] < t[j]
      OBVIOUS
    <3>1. i + 1 \in DOMAIN q /\ j + 1 \in DOMAIN q /\ i + 1 < j + 1 /\ t[i] = q[i + 1] /\ t[j] = q[j + 1]
      BY <1>1
    <3> QED
      BY <3>1 DEF Ordered
  <2>2. \A i \in DOMAIN t, p \in Buffered(b, r, x) : t[i] < b[p][2].hop
    BY <1>1 DEF Ordered
  <2> QED
    BY <2>1, <2>2 DEF Ordered
<1>6. q[1] \in Waiting(q, b, r, x)
  BY <1>1 DEF Waiting
<1>7. \A n \in Waiting(q, b, r, x) : q[1] <= n
  <2> SUFFICES ASSUME NEW n \in Waiting(q, b, r, x) PROVE q[1] <= n
    OBVIOUS
  <2>1. n \in Nat /\ q[1] \in Nat
    BY <1>1, <1>4 DEF Waiting
  <2>2. n = q[1] \/ q[1] < n
    BY <1>1, <1>2, <1>3 DEF Waiting
  <2> QED
    BY <2>1, <2>2
<1>8. ASSUME NEW n \in Positions
      PROVE  n \in Waiting(t, b, r, x) <=> n \in Waiting(q, b, r, x) /\ n # q[1]
  <2>1. ASSUME n \in Waiting(t, b, r, x) PROVE n \in Waiting(q, b, r, x) /\ n # q[1]
    <3>1. CASE \E p \in Buffered(b, r, x) : b[p][2].hop = n
      BY <1>1, <1>3, <1>4, <3>1 DEF Waiting
    <3>2. CASE \E i \in DOMAIN t : t[i] = n
      <4>1. PICK i \in DOMAIN t : t[i] = n
        BY <3>2
      <4>2. i + 1 \in DOMAIN q /\ i + 1 # 1 /\ q[i + 1] = n
        BY <1>1, <4>1
      <4>3. n \in Waiting(q, b, r, x)
        BY <4>2 DEF Waiting
      <4>4. q[1] < n /\ q[1] \in Nat /\ n \in Nat
        BY <1>1, <1>2, <1>4, <4>2
      <4> QED
        BY <4>3, <4>4
    <3> QED
      BY <2>1, <3>1, <3>2 DEF Waiting
  <2>2. ASSUME n \in Waiting(q, b, r, x), n # q[1] PROVE n \in Waiting(t, b, r, x)
    BY <1>1, <2>2 DEF Waiting
  <2> QED
    BY <2>1, <2>2
<1> QED
  BY <1>1, <1>5, <1>6, <1>7, <1>8 DEF t

\* The first one buffered is kept.
LEMMA Kept ==
  ASSUME NEW q \in Seq(Positions), NEW b \in Seq(Requests \X Event), b # <<>>, NEW r, NEW x,
         Head(b)[1] = r, Head(b)[2].type = x, Ordered(q, b, r, x)
  PROVE  LET q2 == Append(q, Head(b)[2].hop) IN
         /\ Ordered(q2, Tail(b), r, x) /\ Waiting(q2, Tail(b), r, x) = Waiting(q, b, r, x)
<1> DEFINE v == Tail(b)
           h == Head(b)[2].hop
           a == Append(q, h)
           n == Len(q) + 1
<1>1. /\ 1 \in DOMAIN b /\ b[1] = Head(b) /\ Head(b) \in Requests \X Event
      /\ \A p \in DOMAIN v : p \in Nat /\ p > 0 /\ p + 1 \in DOMAIN b /\ v[p] = b[p + 1]
      /\ \A p \in DOMAIN b : p \in Nat /\ (p # 1 => p - 1 \in DOMAIN v /\ v[p - 1] = b[p])
  BY Tailed
<1>2. h \in Positions
  BY <1>1, PositionsAreNumbers
<1>3. /\ a[n] = h /\ n \in DOMAIN a /\ n \in Nat
      /\ \A p \in DOMAIN q : p \in DOMAIN a /\ a[p] = q[p] /\ p < n /\ p \in Nat
      /\ \A p \in DOMAIN a : p \in DOMAIN q \/ p = n
  BY <1>2, Appended
<1>4. 1 \in Buffered(b, r, x) /\ b[1][2].hop = h
  BY <1>1 DEF Buffered
<1> HIDE DEF v, h, a, n
<1>5. \A p \in Buffered(v, r, x) :
        p \in Nat /\ p > 0 /\ p + 1 \in Buffered(b, r, x) /\ v[p] = b[p + 1]
  BY <1>1 DEF Buffered
<1>6. \A p \in Buffered(b, r, x) : p # 1 => p - 1 \in Buffered(v, r, x) /\ v[p - 1] = b[p]
  BY <1>1 DEF Buffered
<1>7. Ordered(a, v, r, x)
  <2>1. \A i, j \in DOMAIN a : i < j => a[i] < a[j]
    <3> SUFFICES ASSUME NEW i \in DOMAIN a, NEW j \in DOMAIN a, i < j PROVE a[i] < a[j]
      OBVIOUS
    <3>1. i \in DOMAIN q
      BY <1>3
    <3>2. CASE j \in DOMAIN q
      BY <1>3, <3>1, <3>2 DEF Ordered
    <3>3. CASE j = n
      BY <1>3, <1>4, <3>1, <3>3 DEF Ordered
    <3> QED
      BY <1>3, <3>2, <3>3
  <2>2. \A i \in DOMAIN a, p \in Buffered(v, r, x) : a[i] < v[p][2].hop
    <3> SUFFICES ASSUME NEW i \in DOMAIN a, NEW p \in Buffered(v, r, x) PROVE a[i] < v[p][2].hop
      OBVIOUS
    <3>1. p \in Nat /\ p > 0 /\ 1 < p + 1 /\ p + 1 \in Buffered(b, r, x) /\ v[p] = b[p + 1]
      BY <1>5
    <3>2. CASE i \in DOMAIN q
      BY <1>3, <3>1, <3>2 DEF Ordered
    <3>3. CASE i = n
      BY <1>3, <1>4, <3>1, <3>3 DEF Ordered
    <3> QED
      BY <1>3, <3>2, <3>3
  <2>3. \A o, p \in Buffered(v, r, x) : o < p => v[o][2].hop < v[p][2].hop
    <3> SUFFICES ASSUME NEW o \in Buffered(v, r, x), NEW p \in Buffered(v, r, x), o < p
                 PROVE  v[o][2].hop < v[p][2].hop
      OBVIOUS
    <3>1. /\ o + 1 \in Buffered(b, r, x) /\ p + 1 \in Buffered(b, r, x) /\ o + 1 < p + 1
          /\ v[o] = b[o + 1] /\ v[p] = b[p + 1]
      BY <1>5
    <3> QED
      BY <3>1 DEF Ordered
  <2> QED
    BY <2>1, <2>2, <2>3 DEF Ordered
<1>8. ASSUME NEW m \in Positions PROVE m \in Waiting(a, v, r, x) <=> m \in Waiting(q, b, r, x)
  <2>1. (\E i \in DOMAIN a : a[i] = m) <=> (\E i \in DOMAIN q : q[i] = m) \/ m = h
    BY <1>3
  <2>2. (\E p \in Buffered(b, r, x) : b[p][2].hop = m) <=>
          (\E p \in Buffered(v, r, x) : v[p][2].hop = m) \/ m = h
    <3>1. ASSUME NEW p \in Buffered(b, r, x), b[p][2].hop = m
          PROVE  (\E o \in Buffered(v, r, x) : v[o][2].hop = m) \/ m = h
      <4>1. CASE p = 1
        BY <1>4, <3>1, <4>1
      <4>2. CASE p # 1
        <5>1. p - 1 \in Buffered(v, r, x) /\ v[p - 1] = b[p]
          BY <1>6, <4>2
        <5> QED
          BY <3>1, <5>1
      <4> QED
        BY <4>1, <4>2
    <3>2. ASSUME NEW p \in Buffered(v, r, x), v[p][2].hop = m
          PROVE  \E o \in Buffered(b, r, x) : b[o][2].hop = m
      <4>1. p + 1 \in Buffered(b, r, x) /\ v[p] = b[p + 1]
        BY <1>5
      <4> QED
        BY <3>2, <4>1
    <3> QED
      BY <1>4, <3>1, <3>2
  <2> QED
    BY <2>1, <2>2 DEF Waiting
<1>9. Waiting(a, v, r, x) = Waiting(q, b, r, x)
  BY <1>8 DEF Waiting
<1> QED
  BY <1>7, <1>9 DEF a, v, h

\* The first one buffered is of another request or kind.
LEMMA OtherTaken ==
  ASSUME NEW q, NEW b \in Seq(Requests \X Event), b # <<>>, NEW r, NEW x,
         Head(b)[1] # r \/ Head(b)[2].type # x, Ordered(q, b, r, x)
  PROVE  Ordered(q, Tail(b), r, x) /\ Waiting(q, Tail(b), r, x) = Waiting(q, b, r, x)
<1> DEFINE v == Tail(b)
<1>1. /\ 1 \in DOMAIN b /\ b[1] = Head(b)
      /\ \A p \in DOMAIN v : p \in Nat /\ p > 0 /\ p + 1 \in DOMAIN b /\ v[p] = b[p + 1]
      /\ \A p \in DOMAIN b : p \in Nat /\ (p # 1 => p - 1 \in DOMAIN v /\ v[p - 1] = b[p])
  BY Tailed
<1> HIDE DEF v
<1>2. \A p \in Buffered(v, r, x) : p \in Nat /\ p + 1 \in Buffered(b, r, x) /\ v[p] = b[p + 1]
  BY <1>1 DEF Buffered
<1>3. \A p \in Buffered(b, r, x) : p - 1 \in Buffered(v, r, x) /\ v[p - 1] = b[p]
  BY <1>1 DEF Buffered
<1>4. Ordered(q, v, r, x)
  <2>1. \A i \in DOMAIN q, p \in Buffered(v, r, x) : q[i] < v[p][2].hop
    BY <1>2 DEF Ordered
  <2>2. \A o, p \in Buffered(v, r, x) : o < p => v[o][2].hop < v[p][2].hop
    <3> SUFFICES ASSUME NEW o \in Buffered(v, r, x), NEW p \in Buffered(v, r, x), o < p
                 PROVE  v[o][2].hop < v[p][2].hop
      OBVIOUS
    <3>1. /\ o + 1 \in Buffered(b, r, x) /\ p + 1 \in Buffered(b, r, x) /\ o + 1 < p + 1
          /\ v[o] = b[o + 1] /\ v[p] = b[p + 1]
      BY <1>2
    <3> QED
      BY <3>1 DEF Ordered
  <2> QED
    BY <2>1, <2>2 DEF Ordered
<1>5. \A m \in Positions : m \in Waiting(q, v, r, x) <=> m \in Waiting(q, b, r, x)
  BY <1>2, <1>3 DEF Waiting
<1> QED
  BY <1>4, <1>5 DEF v, Waiting

\* One more is buffered, of a later hop than all those waiting.
LEMMA NextBuffered ==
  ASSUME NEW q \in Seq(Positions), NEW b \in Seq(Requests \X Event), NEW r \in Requests,
         NEW e \in Event, Ordered(q, b, r, e.type),
         \A n \in Waiting(q, b, r, e.type) : n < e.hop
  PROVE  LET b2 == Append(b, <<r, e>>) IN
         /\ Ordered(q, b2, r, e.type)
         /\ \A n \in Positions : n \in Waiting(q, b2, r, e.type) <=>
                                   n \in Waiting(q, b, r, e.type) \/ n = e.hop
<1> DEFINE a == <<r, e>>
           x == e.type
           v == Append(b, a)
           n == Len(b) + 1
<1>1. /\ v[n] = a /\ n \in DOMAIN v /\ n \in Nat
      /\ \A p \in DOMAIN b : p \in DOMAIN v /\ v[p] = b[p] /\ p < n /\ p \in Nat
      /\ \A p \in DOMAIN v : p \in DOMAIN b \/ p = n
  <2>1. a \in Requests \X Event
    OBVIOUS
  <2> QED
    BY <2>1, Appended
<1>2. a[1] = r /\ a[2] = e /\ e.hop \in Positions
  BY PositionsAreNumbers
<1> HIDE DEF a, v, n, x
<1>3. /\ \A p \in Buffered(b, r, x) : p \in Buffered(v, r, x) /\ v[p] = b[p] /\ p < n /\ p \in Nat
      /\ \A p \in Buffered(v, r, x) : p \in Buffered(b, r, x) \/ p = n
      /\ n \in Buffered(v, r, x) /\ v[n][2].hop = e.hop
  BY <1>1, <1>2 DEF Buffered, x
<1>4. \A p \in DOMAIN b : b[p][2].hop \in Positions
  <2>1. \A p \in DOMAIN b : b[p] \in Requests \X Event
    BY ElementOfSeq
  <2> QED
    BY <2>1, PositionsAreNumbers
<1>5. /\ \A i \in DOMAIN q : q[i] < e.hop
      /\ \A p \in Buffered(b, r, x) : b[p][2].hop < e.hop
  <2>1. \A i \in DOMAIN q : q[i] \in Positions
    BY ElementOfSeq
  <2> QED
    BY <1>4, <2>1 DEF Waiting, Buffered, x
<1>6. Ordered(q, v, r, x)
  <2>1. \A i \in DOMAIN q, p \in Buffered(v, r, x) : q[i] < v[p][2].hop
    BY <1>3, <1>5 DEF Ordered, x
  <2>2. \A o, p \in Buffered(v, r, x) : o < p => v[o][2].hop < v[p][2].hop
    <3> SUFFICES ASSUME NEW o \in Buffered(v, r, x), NEW p \in Buffered(v, r, x), o < p
                 PROVE  v[o][2].hop < v[p][2].hop
      OBVIOUS
    <3>1. o \in Buffered(b, r, x)
      BY <1>1, <1>3
    <3> QED
      BY <1>3, <1>5, <3>1 DEF Ordered, x
  <2>3. \A i, j \in DOMAIN q : i < j => q[i] < q[j]
    BY DEF Ordered
  <2> QED
    BY <2>1, <2>2, <2>3 DEF Ordered
<1>7. \A m \in Positions : m \in Waiting(q, v, r, x) <=> m \in Waiting(q, b, r, x) \/ m = e.hop
  BY <1>3 DEF Waiting
<1> QED
  BY <1>6, <1>7 DEF v, a, x

\* One of another request or kind is buffered.
LEMMA OtherBuffered ==
  ASSUME NEW q, NEW b \in Seq(Requests \X Event), NEW r, NEW x, NEW s \in Requests,
         NEW e \in Event, s # r \/ e.type # x, Ordered(q, b, r, x)
  PROVE  LET b2 == Append(b, <<s, e>>) IN
         Ordered(q, b2, r, x) /\ Waiting(q, b2, r, x) = Waiting(q, b, r, x)
<1> DEFINE a == <<s, e>>
           v == Append(b, a)
           n == Len(b) + 1
<1>1. /\ v[n] = a /\ n \in DOMAIN v
      /\ \A p \in DOMAIN b : p \in DOMAIN v /\ v[p] = b[p] /\ p < n /\ p \in Nat
      /\ \A p \in DOMAIN v : p \in DOMAIN b \/ p = n
  <2>1. a \in Requests \X Event
    OBVIOUS
  <2> QED
    BY <2>1, Appended
<1>2. a[1] = s /\ a[2] = e
  OBVIOUS
<1> HIDE DEF a, v, n
<1>3. /\ Buffered(v, r, x) = Buffered(b, r, x)
      /\ \A p \in Buffered(b, r, x) : v[p] = b[p]
  BY <1>1, <1>2 DEF Buffered
<1>4. Ordered(q, v, r, x)
  BY <1>3 DEF Ordered
<1>5. \A m \in Positions : m \in Waiting(q, v, r, x) <=> m \in Waiting(q, b, r, x)
  BY <1>3 DEF Waiting
<1> QED
  BY <1>4, <1>5 DEF v, a, Waiting

-----------------------------------------------------------------------------
(* What the handling of an event makes of those waiting.                   *)

\* d has the entries of c, with the same supplemental events, and perhaps more
\* entries, without any.
Alike(c, d, x) ==
  /\ Last(c) <= Last(d)
  /\ \A i \in 1 .. Last(d) :
       d.entries[i].extra[x] = IF i <= Last(c) THEN c.entries[i].extra[x] ELSE 0
\* The entries of c that are known to have events, or not, are of such hops.
Informed(c, hs) ==
  /\ Last(c) <= Len(hs)
  /\ \A i \in 1 .. Last(c) :
       /\ c.entries[i].known /\ c.entries[i].end # "failed" =>
            c.entries[i].expected = hs[i].extra
       /\ c.entries[i].end = "failed" => i = Len(hs)
\* d is c once reconciled, or c itself.
Reconciles(c, d, x) ==
  /\ AsBefore(d, c) /\ (c.entries # <<>> => c.orphans = None)
  /\ Leaves(c, d, x) \/ \E i \in Awaiting(c, x) : Assigns(c, d, x, i)

LEMMA AlikeQueues ==
  ASSUME NEW c \in Chain, NEW d \in Chain, NEW x \in Extras, Alike(c, d, x),
         NEW q, NEW hs, NEW last \in Nat, NEW b, NEW r, Queue(q, c, hs, last, b, r, x)
  PROVE  Queue(q, d, hs, last, b, r, x)
<1>1. Last(c) \in Nat /\ Last(d) \in Nat
  BY ChainParts
<1>2. ASSUME NEW i \in 1 .. Last(d)
      PROVE  d.entries[i].extra[x] \in {0, i} /\ d.entries[i].extra[x] <= last
  <2>1. CASE i <= Last(c)
    <3>1. i \in 1 .. Last(c)
      BY <1>1, <2>1
    <3> QED
      BY <2>1, <3>1 DEF Alike, Queue
  <2>2. CASE ~(i <= Last(c))
    BY <2>2 DEF Alike
  <2> QED
    BY <2>1, <2>2
<1>3. ASSUME NEW n \in Positions PROVE Unassigned(d, x, n) <=> Unassigned(c, x, n)
  <2>1. n \in Nat /\ n >= 1
    BY PositionsAreNumbers
  <2> QED
    BY <1>1, <2>1 DEF Unassigned, Alike
<1> QED
  BY <1>2, <1>3 DEF Queue


\* The event assigned is the one of its entry.
LEMMA AssignedIsOwn ==
  ASSUME NEW c \in Chain, NEW d \in Chain, NEW x \in Extras, AsBefore(d, c),
         NEW i \in Awaiting(c, x), Assigns(c, d, x, i),
         NEW hs, Len(hs) \in Nat, Informed(d, hs),
         NEW last \in Nat, NEW b, NEW r, Queue(c.pending[x], c, hs, last, b, r, x),
         \A p \in Buffered(b, r, x) : b[p][2].hop \in Positions
  PROVE  c.pending[x][1] = i
<1> DEFINE q == c.pending[x]
           h == q[1]
<1>1. /\ q \in Seq(Positions) /\ Last(c) \in Nat /\ Last(d) = Last(c)
      /\ i \in 1 .. Last(c) /\ Awaiting(c, x) \subseteq 1 .. Last(c)
  BY ChainParts DEF AsBefore
<1>2. q # <<>> /\ \A j \in Awaiting(c, x) : i <= j
  BY DEF Assigns
<1>3. h \in Waiting(q, b, r, x) /\ \A n \in Waiting(q, b, r, x) : h <= n
  BY <1>1, <1>2, FirstTaken DEF Queue
<1>4. h \in Positions /\ h \in Nat /\ h >= 1 /\ h <= MaxHops
  BY <1>3, PositionsAreNumbers DEF Waiting
<1>5. h <= last /\ hs[h].extra /\ Unassigned(c, x, h) /\ last <= Len(hs)
  BY <1>3, <1>4 DEF Queue
<1>6. Last(c) <= Len(hs)
  BY <1>1 DEF Informed
<1> HIDE DEF q, h
<1>7. /\ \A j \in 1 .. i : j \in 1 .. Last(c) /\ c.entries[j].known
      /\ c.entries[i].expected /\ c.entries[i].extra[x] = 0
  BY <1>1 DEF Awaiting
<1>8. \A j \in 1 .. Last(c) :
        /\ c.entries[j].known /\ c.entries[j].end # "failed" => c.entries[j].expected = hs[j].extra
        /\ c.entries[j].end = "failed" => j = Len(hs)
  BY <1>1 DEF Informed, AsBefore, SameFields
<1>9. ~(h < i)
  <2> SUFFICES ASSUME h < i PROVE FALSE
    OBVIOUS
  <2>1. /\ h \in 1 .. i /\ h \in 1 .. Last(c) /\ h # Len(hs)
        /\ \A j \in 1 .. h : j \in 1 .. i
    BY <1>1, <1>4, <1>6
  <2>2. c.entries[h].expected /\ c.entries[h].extra[x] = 0
    BY <1>5, <1>7, <1>8, <2>1 DEF Unassigned
  <2>3. h \in DOMAIN c.entries
    BY <2>1, ChainParts
  <2>4. h \in Awaiting(c, x)
    BY <1>7, <2>1, <2>2, <2>3 DEF Awaiting
  <2> QED
    BY <1>1, <1>2, <1>4, <2>4
<1>10. ~(i < h)
  <2> SUFFICES ASSUME i < h PROVE FALSE
    OBVIOUS
  <2>1. i # Len(hs) /\ i <= last /\ i \in Positions
    <3>1. i \in Nat /\ i >= 1
      BY <1>1
    <3>2. i # Len(hs) /\ i <= last /\ i <= MaxHops
      BY <1>4, <1>5, <3>1, ConstantsAssumption
    <3> QED
      BY <3>1, <3>2, ConstantsAssumption DEF Positions
  <2>2. i \in 1 .. i
    BY <1>1
  <2>3. hs[i].extra
    BY <1>1, <1>7, <1>8, <2>1, <2>2
  <2>4. i \in Waiting(q, b, r, x)
    BY <1>7, <2>1, <2>3 DEF Queue, Unassigned, q
  <2> QED
    BY <1>1, <1>3, <1>4, <2>4
<1>11. h = i
  BY <1>1, <1>4, <1>9, <1>10
<1> QED
  BY <1>11 DEF h, q

LEMMA ReconciledQueues ==
  ASSUME NEW c \in Chain, NEW d \in Chain, NEW x \in Extras, Reconciles(c, d, x),
         NEW hs, Len(hs) \in Nat, Informed(d, hs),
         NEW last \in Nat, NEW b, NEW r, Queue(Queued(c, x), c, hs, last, b, r, x),
         \A p \in Buffered(b, r, x) : b[p][2].hop \in Positions
  PROVE  Queue(Queued(d, x), d, hs, last, b, r, x)
<1>1. Last(d) = Last(c) /\ Last(c) \in Nat /\ d.orphans = c.orphans
  BY ChainParts DEF Reconciles, AsBefore
<1>2. CASE Leaves(c, d, x)
  <2>1. Alike(c, d, x)
    BY <1>1, <1>2 DEF Alike, Leaves
  <2>2. Queued(d, x) = Queued(c, x)
    BY <1>1, <1>2 DEF Leaves, Queued
  <2> QED
    BY <2>1, <2>2, AlikeQueues
<1>3. ASSUME NEW i \in Awaiting(c, x), Assigns(c, d, x, i)
      PROVE  Queue(Queued(d, x), d, hs, last, b, r, x)
  <2>1. i \in 1 .. Last(c) /\ c.pending[x] # <<>>
    BY <1>3, ChainParts DEF Assigns
  <2>2. c.pending[x] \in Seq(Positions) /\ d.pending[x] = Tail(c.pending[x])
    BY <1>3, ChainParts DEF Assigns
  <2>3. Tail(c.pending[x]) \in Seq(Positions)
    BY <2>1, <2>2, HeadTailProperties
  <2>4. c.orphans = None
    <3>1. c.entries # <<>>
      BY <1>1, <2>1, ChainParts
    <3> QED
      BY <3>1 DEF Reconciles
  <2>5. c.orphans[x] = <<>> /\ d.orphans[x] = <<>>
    BY <1>1, <2>4 DEF None
  <2>6. Queued(c, x) = c.pending[x] /\ Queued(d, x) = Tail(c.pending[x])
    BY <2>2, <2>3, <2>5 DEF Queued
  <2> DEFINE q == c.pending[x]
  <2>7. Queue(q, c, hs, last, b, r, x)
    BY <2>6
  <2>8. q[1] = i
    <3>1. AsBefore(d, c)
      BY DEF Reconciles
    <3>2. Queue(c.pending[x], c, hs, last, b, r, x)
      BY <2>7
    <3>3. c.pending[x][1] = i
      BY <1>3, <3>1, <3>2, AssignedIsOwn
    <3> QED
      BY <3>3
  <2>9. /\ Ordered(Tail(q), b, r, x) /\ q[1] \in Waiting(q, b, r, x)
        /\ \A n \in Positions : n \in Waiting(Tail(q), b, r, x) <=>
                                   n \in Waiting(q, b, r, x) /\ n # q[1]
    BY <2>1, <2>2, <2>7, FirstTaken DEF Queue
  <2> HIDE DEF q
  <2>10. i \in Positions /\ i <= last
    BY <2>7, <2>8, <2>9 DEF Queue, Waiting
  <2>11. /\ d.entries[i].extra[x] = i
         /\ \A j \in 1 .. Last(c) : j # i => d.entries[j].extra[x] = c.entries[j].extra[x]
    BY <1>3, <2>8 DEF Assigns, q
  <2>12. \A j \in 1 .. Last(d) : d.entries[j].extra[x] \in {0, j} /\ d.entries[j].extra[x] <= last
    BY <1>1, <2>7, <2>10, <2>11 DEF Queue
  <2>13. ASSUME NEW n \in Positions
         PROVE  Unassigned(d, x, n) <=> Unassigned(c, x, n) /\ n # i
    <3>1. i # 0
      BY <1>1, <2>1
    <3> QED
      BY <1>1, <2>1, <2>11, <3>1 DEF Unassigned
  <2>14. Queue(Tail(q), d, hs, last, b, r, x)
    <3>1. \A n \in Positions : n \in Waiting(Tail(q), b, r, x) <=>
                                 n <= last /\ hs[n].extra /\ Unassigned(d, x, n)
      BY <2>7, <2>8, <2>9, <2>13 DEF Queue
    <3> QED
      BY <2>7, <2>9, <2>12, <3>1 DEF Queue
  <2> QED
    BY <2>6, <2>14 DEF q
<1> QED
  BY <1>2, <1>3 DEF Reconciles

\* With e, those that c keeps for later.
Coming(c, e, x) == IF e.type = x THEN Append(Queued(c, x), e.hop) ELSE Queued(c, x)

LEMMA ConcatAppended ==
  ASSUME NEW S, NEW p \in Seq(S), NEW o \in Seq(S), NEW h \in S
  PROVE  p \o Append(o, h) = Append(p \o o, h) /\ p \o <<>> = p
<1>1. <<h>> \in Seq(S) /\ p \o o \in Seq(S)
  OBVIOUS
<1>2. Append(o, h) = o \o <<h>> /\ Append(p \o o, h) = (p \o o) \o <<h>>
  BY <1>1, AppendIsConcat
<1>3. (p \o o) \o <<h>> = p \o (o \o <<h>>)
  BY <1>1, ConcatAssociative
<1> QED
  BY <1>2, <1>3

\* The current entry is changed, then perhaps reconciled.
LEMMA ChangedQueues ==
  ASSUME NEW c \in Chain, Settled(c), c.entries # <<>>, NEW x \in Extras,
         NEW entry \in Entry, entry.extra = Cur(c).extra,
         NEW d \in {Set(c, entry), Reconciled(Set(c, entry))},
         NEW hs, Len(hs) \in Nat, Informed(d, hs),
         NEW last \in Nat, NEW b, NEW r, Queue(Queued(c, x), c, hs, last, b, r, x),
         \A p \in Buffered(b, r, x) : b[p][2].hop \in Positions
  PROVE  Queue(Queued(d, x), d, hs, last, b, r, x)
<1> DEFINE c1 == Set(c, entry)
<1>1. /\ c1 \in Chain /\ Last(c1) = Last(c) /\ c1.pending = c.pending /\ c1.orphans = c.orphans
      /\ c.orphans = None /\ Last(c) \in Nat
  BY SetParts, ChainParts DEF Settled
<1>2. Touched(c, c1)
  BY SetTouches
<1>3. Step1(c1, Reconciled(c1))
  BY <1>2, TouchedSettles
<1> HIDE DEF c1
<1>4. Alike(c, c1, x) /\ Queued(c1, x) = Queued(c, x)
  BY <1>1, <1>2 DEF Alike, Queued, Touched
<1>5. Queue(Queued(c1, x), c1, hs, last, b, r, x)
  BY <1>1, <1>4, AlikeQueues
<1>6. CASE d = Reconciled(c1)
  <2>1. Reconciles(c1, d, x) /\ d \in Chain
    BY <1>1, <1>3, <1>6 DEF Step1, Reconciles
  <2> QED
    BY <1>1, <1>5, <2>1, ReconciledQueues
<1>7. CASE d = c1
  BY <1>5, <1>7
<1> QED
  BY <1>6, <1>7 DEF c1

LEMMA RecordedCurrent ==
  ASSUME NEW c \in Chain, c.entries # <<>>, NEW e \in Event, e.type \notin Starts \cup Extras
  PROVE  \E entry \in Entry : /\ entry.extra = Cur(c).extra
                              /\ Recorded(c, e) \in {Set(c, entry), Reconciled(Set(c, entry))}
<1>1. Cur(c) \in Entry /\ e.extra \in BOOLEAN
  BY CurIn DEF Event
<1>2. CASE e.type = "cache"
  <2>1. CachedEntry(Cur(c)) \in Entry /\ CachedEntry(Cur(c)).extra = Cur(c).extra
    BY <1>1, EntryChanges DEF Ends
  <2>2. Recorded(c, e) = Set(c, CachedEntry(Cur(c)))
    BY <1>2, RecordedIs
  <2> QED
    BY <2>1, <2>2
<1>3. CASE e.type = "response"
  <2> DEFINE new == Told(Responded(Cur(c), e), e.extra)
  <2>1. Responded(Cur(c), e) \in Entry /\ Responded(Cur(c), e).extra = Cur(c).extra
    BY <1>1, EntryChanges DEF Ends
  <2>2. new \in Entry /\ new.extra = Cur(c).extra
    BY <1>1, <2>1 DEF Told, Entry
  <2>3. Recorded(c, e) = Reconciled(Set(c, new))
    BY <1>3, RecordedIs
  <2> HIDE DEF new
  <2> QED
    BY <2>2, <2>3
<1>4. CASE e.type \in Ends
  <2> DEFINE entry == Ended(Cur(c), e.type)
             told == Told(entry, TRUE)
  <2>1. entry \in Entry /\ entry.extra = Cur(c).extra
    BY <1>1, <1>4 DEF Ended, Entry, Ends
  <2>2. told \in Entry /\ told.extra = Cur(c).extra
    BY <2>1 DEF Told, Entry
  <2>3. Recorded(c, e) = Set(c, entry) \/ Recorded(c, e) = Reconciled(Set(c, told))
    BY <1>4, RecordedIs, LoadingFailedIs DEF Ends
  <2> HIDE DEF entry, told
  <2> QED
    BY <2>1, <2>2, <2>3
<1> QED
  BY <1>2, <1>3, <1>4 DEF Event, Types, Starts, Ends

LEMMA NewHopQueues ==
  ASSUME NEW c \in Chain, NEW x \in Extras, NEW e, e.hop \in Positions,
         NEW hs, NEW last \in Nat, NEW b, NEW r, Queue(Queued(c, x), c, hs, last, b, r, x)
  PROVE  LET d == NewHop(c, e) IN
         /\ Queue(Queued(d, x), d, hs, last, b, r, x)
         /\ Informed(d, hs) /\ Len(hs) \in Nat => Informed(c, hs)
<1> DEFINE d == NewHop(c, e)
<1>1. /\ d \in Chain /\ Last(d) = Last(c) + 1 /\ Last(c) \in Nat
      /\ \A i \in 1 .. Last(c) : d.entries[i] = c.entries[i]
      /\ d.entries[Last(c) + 1] = NewEntry(e.hop)
      /\ d.pending = c.pending /\ d.orphans = c.orphans
  BY NewHopParts, ChainParts
<1> HIDE DEF d
<1>2. NewEntry(e.hop).extra[x] = 0
  BY DEF NewEntry
<1>3. Alike(c, d, x)
  <2>1. \A i \in 1 .. Last(d) :
          \/ i \in 1 .. Last(c) /\ i <= Last(c)
          \/ i = Last(c) + 1 /\ ~(i <= Last(c))
    BY <1>1
  <2> QED
    BY <1>1, <1>2, <2>1 DEF Alike
<1>4. Queued(d, x) = Queued(c, x)
  BY <1>1 DEF Queued
<1>5. Queue(Queued(d, x), d, hs, last, b, r, x)
  BY <1>1, <1>3, <1>4, AlikeQueues
<1>6. ASSUME Informed(d, hs), Len(hs) \in Nat PROVE Informed(c, hs)
  <2>1. Last(c) <= Len(hs)
    BY <1>1, <1>6 DEF Informed
  <2>2. \A i \in 1 .. Last(c) : i \in 1 .. Last(d) /\ i < Last(d)
    BY <1>1
  <2> QED
    BY <1>1, <1>6, <2>1, <2>2 DEF Informed
<1> QED
  BY <1>5, <1>6 DEF d

LEMMA ExtraQueues ==
  ASSUME NEW c \in Chain, Settled(c), NEW e \in Event, e.type \in Extras, c.orphans = None,
         NEW x \in Extras, NEW hs, Len(hs) \in Nat, Informed(Recorded(c, e), hs),
         NEW last \in Nat, NEW b, NEW r, Queue(Coming(c, e, x), c, hs, last, b, r, x),
         \A p \in Buffered(b, r, x) : b[p][2].hop \in Positions
  PROVE  Queue(Queued(Recorded(c, e), x), Recorded(c, e), hs, last, b, r, x)
<1> DEFINE c1 == WithExtra(c, e)
<1>1. e.hop \in Positions /\ c.pending[x] \in Seq(Positions) /\ c.orphans[x] = <<>>
  BY PositionsAreNumbers, ChainParts DEF None
<1>2. Recorded(c, e) = Reconciled(c1) /\ Touched(c, c1) /\ c1.pending = WithPending(c, e).pending
  BY <1>1, RecordedIs, ExtraInfoIs
<1>3. Step1(c1, Reconciled(c1))
  BY <1>2, TouchedSettles
<1>4. /\ WithPending(c, e).pending[e.type] = Append(c.pending[e.type], e.hop)
      /\ \A y \in Extras \ {e.type} : WithPending(c, e).pending[y] = c.pending[y]
  BY <1>1, PendingParts
<1> HIDE DEF c1
<1>5. c1 \in Chain /\ Last(c1) = Last(c) /\ c1.orphans = None /\ Last(c) \in Nat
  BY <1>2, ChainParts DEF Touched
<1>6. Queued(c, x) = c.pending[x]
  BY <1>1, ConcatAppended DEF Queued
<1>7. c1.pending[x] = Coming(c, e, x)
  BY <1>2, <1>4, <1>6 DEF Coming
<1>8. Queued(c1, x) = Coming(c, e, x)
  <2>1. c1.orphans[x] = <<>> /\ c1.pending[x] \in Seq(Positions)
    BY <1>5, ChainParts DEF None
  <2> QED
    BY <1>7, <2>1, ConcatAppended DEF Queued
<1>9. Alike(c, c1, x)
  BY <1>2, <1>5 DEF Alike, Touched
<1>10. Queue(Queued(c1, x), c1, hs, last, b, r, x)
  BY <1>5, <1>8, <1>9, AlikeQueues
<1>11. Reconciles(c1, Reconciled(c1), x) /\ Reconciled(c1) \in Chain
  BY <1>3, <1>5 DEF Step1, Reconciles
<1>12. Queue(Queued(Reconciled(c1), x), Reconciled(c1), hs, last, b, r, x)
  BY <1>2, <1>5, <1>10, <1>11, ReconciledQueues
<1> QED
  BY <1>2, <1>12

LEMMA RecordedQueues ==
  ASSUME NEW c \in Chain, Settled(c), NEW e \in Event, e.type \in Extras => c.orphans = None,
         NEW x \in Extras, NEW hs, Len(hs) \in Nat, Informed(Recorded(c, e), hs),
         NEW last \in Nat, NEW b, NEW r, Queue(Coming(c, e, x), c, hs, last, b, r, x),
         \A p \in Buffered(b, r, x) : b[p][2].hop \in Positions
  PROVE  Queue(Queued(Recorded(c, e), x), Recorded(c, e), hs, last, b, r, x)
<1>1. e.hop \in Positions /\ e.extra \in BOOLEAN
  BY PositionsAreNumbers DEF Event
<1>2. CASE e.type \in Extras
  BY <1>2, ExtraQueues
<1>3. ASSUME e.type \notin Extras PROVE Queue(Queued(c, x), c, hs, last, b, r, x)
  BY <1>3 DEF Coming
<1>4. CASE e.type \in Starts
  <2>0. e.type \notin Extras
    BY <1>4 DEF Starts, Extras
  <2>1. CASE c.entries = <<>>
    <3> DEFINE m == Adopted(c)
    <3>1. /\ m \in Chain /\ Last(m) = Last(c) /\ m.entries = c.entries
          /\ m.pending[x] = Queued(c, x) /\ m.orphans = None
          /\ Queued(c, x) \in Seq(Positions)
      BY AdoptedParts, ChainParts DEF Last
    <3>2. Recorded(c, e) = NewHop(m, e)
      BY <1>4, <2>1, RecordedIs DEF RequestWillBeSent
    <3> HIDE DEF m
    <3>3. Queued(m, x) = Queued(c, x)
      <4>1. m.orphans[x] = <<>>
        BY <3>1 DEF None
      <4> QED
        BY <3>1, <4>1, ConcatAppended DEF Queued
    <3>4. Alike(c, m, x)
      BY <3>1, ChainParts DEF Alike
    <3>5. Queue(Queued(m, x), m, hs, last, b, r, x)
      BY <1>3, <2>0, <3>1, <3>3, <3>4, AlikeQueues
    <3> QED
      BY <1>1, <3>1, <3>2, <3>5, NewHopQueues
  <2>2. CASE c.entries # <<>> /\ e.type = "duplicate"
    <3> DEFINE d == [c EXCEPT !.afterCutoff = FALSE]
    <3>1. Recorded(c, e) = d
      BY <1>4, <2>2, RecordedIs DEF RequestWillBeSent
    <3>2. /\ d \in Chain /\ d.entries = c.entries /\ d.pending = c.pending /\ d.orphans = c.orphans
      BY DEF Chain
    <3> HIDE DEF d
    <3>3. Alike(c, d, x) /\ Queued(d, x) = Queued(c, x)
      BY <3>2, ChainParts DEF Alike, Queued, Last
    <3> QED
      BY <1>3, <2>0, <3>1, <3>2, <3>3, AlikeQueues
  <2>3. CASE c.entries # <<>> /\ e.type # "duplicate"
    <3> DEFINE new == Told(RedirectedEntry(Cur(c), e), e.extra)
               m == Reconciled(Set(c, new))
    <3>1. Cur(c) \in Entry
      BY <2>3, CurIn
    <3>2. RedirectedEntry(Cur(c), e) \in Entry /\ RedirectedEntry(Cur(c), e).extra = Cur(c).extra
      BY <1>1, <3>1, EntryChanges DEF Ends
    <3>3. new \in Entry /\ new.extra = Cur(c).extra
      BY <1>1, <3>2 DEF Told, Entry
    <3>4. Recorded(c, e) = NewHop(m, e)
      BY <1>4, <2>3, RecordedIs, RedirectedIs DEF RequestWillBeSent
    <3> HIDE DEF new
    <3>5. m \in Chain
      BY <2>3, <3>3, SetParts, ReconciledParts
    <3>6. Informed(m, hs)
      <4> HIDE DEF m
      <4>1. Informed(NewHop(m, e), hs)
        BY <3>4
      <4>2. Last(NewHop(m, e)) = Last(m) + 1 /\ Last(m) \in Nat
            /\ \A i \in 1 .. Last(m) : NewHop(m, e).entries[i] = m.entries[i]
        BY <1>1, <3>5, NewHopParts, ChainParts
      <4>3. \A i \in 1 .. Last(m) : i \in 1 .. Last(m) + 1 /\ i < Last(m) + 1
        BY <4>2
      <4>4. Last(m) <= Len(hs)
        BY <4>1, <4>2 DEF Informed
      <4> QED
        BY <4>1, <4>2, <4>3, <4>4 DEF Informed
    <3>7. Queue(Queued(m, x), m, hs, last, b, r, x)
      BY <1>3, <2>0, <2>3, <3>3, <3>6, ChangedQueues
    <3> HIDE DEF m
    <3> QED
      BY <1>1, <3>4, <3>5, <3>7, NewHopQueues
  <2> QED
    BY <2>1, <2>2, <2>3
<1>5. CASE e.type \notin Starts \cup Extras
  <2>1. CASE c.entries = <<>>
    <3>1. Recorded(c, e) = c
      BY <1>5, <2>1, RecordedIs
    <3> QED
      BY <1>3, <1>5, <3>1
  <2>2. CASE c.entries # <<>>
    <3>1. PICK entry \in Entry : /\ entry.extra = Cur(c).extra
                                 /\ Recorded(c, e) \in {Set(c, entry), Reconciled(Set(c, entry))}
      BY <1>5, <2>2, RecordedCurrent
    <3> QED
      BY <1>3, <1>5, <2>2, <3>1, ChangedQueues
  <2> QED
    BY <2>1, <2>2
<1> QED
  BY <1>2, <1>4, <1>5

LEMMA HandledQueues ==
  ASSUME NEW c \in Chain, Settled(c), NEW e \in Event, NEW d \in Chain, NEW x \in Extras,
         \/ Ignores(c, e, d) \/ Keeps(c, e, d)
         \/ Records(c, e, d) /\ (e.type \in Extras => c.orphans = None),
         NEW hs, Len(hs) \in Nat, Informed(d, hs),
         NEW last \in Nat, NEW b, NEW r, Queue(Coming(c, e, x), c, hs, last, b, r, x),
         \A p \in Buffered(b, r, x) : b[p][2].hop \in Positions
  PROVE  Queue(Queued(d, x), d, hs, last, b, r, x)
<1>1. CASE Ignores(c, e, d)
  <2>1. d.entries = c.entries /\ d.pending = c.pending /\ d.orphans = c.orphans
    BY <1>1 DEF Ignores, Chain
  <2>2. Queued(d, x) = Coming(c, e, x)
    <3>1. e.type # x
      BY <1>1 DEF Ignores
    <3>2. Queued(d, x) = Queued(c, x)
      BY <2>1 DEF Queued
    <3> QED
      BY <3>1, <3>2 DEF Coming
  <2>3. Alike(c, d, x)
    BY <2>1, ChainParts DEF Alike, Last
  <2> QED
    BY <2>2, <2>3, AlikeQueues
<1>2. CASE Keeps(c, e, d)
  <2>1. /\ e.hop \in Positions /\ c.pending[x] \in Seq(Positions) /\ c.orphans[x] \in Seq(Positions)
    BY PositionsAreNumbers, ChainParts
  <2>2. /\ d.entries = c.entries /\ d.pending = c.pending
        /\ d.orphans = [c.orphans EXCEPT ![e.type] = Append(c.orphans[e.type], e.hop)]
    BY <1>2 DEF Keeps, Chain
  <2>3. d.orphans[x] = IF x = e.type THEN Append(c.orphans[x], e.hop) ELSE c.orphans[x]
    BY <2>2 DEF Chain
  <2>4. Queued(d, x) = Coming(c, e, x)
    <3>1. c.pending[x] \o Append(c.orphans[x], e.hop) = Append(Queued(c, x), e.hop)
      <4> DEFINE p == c.pending[x]
                 o == c.orphans[x]
                 h == e.hop
      <4>1. p \in Seq(Positions) /\ o \in Seq(Positions) /\ h \in Positions
        BY <2>1
      <4>2. Queued(c, x) = p \o o
        BY DEF Queued
      <4> HIDE DEF p, o, h
      <4>3. p \o Append(o, h) = Append(p \o o, h)
        BY <4>1, ConcatAppended
      <4>4. p \o Append(o, h) = Append(Queued(c, x), h)
        BY <4>2, <4>3
      <4> QED
        BY <4>4 DEF p, o, h
    <3>2. Queued(d, x) = c.pending[x] \o d.orphans[x]
      BY <2>2 DEF Queued
    <3>3. CASE x = e.type
      <4>1. Coming(c, e, x) = Append(Queued(c, x), e.hop)
        BY <3>3 DEF Coming
      <4>2. d.orphans[x] = Append(c.orphans[x], e.hop)
        BY <2>3, <3>3
      <4> QED
        BY <3>1, <3>2, <4>1, <4>2
    <3>4. CASE x # e.type
      <4>1. Coming(c, e, x) = c.pending[x] \o c.orphans[x]
        BY <3>4 DEF Coming, Queued
      <4>2. d.orphans[x] = c.orphans[x]
        BY <2>3, <3>4
      <4> QED
        BY <3>2, <4>1, <4>2
    <3> QED
      BY <3>3, <3>4
  <2>5. Alike(c, d, x)
    BY <2>2, ChainParts DEF Alike, Last
  <2> QED
    BY <2>4, <2>5, AlikeQueues
<1>3. CASE Records(c, e, d) /\ (e.type \in Extras => c.orphans = None)
  <2> DEFINE m == Recorded(c, e)
  <2>1. m \in Chain
    BY RecordedSettles
  <2>3. d = m \/ d = Scheduled(m)
    BY <1>3 DEF Records
  <2>2. Queue(Queued(m, x), m, hs, last, b, r, x)
    <3> HIDE DEF m
    <3>1. Informed(m, hs)
      <4>1. CASE d = m
        BY <4>1
      <4>2. CASE d = Scheduled(m)
        BY <2>1, <4>2, ScheduledParts, ScheduledFields DEF Informed
      <4> QED
        BY <2>3, <4>1, <4>2
    <3> QED
      BY <1>3, <3>1, RecordedQueues DEF m
  <2> HIDE DEF m
  <2>4. CASE d = Scheduled(m)
    <3>1. /\ Last(d) = Last(m) /\ d.pending = m.pending /\ d.orphans = m.orphans
          /\ \A i \in 1 .. Last(m) : d.entries[i].extra = m.entries[i].extra
      BY <2>1, <2>4, ScheduledParts, ScheduledFields
    <3>2. Alike(m, d, x) /\ Queued(d, x) = Queued(m, x)
      BY <2>1, <3>1, ChainParts DEF Alike, Queued
    <3> QED
      BY <2>1, <2>2, <3>2, AlikeQueues
  <2> QED
    BY <2>2, <2>3, <2>4
<1> QED
  BY <1>1, <1>2, <1>3

LEMMA RecordedOrphans ==
  ASSUME NEW c \in Chain, Settled(c), NEW e \in Event
  PROVE  Recorded(c, e).orphans \in {c.orphans, None}
<1>1. e.hop \in Positions /\ e.extra \in BOOLEAN
  BY PositionsAreNumbers DEF Event
<1>2. ASSUME c.entries # <<>>, NEW entry \in Entry
      PROVE  /\ Set(c, entry) \in Chain /\ Set(c, entry).orphans = c.orphans
             /\ Reconciled(Set(c, entry)) \in Chain
             /\ Reconciled(Set(c, entry)).orphans = c.orphans
  <2>1. Set(c, entry) \in Chain /\ Set(c, entry).orphans = c.orphans
    BY <1>2, SetParts
  <2> QED
    BY <2>1, ReconciledParts DEF AsBefore
<1>6. ASSUME NEW m \in Chain PROVE NewHop(m, e).orphans = m.orphans
  BY <1>1, NewHopParts
<1>3. CASE e.type \in Extras
  <2>1. Recorded(c, e) = Reconciled(WithExtra(c, e)) /\ Touched(c, WithExtra(c, e))
    BY <1>1, <1>3, RecordedIs, ExtraInfoIs
  <2>2. Step1(WithExtra(c, e), Reconciled(WithExtra(c, e)))
    BY <2>1, TouchedSettles
  <2> QED
    BY <2>1, <2>2 DEF Step1, AsBefore, Touched
<1>4. CASE e.type \in Starts
  <2>1. CASE c.entries = <<>>
    <3>1. Recorded(c, e) = NewHop(Adopted(c), e)
      BY <1>4, <2>1, RecordedIs DEF RequestWillBeSent
    <3>2. Adopted(c) \in Chain /\ Adopted(c).orphans = None
      BY AdoptedParts
    <3> QED
      BY <1>6, <3>1, <3>2
  <2>2. CASE c.entries # <<>> /\ e.type = "duplicate"
    <3>1. Recorded(c, e) = [c EXCEPT !.afterCutoff = FALSE]
      BY <1>4, <2>2, RecordedIs DEF RequestWillBeSent
    <3> QED
      BY <3>1 DEF Chain
  <2>3. CASE c.entries # <<>> /\ e.type # "duplicate"
    <3> DEFINE new == Told(RedirectedEntry(Cur(c), e), e.extra)
    <3>1. Cur(c) \in Entry
      BY <2>3, CurIn
    <3>2. RedirectedEntry(Cur(c), e) \in Entry
      BY <1>1, <3>1, EntryChanges DEF Ends
    <3>3. new \in Entry
      BY <1>1, <3>2 DEF Told, Entry
    <3>4. Recorded(c, e) = NewHop(Reconciled(Set(c, new)), e)
      BY <1>4, <2>3, RecordedIs, RedirectedIs DEF RequestWillBeSent
    <3> HIDE DEF new
    <3>5. Reconciled(Set(c, new)) \in Chain /\ Reconciled(Set(c, new)).orphans = c.orphans
      BY <1>2, <2>3, <3>3
    <3> QED
      BY <1>6, <3>4, <3>5
  <2> QED
    BY <2>1, <2>2, <2>3
<1>5. CASE e.type \notin Starts \cup Extras
  BY <1>2, <1>5, RecordedIs, RecordedCurrent
<1> QED
  BY <1>3, <1>4, <1>5

-----------------------------------------------------------------------------
(* The steps, and the supplemental events waiting.                         *)

QueuesInv == Inv /\ QueueInv /\ OrphansInv

LEMMA FaithfulInformed ==
  ASSUME NEW c, NEW hs, NEW st, Faithful(c, hs, st)
  PROVE  Informed(c, hs)
BY DEF Faithful, Sound, Informed

LEMMA BufferedHops ==
  ASSUME NEW b \in Seq(Requests \X Event), NEW r, NEW x
  PROVE  \A p \in Buffered(b, r, x) : b[p][2].hop \in Positions
<1>1. \A p \in DOMAIN b : b[p] \in Requests \X Event
  BY ElementOfSeq
<1> QED
  BY <1>1, PositionsAreNumbers DEF Buffered

LEMMA QueueParts ==
  ASSUME Inv, NEW r \in Requests, NEW x \in Extras
  PROVE  /\ chain[r] \in Chain /\ Settled(chain[r]) /\ Queued(chain[r], x) \in Seq(Positions)
         /\ hops[r] \in Seq(Hop) /\ Len(hops[r]) \in Nat /\ Len(hops[r]) <= MaxHops
         /\ arrived[r][x] \in Nat /\ buffer \in Seq(Requests \X Event)
         /\ Informed(chain[r], hops[r])
         /\ \A p \in Buffered(buffer, r, x) : buffer[p][2].hop \in Positions
<1>1. chain[r] \in Chain /\ Settled(chain[r]) /\ hops[r] \in Seq(Hop) /\ Len(hops[r]) <= MaxHops
  BY DEF Inv, Stable, TypesInv, SettledInv, BrowserInv
<1>2. arrived[r][x] \in Nat /\ buffer \in Seq(Requests \X Event)
  BY DEF Inv, Stable, TypesInv
<1>3. Queued(chain[r], x) \in Seq(Positions) /\ Len(hops[r]) \in Nat
  BY <1>1, ChainParts, LenProperties
<1>4. Informed(chain[r], hops[r])
  BY FaithfulInformed DEF Inv, FlowInv
<1>6. \A p \in Buffered(buffer, r, x) : buffer[p][2].hop \in Positions
  BY <1>2, BufferedHops
<1> QED
  BY <1>1, <1>2, <1>3, <1>4, <1>6

\* The chain of r handles e, once it is no longer buffered.
LEMMA HandleQueues ==
  ASSUME QueuesInv, Inv', NEW r \in Requests, NEW e \in Event, NEW buffered,
         Handle(r, e, buffered), phase \in {"capturing", "replaying", "draining"},
         e.type \notin Extras /\ e.late => Late,
         UNCHANGED <<phase, hops>>,
         \A x \in Extras :
           /\ r \notin dropped =>
                Queue(Coming(chain[r], e, x), chain[r], hops[r], arrived'[r][x], buffer', r, x)
           /\ \A s \in Requests \ (dropped \cup {r}) :
                Queue(Queued(chain[s], x), chain[s], hops[s], arrived'[s][x], buffer', s, x)
  PROVE  QueueInv' /\ OrphansInv'
<1> DEFINE c == chain[r]
<1>1. PICK d : /\ chain' = [chain EXCEPT ![r] = d]
               /\ \/ Ignores(c, e, d) /\ Frozen
                  \/ Keeps(c, e, d) /\ Frozen
                  \/ d = c /\ e.type \in Extras /\ r \in dropped'
                  \/ Records(c, e, d) /\ (e.type \in Extras /\ Frozen => c.entries # <<>>)
  BY HandleCases DEF QueuesInv, Inv, Stable
<1>2. dropped \subseteq dropped'
  BY HandleCases DEF QueuesInv, Inv, Stable
<1>3. chain'[r] = d /\ \A s \in Requests \ {r} : chain'[s] = chain[s]
  BY <1>1 DEF QueuesInv, Inv, Stable, TypesInv
<1>4. /\ c \in Chain /\ Settled(c) /\ d \in Chain /\ Informed(d, hops[r])
      /\ Len(hops[r]) \in Nat
      /\ \A x \in Extras : /\ arrived'[r][x] \in Nat
                           /\ \A p \in Buffered(buffer', r, x) : buffer'[p][2].hop \in Positions
  <2>1. c \in Chain /\ Settled(c)
    BY DEF QueuesInv, Inv, Stable, TypesInv, SettledInv
  <2>2. chain'[r] \in Chain /\ hops'[r] \in Seq(Hop) /\ buffer' \in Seq(Requests \X Event)
        /\ \A x \in Extras : arrived'[r][x] \in Nat
    BY DEF Inv, Stable, TypesInv
  <2>3. Faithful(chain'[r], hops'[r], stage'[r])
    BY DEF Inv, FlowInv
  <2>4. Informed(chain'[r], hops'[r])
    BY <2>3, FaithfulInformed
  <2>5. hops'[r] = hops[r] /\ Len(hops'[r]) \in Nat
    BY <2>2, LenProperties
  <2>6. \A x \in Extras : \A p \in Buffered(buffer', r, x) : buffer'[p][2].hop \in Positions
    BY <2>2, BufferedHops
  <2> QED
    BY <1>3, <2>1, <2>2, <2>4, <2>5, <2>6
<1>5. Records(c, e, d) /\ (e.type \in Extras /\ Frozen => c.entries # <<>>) /\ e.type \in Extras =>
        c.orphans = None
  <2>1. CASE Frozen
    BY <1>4, <2>1 DEF Settled
  <2>2. CASE ~Frozen
    BY <2>2 DEF Frozen, QueuesInv, OrphansInv
  <2> QED
    BY <2>1, <2>2
<1>6. ASSUME NEW x \in Extras, r \notin dropped'
      PROVE  Queue(Queued(d, x), d, hops[r], arrived'[r][x], buffer', r, x)
  <2>1. Queue(Coming(c, e, x), c, hops[r], arrived'[r][x], buffer', r, x)
    BY <1>2, <1>6
  <2>2. \/ Ignores(c, e, d) \/ Keeps(c, e, d)
        \/ Records(c, e, d) /\ (e.type \in Extras => c.orphans = None)
    BY <1>1, <1>5, <1>6
  <2>3. \A p \in Buffered(buffer', r, x) : buffer'[p][2].hop \in Positions
    BY <1>4
  <2> DEFINE hs == hops[r]
             last == arrived'[r][x]
             b == buffer'
  <2>4. last \in Nat /\ Len(hs) \in Nat /\ Informed(d, hs)
    BY <1>4
  <2> HIDE DEF c, hs, last, b
  <2>5. /\ Queue(Coming(c, e, x), c, hs, last, b, r, x)
        /\ \A p \in Buffered(b, r, x) : b[p][2].hop \in Positions
    BY <2>1, <2>3 DEF c, hs, last, b
  <2>6. Queue(Queued(d, x), d, hs, last, b, r, x)
    BY <1>4, <2>2, <2>4, <2>5, HandledQueues
  <2> QED
    BY <2>6 DEF hs, last, b
<1>7. ASSUME NEW s \in Requests \ dropped', NEW x \in Extras
      PROVE  Queue(Queued(chain'[s], x), chain'[s], hops'[s], arrived'[s][x], buffer', s, x)
  <2>1. CASE s = r
    BY <1>3, <1>6, <1>7, <2>1
  <2>2. CASE s # r
    BY <1>2, <1>3, <2>2
  <2> QED
    BY <2>1, <2>2
<1>8. OrphansInv'
  <2>1. Frozen \/ (d.orphans # None => c.orphans # None)
    <3>1. Records(c, e, d) => d.orphans \in {c.orphans, None}
      BY <1>4, RecordedOrphans, RecordedSettles, ScheduledParts DEF Records
    <3> QED
      BY <1>1, <3>1
  <2> QED
    BY <1>3, <2>1 DEF QueuesInv, OrphansInv, Frozen
<1> QED
  BY <1>7, <1>8 DEF QueueInv

LEMMA Rebuffered ==
  ASSUME NEW q, NEW q2, NEW c, NEW hs, NEW last, NEW b, NEW b2, NEW r, NEW x,
         Queue(q, c, hs, last, b, r, x), Ordered(q2, b2, r, x),
         Waiting(q2, b2, r, x) = Waiting(q, b, r, x)
  PROVE  Queue(q2, c, hs, last, b2, r, x)
BY DEF Queue

\* The supplemental event of the next hop that has one is buffered.
LEMMA ArrivedQueues ==
  ASSUME NEW q \in Seq(Positions), NEW c \in Chain, NEW hs, Len(hs) \in Nat, NEW last \in Nat,
         NEW b \in Seq(Requests \X Event), NEW r \in Requests, NEW e \in Event,
         Queue(q, c, hs, last, b, r, e.type),
         e.hop > last, e.hop <= Len(hs), hs[e.hop].extra,
         \A m \in last + 1 .. e.hop - 1 : ~hs[m].extra
  PROVE  Queue(q, c, hs, e.hop, Append(b, <<r, e>>), r, e.type)
<1> DEFINE x == e.type
           n == e.hop
           b2 == Append(b, <<r, e>>)
<1>1. n \in Positions /\ n \in Nat /\ Last(c) \in Nat /\ \A m \in Positions : m \in Nat
  BY PositionsAreNumbers, ChainParts
<1>2. Queue(q, c, hs, last, b, r, x) /\ n > last /\ n <= Len(hs) /\ hs[n].extra
  OBVIOUS
<1>3. \A m \in Positions : m \in Waiting(q, b, r, x) => m < n
  BY <1>1, <1>2 DEF Queue
<1>4. /\ Ordered(q, b2, r, x)
      /\ \A m \in Positions : m \in Waiting(q, b2, r, x) <=> m \in Waiting(q, b, r, x) \/ m = n
  <2>1. \A m \in Waiting(q, b, r, x) : m < n
    BY <1>3 DEF Waiting
  <2> QED
    BY <1>2, <2>1, NextBuffered DEF Queue
<1>5. \A m \in Positions : m > last /\ m < n => ~hs[m].extra
  BY <1>1
<1> HIDE DEF x, n, b2
<1>6. \A i \in 1 .. Last(c) : c.entries[i].extra[x] \in {0, i} /\ c.entries[i].extra[x] <= last
  BY <1>2 DEF Queue
<1>7. Unassigned(c, x, n)
  BY <1>1, <1>2, <1>6 DEF Unassigned
<1>8. ASSUME NEW m \in Positions
      PROVE  m \in Waiting(q, b2, r, x) <=> m <= n /\ hs[m].extra /\ Unassigned(c, x, m)
  <2>1. m \in Waiting(q, b2, r, x) <=> (m <= last /\ hs[m].extra /\ Unassigned(c, x, m)) \/ m = n
    BY <1>2, <1>4 DEF Queue
  <2>2. m \in Nat /\ n \in Nat
    BY <1>1
  <2>3. CASE m <= last
    BY <1>2, <2>1, <2>2, <2>3
  <2>4. CASE m = n
    BY <1>2, <1>7, <2>1, <2>2, <2>4
  <2>5. CASE ~(m <= last) /\ m # n
    <3>1. m > n \/ (m > last /\ m < n)
      BY <2>2, <2>5
    <3> QED
      BY <1>1, <1>5, <2>1, <2>2, <2>5, <3>1
  <2> QED
    BY <2>3, <2>4, <2>5
<1>9. \A i \in 1 .. Last(c) : c.entries[i].extra[x] \in {0, i} /\ c.entries[i].extra[x] <= n
  <2> SUFFICES ASSUME NEW i \in 1 .. Last(c)
               PROVE  c.entries[i].extra[x] \in {0, i} /\ c.entries[i].extra[x] <= n
    OBVIOUS
  <2>1. c.entries[i].extra[x] \in {0, i} /\ c.entries[i].extra[x] <= last
    BY <1>6
  <2> QED
    BY <1>1, <1>2, <2>1
<1>10. Queue(q, c, hs, n, b2, r, x)
  BY <1>2, <1>4, <1>8, <1>9 DEF Queue
<1> QED
  BY <1>10 DEF x, n, b2

LEMMA GrownQueues ==
  ASSUME NEW q, NEW c, NEW hs, Len(hs) \in Nat, NEW hs2, Len(hs2) \in Nat, Len(hs) <= Len(hs2),
         \A n \in 1 .. Len(hs) : hs2[n].extra = hs[n].extra,
         NEW last \in Nat, NEW b, NEW r, NEW x, Queue(q, c, hs, last, b, r, x)
  PROVE  Queue(q, c, hs2, last, b, r, x)
<1>1. last <= Len(hs) /\ last <= Len(hs2)
  BY DEF Queue
<1>2. \A n \in Positions : n <= last => hs2[n].extra = hs[n].extra
  BY <1>1, PositionsAreNumbers
<1> QED
  BY <1>1, <1>2 DEF Queue

\* An event of r is buffered: nothing changes for other requests and kinds.
LEMMA OthersQueue ==
  ASSUME QueuesInv, NEW r \in Requests, NEW e \in Event,
         buffer' = Append(buffer, <<r, e>>), UNCHANGED <<chain, hops, dropped>>,
         NEW s \in Requests \ dropped, NEW y \in Extras, s # r \/ y # e.type,
         arrived'[s][y] = arrived[s][y]
  PROVE  Queue(Queued(chain'[s], y), chain'[s], hops'[s], arrived'[s][y], buffer', s, y)
<1> DEFINE q == Queued(chain[s], y)
<1>1. Queue(q, chain[s], hops[s], arrived[s][y], buffer, s, y)
  BY DEF QueuesInv, QueueInv
<1>2. buffer \in Seq(Requests \X Event)
  BY DEF QueuesInv, Inv, Stable, TypesInv
<1> HIDE DEF q
<1>3. /\ Ordered(q, Append(buffer, <<r, e>>), s, y)
      /\ Waiting(q, Append(buffer, <<r, e>>), s, y) = Waiting(q, buffer, s, y)
  <2>1. Ordered(q, buffer, s, y)
    BY <1>1 DEF Queue
  <2> QED
    BY <1>2, <2>1, OtherBuffered
<1>4. Queue(q, chain[s], hops[s], arrived[s][y], Append(buffer, <<r, e>>), s, y)
  BY <1>1, <1>3, Rebuffered
<1> QED
  BY <1>4 DEF q

LEMMA DeliverQueues ==
  ASSUME QueuesInv, Inv', NEW r \in Requests, Deliver(r)
  PROVE  QueueInv' /\ OrphansInv'
<1>1. /\ wire[r] # <<>> /\ Listen(r, Head(wire[r])) /\ UNCHANGED <<phase, hops, arrived>>
      /\ wire[r] \in Seq(Event)
  BY DEF Deliver, QueuesInv, Inv, Stable, TypesInv
<1>2. PICK e \in Base : e = Head(wire[r]) /\ e \in Event /\ (e.late => Late)
  <2>1. 1 \in DOMAIN wire[r] /\ wire[r][1] = Head(wire[r]) /\ Head(wire[r]) \in Event
    BY <1>1, Tailed
  <2>2. Head(wire[r]) \in Base
    BY <2>1 DEF QueuesInv, Inv, FlowInv
  <2>3. Head(wire[r]) \in Flights(buffer, wire[r], r)
    BY <2>1, <2>2 DEF Flights, Flying
  <2>4. \A e \in Flights(buffer, wire[r], r) : e.late => Late
    BY DEF QueuesInv, Inv, FlowInv, Flow
  <2> QED
    BY <2>1, <2>2, <2>3, <2>4
<1>3. Listen(r, e) /\ e.type \notin Extras /\ e \in Event
  BY <1>1, <1>2 DEF Base
<1>4. CASE Buffering
  <2>1. buffer' = Append(buffer, <<r, e>>) /\ UNCHANGED <<chain, dropped>>
    BY <1>3, <1>4 DEF Listen
  <2>2. ASSUME NEW s \in Requests \ dropped, NEW y \in Extras
        PROVE  Queue(Queued(chain'[s], y), chain'[s], hops'[s], arrived'[s][y], buffer', s, y)
    <3>1. y # e.type /\ arrived'[s][y] = arrived[s][y]
      BY <1>1, <1>3
    <3> QED
      BY <1>1, <1>3, <2>1, <3>1, OthersQueue
  <2>3. QueueInv'
    BY <2>1, <2>2 DEF QueueInv
  <2>4. OrphansInv'
    BY <1>1, <2>1 DEF QueuesInv, OrphansInv
  <2> QED
    BY <2>3, <2>4
<1>5. CASE ~Buffering
  <2>1. /\ Handle(r, e, FALSE) /\ buffer' = buffer /\ phase \in {"capturing", "replaying", "draining"}
    BY <1>3, <1>5 DEF Listen, Buffering
  <2>2. ASSUME NEW x \in Extras
        PROVE  /\ r \notin dropped =>
                    Queue(Coming(chain[r], e, x), chain[r], hops[r], arrived'[r][x], buffer', r, x)
               /\ \A s \in Requests \ (dropped \cup {r}) :
                    Queue(Queued(chain[s], x), chain[s], hops[s], arrived'[s][x], buffer', s, x)
    <3>1. Coming(chain[r], e, x) = Queued(chain[r], x)
      BY <1>3 DEF Coming
    <3>2. buffer' = buffer /\ arrived' = arrived
      BY <1>1, <2>1
    <3>3. \A s \in Requests \ dropped :
            Queue(Queued(chain[s], x), chain[s], hops[s], arrived[s][x], buffer, s, x)
      BY DEF QueuesInv, QueueInv
    <3> QED
      BY <3>1, <3>2, <3>3
  <2> QED
    BY <1>1, <1>2, <1>3, <2>1, <2>2, HandleQueues
<1> QED
  BY <1>4, <1>5

\* Nothing being buffered, an event is as good as handed over from the buffer.
LEMMA HandedOver ==
  ASSUME NEW q \in Seq(Positions), NEW c, NEW hs, NEW last, NEW r \in Requests, NEW e \in Event,
         Queue(q, c, hs, last, Append(<<>>, <<r, e>>), r, e.type)
  PROVE  Queue(Append(q, e.hop), c, hs, last, <<>>, r, e.type)
<1> DEFINE b == Append(<<>>, <<r, e>>)
<1>1. <<r, e>> \in Requests \X Event /\ <<r, e>>[1] = r /\ <<r, e>>[2] = e
  OBVIOUS
<1>2. /\ b \in Seq(Requests \X Event) /\ b # <<>> /\ Head(b) = <<r, e>> /\ Tail(b) = <<>>
  BY <1>1
<1>3. Head(b)[1] = r /\ Head(b)[2] = e
  BY <1>1, <1>2
<1>4. Ordered(q, b, r, e.type)
  BY DEF Queue
<1> HIDE DEF b
<1>5. /\ Ordered(Append(q, Head(b)[2].hop), Tail(b), r, e.type)
      /\ Waiting(Append(q, Head(b)[2].hop), Tail(b), r, e.type) = Waiting(q, b, r, e.type)
  BY <1>2, <1>3, <1>4, Kept
<1>6. /\ Ordered(Append(q, e.hop), <<>>, r, e.type)
      /\ Waiting(Append(q, e.hop), <<>>, r, e.type) = Waiting(q, b, r, e.type)
  BY <1>2, <1>3, <1>5
<1>7. Queue(q, c, hs, last, b, r, e.type)
  BY DEF b
<1> QED
  BY <1>6, <1>7, Rebuffered

LEMMA DeliverExtraQueues ==
  ASSUME QueuesInv, Inv', NEW r \in Requests, NEW x \in Extras, DeliverExtra(r, x)
  PROVE  QueueInv' /\ OrphansInv'
<1>1. PICK n \in DOMAIN hops[r] :
        /\ n > arrived[r][x] /\ hops[r][n].extra
        /\ \A m \in (arrived[r][x] + 1) .. (n - 1) : ~hops[r][m].extra
        /\ Listen(r, [type |-> x, hop |-> n, extra |-> FALSE, late |-> FALSE])
        /\ arrived' = [arrived EXCEPT ![r][x] = n]
        /\ UNCHANGED <<phase, hops>>
  BY DEF DeliverExtra
<1> DEFINE e1 == [type |-> x, hop |-> n, extra |-> FALSE, late |-> FALSE]
<1>2. n \in 1 .. Len(hops[r]) /\ Len(hops[r]) \in Nat /\ Len(hops[r]) <= MaxHops
  BY DEF QueuesInv, Inv, Stable, TypesInv, BrowserInv
<1>3. e1 \in Event
  <2>1. n \in 1 .. MaxHops
    BY <1>2, ConstantsAssumption
  <2> QED
    BY <2>1 DEF Event, Types
<1>4. PICK e \in Event : e.type = x /\ e.hop = n /\ Listen(r, e)
  BY <1>1, <1>3
<1> HIDE DEF e1
<1>5. /\ arrived'[r][x] = n
      /\ \A s \in Requests, y \in Extras : s # r \/ y # x => arrived'[s][y] = arrived[s][y]
  BY <1>1 DEF QueuesInv, Inv, Stable, TypesInv
<1>6. ASSUME r \notin dropped
      PROVE  Queue(Queued(chain[r], x), chain[r], hops[r], n, Append(buffer, <<r, e>>), r, x)
  <2> DEFINE q == Queued(chain[r], x)
             c == chain[r]
             hs == hops[r]
             last == arrived[r][x]
             b == buffer
  <2>1. /\ q \in Seq(Positions) /\ c \in Chain /\ Len(hs) \in Nat /\ last \in Nat
        /\ b \in Seq(Requests \X Event)
    BY QueueParts DEF QueuesInv
  <2>2. Queue(q, c, hs, last, b, r, x)
    BY <1>6 DEF QueuesInv, QueueInv
  <2>3. /\ n > last /\ n <= Len(hs) /\ hs[n].extra
        /\ \A m \in last + 1 .. n - 1 : ~hs[m].extra
    BY <1>1, <1>2
  <2> HIDE DEF q, c, hs, last, b
  <2>4. Queue(q, c, hs, e.hop, Append(b, <<r, e>>), r, e.type)
    BY <1>4, <2>1, <2>2, <2>3, ArrivedQueues
  <2> QED
    BY <1>4, <2>4 DEF q, c, hs, b
<1>7. CASE Buffering
  <2>1. buffer' = Append(buffer, <<r, e>>) /\ UNCHANGED <<chain, dropped>>
    BY <1>4, <1>7 DEF Listen
  <2>2. ASSUME NEW s \in Requests \ dropped, NEW y \in Extras
        PROVE  Queue(Queued(chain'[s], y), chain'[s], hops'[s], arrived'[s][y], buffer', s, y)
    <3>1. CASE s = r /\ y = x
      <4>1. Queue(Queued(chain[r], x), chain[r], hops[r], n, Append(buffer, <<r, e>>), r, x)
        BY <1>6, <2>2, <3>1
      <4>2. /\ chain'[s] = chain[r] /\ hops'[s] = hops[r] /\ arrived'[s][y] = n
            /\ buffer' = Append(buffer, <<r, e>>)
        BY <1>1, <1>5, <2>1, <3>1
      <4> QED
        BY <3>1, <4>1, <4>2
    <3>2. CASE s # r \/ y # x
      <4>1. arrived'[s][y] = arrived[s][y] /\ (s # r \/ y # e.type)
        BY <1>4, <1>5, <3>2
      <4> QED
        BY <1>1, <1>4, <2>1, <4>1, OthersQueue
    <3> QED
      BY <3>1, <3>2
  <2>3. QueueInv'
    BY <2>1, <2>2 DEF QueueInv
  <2>4. OrphansInv'
    BY <1>1, <2>1 DEF QueuesInv, OrphansInv
  <2> QED
    BY <2>3, <2>4
<1>8. CASE ~Buffering
  <2>1. /\ Handle(r, e, FALSE) /\ buffer' = buffer /\ phase \in {"capturing", "draining"}
    BY <1>4, <1>8 DEF Listen, Buffering
  <2>2. buffer = <<>>
    BY <2>1 DEF QueuesInv, Inv, CutoffInv
  <2>3. ASSUME r \notin dropped
        PROVE  Queue(Append(Queued(chain[r], x), n), chain[r], hops[r], n, <<>>, r, x)
    <3> DEFINE q == Queued(chain[r], x)
               c == chain[r]
               hs == hops[r]
    <3>1. q \in Seq(Positions)
      BY QueueParts DEF QueuesInv
    <3>2. Queue(q, c, hs, n, Append(<<>>, <<r, e>>), r, e.type)
      BY <1>4, <1>6, <2>2, <2>3
    <3> HIDE DEF q, c, hs
    <3>3. Queue(Append(q, e.hop), c, hs, n, <<>>, r, e.type)
      BY <3>1, <3>2, HandedOver
    <3> QED
      BY <1>4, <3>3 DEF q, c, hs
  <2>4. ASSUME NEW y \in Extras
        PROVE  /\ r \notin dropped =>
                    Queue(Coming(chain[r], e, y), chain[r], hops[r], arrived'[r][y], buffer', r, y)
               /\ \A s \in Requests \ (dropped \cup {r}) :
                    Queue(Queued(chain[s], y), chain[s], hops[s], arrived'[s][y], buffer', s, y)
    <3>1. \A s \in Requests \ dropped :
            Queue(Queued(chain[s], y), chain[s], hops[s], arrived[s][y], buffer, s, y)
      BY DEF QueuesInv, QueueInv
    <3>2. CASE y = x
      <4>1. Coming(chain[r], e, y) = Append(Queued(chain[r], x), n)
        BY <1>4, <3>2 DEF Coming
      <4>2. \A s \in Requests \ {r} : arrived'[s][y] = arrived[s][y]
        BY <1>5
      <4> QED
        BY <1>5, <2>1, <2>2, <2>3, <3>1, <3>2, <4>1, <4>2
    <3>3. CASE y # x
      <4>1. Coming(chain[r], e, y) = Queued(chain[r], y)
        BY <1>4, <3>3 DEF Coming
      <4>2. \A s \in Requests : arrived'[s][y] = arrived[s][y]
        BY <1>5, <3>3
      <4> QED
        BY <2>1, <3>1, <4>1, <4>2
    <3> QED
      BY <3>2, <3>3
  <2>5. e.type \notin Extras /\ e.late => Late
    BY <1>4
  <2>6. UNCHANGED <<phase, hops>> /\ phase \in {"capturing", "replaying", "draining"}
    BY <1>1, <2>1
  <2> QED
    BY <2>1, <2>4, <2>5, <2>6, HandleQueues
<1> QED
  BY <1>7, <1>8

LEMMA ReplayQueues == ASSUME QueuesInv, Inv', Replay PROVE QueueInv' /\ OrphansInv'
<1>1. /\ phase = "replaying" /\ buffer # <<>> /\ buffer' = Tail(buffer)
      /\ Handle(Head(buffer)[1], Head(buffer)[2], TRUE)
      /\ UNCHANGED <<phase, hops, arrived>> /\ buffer \in Seq(Requests \X Event)
  BY DEF Replay, browser, QueuesInv, Inv, Stable, TypesInv
<1>2. Head(buffer) \in Requests \X Event /\ 1 \in DOMAIN buffer /\ buffer[1] = Head(buffer)
  BY <1>1, Tailed
<1>3. PICK r \in Requests, e \in Event : r = Head(buffer)[1] /\ e = Head(buffer)[2]
  BY <1>2
<1>4. e.type \notin Extras /\ e.late => Late
  <2> SUFFICES ASSUME e.type \notin Extras PROVE e.late => Late
    OBVIOUS
  <2>1. Head(buffer) = <<r, e>>
    BY <1>2, <1>3
  <2>2. e \in Flights(buffer, wire[r], r)
    BY <1>2, <2>1 DEF Flights, Flying, Base
  <2>3. \A f \in Flights(buffer, wire[r], r) : f.late => Late
    BY DEF QueuesInv, Inv, FlowInv, Flow
  <2> QED
    BY <2>2, <2>3
<1>5. ASSUME NEW s \in Requests \ dropped, NEW y \in Extras
      PROVE  /\ s = r => Queue(Coming(chain[r], e, y), chain[r], hops[r], arrived[r][y], Tail(buffer), r, y)
             /\ s # r => Queue(Queued(chain[s], y), chain[s], hops[s], arrived[s][y], Tail(buffer), s, y)
  <2> DEFINE q == Queued(chain[s], y)
             c == chain[s]
             hs == hops[s]
             last == arrived[s][y]
             b == buffer
  <2>1. q \in Seq(Positions) /\ b \in Seq(Requests \X Event) /\ b # <<>>
    BY <1>1, QueueParts DEF QueuesInv
  <2>2. Queue(q, c, hs, last, b, s, y)
    BY DEF QueuesInv, QueueInv
  <2>3. r = Head(b)[1] /\ e = Head(b)[2]
    BY <1>3
  <2> HIDE DEF q, c, hs, last, b
  <2>4. Ordered(q, b, s, y)
    BY <2>2 DEF Queue
  <2>5. CASE s = r /\ y = e.type
    <3>1. /\ Ordered(Append(q, Head(b)[2].hop), Tail(b), s, y)
          /\ Waiting(Append(q, Head(b)[2].hop), Tail(b), s, y) = Waiting(q, b, s, y)
      BY <2>1, <2>3, <2>4, <2>5, Kept
    <3>2. Queue(Append(q, Head(b)[2].hop), c, hs, last, Tail(b), s, y)
      BY <2>2, <3>1, Rebuffered
    <3>3. Coming(chain[r], e, y) = Append(q, Head(b)[2].hop)
      BY <2>3, <2>5 DEF Coming, q
    <3> QED
      BY <2>5, <3>2, <3>3 DEF c, hs, last, b
  <2>6. CASE s # r \/ y # e.type
    <3>1. Ordered(q, Tail(b), s, y) /\ Waiting(q, Tail(b), s, y) = Waiting(q, b, s, y)
      BY <2>1, <2>3, <2>4, <2>6, OtherTaken
    <3>2. Queue(q, c, hs, last, Tail(b), s, y)
      BY <2>2, <3>1, Rebuffered
    <3>3. s = r => Coming(chain[r], e, y) = q
      BY <2>6 DEF Coming, q
    <3> QED
      BY <3>2, <3>3 DEF q, c, hs, last, b
  <2> QED
    BY <2>5, <2>6
<1>6. ASSUME NEW y \in Extras
      PROVE  /\ r \notin dropped =>
                  Queue(Coming(chain[r], e, y), chain[r], hops[r], arrived'[r][y], buffer', r, y)
             /\ \A s \in Requests \ (dropped \cup {r}) :
                  Queue(Queued(chain[s], y), chain[s], hops[s], arrived'[s][y], buffer', s, y)
  BY <1>1, <1>5
<1>7. Handle(r, e, TRUE) /\ phase \in {"capturing", "replaying", "draining"} /\ UNCHANGED <<phase, hops>>
  BY <1>1, <1>3
<1> QED
  BY <1>4, <1>6, <1>7, HandleQueues

LEMMA EmitQueues ==
  ASSUME QueuesInv, Inv', NEW r \in Requests, NEW e \in Base, Emits(r, e)
  PROVE  QueueInv' /\ OrphansInv'
<1>1. UNCHANGED <<phase, arrived, buffer, chain, dropped>>
  BY DEF Emits
<1>2. ASSUME NEW s \in Requests \ dropped, NEW x \in Extras
      PROVE  Queue(Queued(chain'[s], x), chain'[s], hops'[s], arrived'[s][x], buffer', s, x)
  <2> DEFINE q == Queued(chain[s], x)
             c == chain[s]
             hs == hops[s]
             hs2 == hops'[s]
             last == arrived[s][x]
  <2>1. Queue(q, c, hs, last, buffer, s, x)
    BY DEF QueuesInv, QueueInv
  <2>2. Len(hs) \in Nat /\ last \in Nat
    BY QueueParts DEF QueuesInv
  <2>3. Len(hs2) \in Nat
    BY LenProperties DEF Inv, Stable, TypesInv
  <2>4. Len(hs) <= Len(hs2) /\ \A n \in 1 .. Len(hs) : hs2[n].extra = hs[n].extra
    BY <2>2 DEF Emits
  <2> HIDE DEF q, c, hs, hs2, last
  <2>5. Queue(q, c, hs2, last, buffer, s, x)
    BY <2>1, <2>2, <2>3, <2>4, GrownQueues
  <2> QED
    BY <1>1, <2>5 DEF q, c, hs2, last
<1>3. QueueInv'
  BY <1>1, <1>2 DEF QueueInv
<1>4. OrphansInv'
  BY <1>1 DEF QueuesInv, OrphansInv
<1> QED
  BY <1>3, <1>4

LEMMA FreezeQueues == ASSUME QueuesInv, Inv', Freeze PROVE QueueInv' /\ OrphansInv'
<1>1. /\ chain' = [r \in Requests |-> Reconciled(chain[r])] /\ phase' = "replaying"
      /\ UNCHANGED <<hops, arrived, buffer, dropped>>
  BY DEF Freeze, browser
<1>2. ASSUME NEW r \in Requests \ dropped, NEW x \in Extras
      PROVE  Queue(Queued(chain'[r], x), chain'[r], hops'[r], arrived'[r][x], buffer', r, x)
  <2> DEFINE c == chain[r]
             d == Reconciled(chain[r])
             hs == hops[r]
             last == arrived[r][x]
             b == buffer
  <2>1. /\ c \in Chain /\ Settled(c) /\ Len(hs) \in Nat /\ last \in Nat
        /\ \A p \in Buffered(b, r, x) : b[p][2].hop \in Positions
    BY QueueParts DEF QueuesInv
  <2>2. Queue(Queued(c, x), c, hs, last, b, r, x)
    BY DEF QueuesInv, QueueInv
  <2>3. Informed(d, hs)
    <3>1. Faithful(chain'[r], hops'[r], stage'[r])
      BY DEF Inv, FlowInv
    <3>2. Informed(chain'[r], hops'[r])
      BY <3>1, FaithfulInformed
    <3> QED
      BY <1>1, <3>2
  <2>4. d \in Chain /\ Reconciles(c, d, x)
    <3> HIDE DEF c
    <3>1. Step1(c, Reconciled(c))
      BY <2>1, ReconciledAgain
    <3>2. d = Reconciled(c)
      BY DEF c
    <3> QED
      BY <2>1, <3>1, <3>2 DEF Step1, Reconciles, Settled
  <2> HIDE DEF c, d, hs, last, b
  <2>5. Queue(Queued(d, x), d, hs, last, b, r, x)
    BY <2>1, <2>2, <2>3, <2>4, ReconciledQueues
  <2> QED
    BY <1>1, <2>5 DEF d, hs, last, b
<1>3. QueueInv'
  BY <1>1, <1>2 DEF QueueInv
<1>4. OrphansInv'
  BY <1>1 DEF OrphansInv
<1> QED
  BY <1>3, <1>4

LEMMA FetchQueues ==
  ASSUME QueuesInv, NEW r \in Requests, NEW i \in 1 .. MaxHops, Fetch(r, i)
  PROVE  QueueInv' /\ OrphansInv'
<1>1. PICK body \in {0, Len(hops[r])} : chain' = [chain EXCEPT ![r].entries[i].body = body]
  BY DEF Fetch
<1>2. UNCHANGED <<phase, hops, arrived, buffer, dropped>>
  BY DEF Fetch, browser
<1> DEFINE c == chain[r]
           d == Fetched(c, i, body)
<1>3. c \in Chain /\ body \in 0 .. MaxHops
  BY <1>1, ConstantsAssumption DEF QueuesInv, Inv, Stable, TypesInv, BrowserInv
<1>4. chain'[r] = d /\ \A s \in Requests \ {r} : chain'[s] = chain[s]
  BY <1>1 DEF QueuesInv, Inv, Stable, TypesInv, Fetched
<1>5. /\ d \in Chain /\ Last(d) = Last(c) /\ d.pending = c.pending /\ d.orphans = c.orphans
      /\ \A j \in 1 .. Last(c) : d.entries[j].extra = c.entries[j].extra
  <2> HIDE DEF c
  <2>1. d \in Chain /\ Last(d) = Last(c) /\ d.pending = c.pending /\ d.orphans = c.orphans
    BY <1>3, FetchedParts
  <2>2. ASSUME NEW j \in 1 .. Last(c) PROVE d.entries[j].extra = c.entries[j].extra
    BY <1>3, FetchedExtras
  <2> QED
    BY <2>1, <2>2
<1>6. ASSUME NEW s \in Requests \ dropped, NEW x \in Extras
      PROVE  Queue(Queued(chain'[s], x), chain'[s], hops'[s], arrived'[s][x], buffer', s, x)
  <2>1. Queue(Queued(chain[s], x), chain[s], hops[s], arrived[s][x], buffer, s, x)
    BY DEF QueuesInv, QueueInv
  <2>2. CASE s # r
    BY <1>2, <1>4, <2>1, <2>2
  <2>3. CASE s = r
    <3> DEFINE q == Queued(c, x)
               hs == hops[r]
               last == arrived[r][x]
    <3>1. last \in Nat
      BY QueueParts DEF QueuesInv
    <3>2. Queue(q, c, hs, last, buffer, r, x)
      BY <2>1, <2>3
    <3> HIDE DEF c, d, hs, last
    <3>3. Queued(d, x) = q
      BY <1>5 DEF Queued
    <3>4. Alike(c, d, x)
      BY <1>3, <1>5, ChainParts DEF Alike
    <3> HIDE DEF q
    <3>5. Queue(q, d, hs, last, buffer, r, x)
      BY <1>3, <1>5, <3>1, <3>2, <3>4, AlikeQueues
    <3> QED
      BY <1>2, <1>4, <2>3, <3>3, <3>5 DEF hs, last
  <2> QED
    BY <2>2, <2>3
<1>7. QueueInv'
  BY <1>2, <1>6 DEF QueueInv
<1>8. OrphansInv'
  BY <1>2, <1>4, <1>5 DEF QueuesInv, OrphansInv
<1> QED
  BY <1>7, <1>8

LEMMA QueuesSteps == QueuesInv /\ [Next]_vars => QueuesInv'
<1> SUFFICES ASSUME QueuesInv, [Next]_vars PROVE QueuesInv'
  OBVIOUS
<1>1. Inv'
  BY InvSteps DEF QueuesInv
<1> SUFFICES QueueInv' /\ OrphansInv'
  BY <1>1 DEF QueuesInv
<1>2. ASSUME NEW r \in Requests,
             SendRequest(r) \/ RepeatRequest(r) \/ HitCache(r) \/ Respond(r) \/ EndRequest(r)
      PROVE  QueueInv' /\ OrphansInv'
  <2>1. PICK e \in Base : Emits(r, e)
    BY <1>2, BrowserSteps DEF QueuesInv, Inv, Stable
  <2> QED
    BY <1>1, <2>1, EmitQueues
<1>3. CASE BeginFreeze \/ ReadClock \/ Drain \/ StopListening \/ Archive \/ Fail \/ Stop \/ UNCHANGED vars
  <2>1. /\ UNCHANGED <<hops, arrived, buffer, chain, dropped>>
        /\ phase \notin {"capturing", "freezing", "cut"} =>
             phase' \notin {"capturing", "freezing", "cut"}
    BY <1>3 DEF BeginFreeze, ReadClock, Drain, StopListening, Archive, Fail, Stop, vars, browser
  <2>2. QueueInv'
    BY <2>1 DEF QueuesInv, QueueInv
  <2>3. OrphansInv'
    BY <2>1 DEF QueuesInv, OrphansInv
  <2> QED
    BY <2>2, <2>3
<1> QED
  BY <1>1, <1>2, <1>3, DeliverQueues, DeliverExtraQueues, ReplayQueues, FreezeQueues, FetchQueues
     DEF Next

LEMMA QueuesInit == Init => QueuesInv
<1> SUFFICES ASSUME Init PROVE QueuesInv
  OBVIOUS
<1>0. DOMAIN <<>> = {} /\ Len(<<>>) = 0 /\ <<>> \o <<>> = <<>>
  OBVIOUS
<1>1. Inv
  BY InvInit
<1>2. ASSUME NEW r \in Requests, NEW x \in Extras
      PROVE  Queue(Queued(chain[r], x), chain[r], hops[r], arrived[r][x], buffer, r, x)
  <2>1. /\ buffer = <<>> /\ hops[r] = <<>> /\ arrived[r][x] = 0
        /\ chain[r].entries = <<>> /\ chain[r].pending = None /\ chain[r].orphans = None
    BY DEF Init
  <2>2. Queued(chain[r], x) = <<>> /\ Last(chain[r]) = 0
    BY <1>0, <2>1 DEF Queued, None, Last
  <2>3. DOMAIN Queued(chain[r], x) = {} /\ Buffered(buffer, r, x) = {}
    BY <1>0, <2>1, <2>2 DEF Buffered
  <2>4. \A n \in Positions : ~(n <= 0)
    BY PositionsAreNumbers
  <2>5. \A i \in 1 .. 0 : FALSE
    OBVIOUS
  <2> QED
    BY <1>0, <2>1, <2>2, <2>3, <2>4, <2>5 DEF Queue, Ordered, Waiting
<1>3. QueueInv
  BY <1>2 DEF QueueInv
<1>4. OrphansInv
  BY DEF Init, OrphansInv
<1> QED
  BY <1>1, <1>3, <1>4 DEF QueuesInv

LEMMA QueuesAlways == Spec => []QueuesInv
BY QueuesInit, QueuesSteps, PTL DEF Spec

(***************************************************************************)
(* The headers and cookies an entry is given are those of its own hop,     *)
(* however the supplemental events interleave with the base events, the    *)
(* cutoff and its replay, and although they say nothing of their hop;      *)
(* except in requests of which an orphan was not kept, as those kept after *)
(* it are then shifted.                                                    *)
(***************************************************************************)
THEOREM ExtrasAreNotConfused == Spec => []ExtrasNotShiftedUnlessDropped
<1>1. QueuesInv => ExtrasNotShiftedUnlessDropped
  <2> SUFFICES ASSUME QueuesInv, NEW r \in Requests \ dropped,
                      NEW i \in DOMAIN chain[r].entries, NEW x \in Extras
               PROVE  chain[r].entries[i].extra[x] \in {0, i}
    BY DEF ExtrasNotShiftedUnlessDropped
  <2>1. i \in 1 .. Last(chain[r])
    BY ChainParts DEF QueuesInv, Inv, Stable, TypesInv
  <2> QED
    BY <2>1 DEF QueuesInv, QueueInv, Queue
<1> QED
  BY <1>1, QueuesAlways, PTL

-----------------------------------------------------------------------------
(* The bound on the orphans kept.                                          *)

FewOrphans == IsFiniteSet(Orphans) /\ Cardinality(Orphans) <= MaxOrphans

LEMMA OrphansShrink ==
  ASSUME FewOrphans, \A r \in Requests : chain'[r].orphans \in {chain[r].orphans, None}
  PROVE  FewOrphans'
<1>1. \A x \in Extras : DOMAIN None[x] = {}
  BY DEF None
<1>2. Orphans' \subseteq Orphans
  BY <1>1 DEF Orphans
<1>3. /\ IsFiniteSet(Orphans') /\ Cardinality(Orphans') <= Cardinality(Orphans)
      /\ Cardinality(Orphans') \in Nat /\ Cardinality(Orphans) \in Nat
  BY <1>2, FS_Subset, FS_CardinalityType DEF FewOrphans
<1> QED
  BY <1>3, ConstantsAssumption DEF FewOrphans

LEMMA OrphanKept ==
  ASSUME TypesInv, FewOrphans, OrphansFit, NEW r \in Requests, NEW e \in Event, e.type \in Extras,
         chain' = [chain EXCEPT ![r].orphans[e.type] = Append(@, e.hop)]
  PROVE  FewOrphans'
<1> DEFINE os == chain[r].orphans[e.type]
           one == <<r, e.type, Len(os) + 1>>
<1>1. os \in Seq(Positions) /\ e.hop \in Positions
  BY ChainParts, PositionsAreNumbers DEF TypesInv
<1>2. \A i \in DOMAIN Append(os, e.hop) : i \in DOMAIN os \/ i = Len(os) + 1
  BY <1>1, Appended
<1>3. ASSUME NEW s \in Requests, NEW x \in Extras
      PROVE  chain'[s].orphans[x] =
               IF s = r /\ x = e.type THEN Append(os, e.hop) ELSE chain[s].orphans[x]
  BY DEF TypesInv, Chain
<1>4. ASSUME NEW s \in Requests, NEW x \in Extras, NEW i \in DOMAIN chain'[s].orphans[x]
      PROVE  i \in DOMAIN chain[s].orphans[x] \/ <<s, x, i>> = one
  BY <1>2, <1>3
<1> HIDE DEF one, os
<1>5. Orphans' \subseteq Orphans \cup {one}
  <2> SUFFICES ASSUME NEW t \in Orphans' PROVE t \in Orphans \/ t = one
    OBVIOUS
  <2>1. PICK s \in Requests, x \in Extras : \E i \in DOMAIN chain'[s].orphans[x] : t = <<s, x, i>>
    BY DEF Orphans
  <2>2. PICK i \in DOMAIN chain'[s].orphans[x] : t = <<s, x, i>>
    BY <2>1
  <2>3. ASSUME i \in DOMAIN chain[s].orphans[x] PROVE <<s, x, i>> \in Orphans
    <3> DEFINE kept(q, y) == {<<q, y, j>> : j \in DOMAIN chain[q].orphans[y]}
    <3>1. <<s, x, i>> \in kept(s, x)
      BY <2>3
    <3>2. Orphans = UNION {kept(q, y) : q \in Requests, y \in Extras}
      BY DEF Orphans
    <3> HIDE DEF kept
    <3> QED
      BY <3>1, <3>2
  <2> QED
    BY <1>4, <2>2, <2>3
<1>6. /\ IsFiniteSet(Orphans \cup {one}) /\ Cardinality(Orphans) \in Nat
      /\ Cardinality(Orphans \cup {one}) <= Cardinality(Orphans) + 1
  <2> DEFINE S == Orphans
  <2>1. IsFiniteSet(S)
    BY DEF FewOrphans
  <2> HIDE DEF S
  <2>2. Cardinality(S) \in Nat
    BY <2>1, FS_CardinalityType
  <2>3. /\ IsFiniteSet(S \cup {one})
        /\ Cardinality(S \cup {one}) = IF one \in S THEN Cardinality(S) ELSE Cardinality(S) + 1
    BY <2>1, FS_AddElement
  <2>4. /\ IsFiniteSet(S \cup {one}) /\ Cardinality(S) \in Nat
        /\ Cardinality(S \cup {one}) <= Cardinality(S) + 1
    BY <2>2, <2>3
  <2> QED
    BY <2>4 DEF S
<1>7. /\ IsFiniteSet(Orphans') /\ Cardinality(Orphans') <= Cardinality(Orphans \cup {one})
  BY <1>5, <1>6, FS_Subset
<1>8. Cardinality(Orphans') \in Nat /\ Cardinality(Orphans \cup {one}) \in Nat
  BY <1>6, <1>7, FS_CardinalityType
<1> QED
  BY <1>6, <1>7, <1>8, ConstantsAssumption DEF FewOrphans, OrphansFit

LEMMA HandleFew ==
  ASSUME TypesInv, SettledInv, FewOrphans, NEW r \in Requests, NEW e \in Event, NEW buffered,
         Handle(r, e, buffered)
  PROVE  FewOrphans'
<1>1. chain[r] \in Chain /\ Settled(chain[r]) /\ chain \in [Requests -> Chain]
  BY DEF TypesInv, SettledInv
<1>2. CASE Ignore(r, e)
  <2>1. \A s \in Requests : chain'[s].orphans = chain[s].orphans
    BY <1>1, <1>2 DEF Ignore, Chain
  <2> QED
    BY <2>1, OrphansShrink
<1>3. CASE Orphan(chain[r], e) /\ KeepOrphan(r, e)
  <2>1. CASE OrphansFit
    <3>1. e.type \in Extras /\ chain' = [chain EXCEPT ![r].orphans[e.type] = Append(@, e.hop)]
      BY <1>3, <2>1 DEF KeepOrphan, Orphan
    <3> QED
      BY <2>1, <3>1, OrphanKept
  <2>2. CASE ~OrphansFit
    <3>1. chain' = chain
      BY <1>3, <2>2 DEF KeepOrphan
    <3> QED
      BY <3>1, OrphansShrink
  <2> QED
    BY <2>1, <2>2
<1>4. CASE Record(r, e)
  <2> DEFINE m == Recorded(chain[r], e)
  <2>1. m \in Chain /\ m.orphans \in {chain[r].orphans, None}
    <3>1. m \in Chain
      BY <1>1, RecordedSettles
    <3>2. m.orphans \in {chain[r].orphans, None}
      BY <1>1, RecordedOrphans
    <3> QED
      BY <3>1, <3>2
  <2>2. PICK d \in {m, Scheduled(m)} : chain' = [chain EXCEPT ![r] = d]
    BY <1>4 DEF Record, Schedule, Scheduled
  <2> HIDE DEF m
  <2>3. d.orphans = m.orphans
    BY <2>1, <2>2, ScheduledParts
  <2>4. \A s \in Requests : chain'[s] = IF s = r THEN d ELSE chain[s]
    BY <1>1, <2>2
  <2>5. \A s \in Requests : chain'[s].orphans \in {chain[s].orphans, None}
    BY <2>1, <2>3, <2>4
  <2> QED
    BY <2>5, OrphansShrink
<1> QED
  BY <1>2, <1>3, <1>4 DEF Handle

LEMMA ListenFew ==
  ASSUME TypesInv, SettledInv, FewOrphans, NEW r \in Requests, NEW e \in Event, Listen(r, e)
  PROVE  FewOrphans'
<1>1. CASE Buffering
  <2>1. chain' = chain
    BY <1>1 DEF Listen
  <2> QED
    BY <2>1, OrphansShrink
<1>2. CASE ~Buffering
  BY <1>2, HandleFew DEF Listen
<1> QED
  BY <1>1, <1>2

LEMMA FewSteps == Inv /\ FewOrphans /\ [Next]_vars => FewOrphans'
<1> SUFFICES ASSUME Inv, FewOrphans, [Next]_vars PROVE FewOrphans'
  OBVIOUS
<1>0. TypesInv /\ SettledInv
  BY DEF Inv, Stable
<1>1. ASSUME NEW r \in Requests, Deliver(r) PROVE FewOrphans'
  <2>1. Head(wire[r]) \in Event /\ Listen(r, Head(wire[r]))
    BY <1>0, <1>1, HeadTailProperties DEF Deliver, TypesInv
  <2> QED
    BY <1>0, <2>1, ListenFew
<1>2. ASSUME NEW r \in Requests, NEW x \in Extras, DeliverExtra(r, x) PROVE FewOrphans'
  <2>1. PICK n \in DOMAIN hops[r] :
          Listen(r, [type |-> x, hop |-> n, extra |-> FALSE, late |-> FALSE])
    BY <1>2 DEF DeliverExtra
  <2>2. n \in 1 .. MaxHops
    <3>1. n \in 1 .. Len(hops[r]) /\ Len(hops[r]) \in Nat /\ Len(hops[r]) <= MaxHops
      BY DEF Inv, Stable, TypesInv, BrowserInv
    <3> QED
      BY <3>1, ConstantsAssumption
  <2>3. [type |-> x, hop |-> n, extra |-> FALSE, late |-> FALSE] \in Event
    BY <2>2 DEF Event, Types
  <2> QED
    BY <1>0, <2>1, <2>3, ListenFew
<1>3. CASE Replay
  <2>1. Head(buffer) \in Requests \X Event /\ Handle(Head(buffer)[1], Head(buffer)[2], TRUE)
    BY <1>0, <1>3, HeadTailProperties DEF Replay, TypesInv
  <2>2. Head(buffer)[1] \in Requests /\ Head(buffer)[2] \in Event
    BY <2>1
  <2> QED
    BY <1>0, <2>1, <2>2, HandleFew
<1>4. CASE Freeze
  <2>1. \A r \in Requests : chain[r] \in Chain
    BY <1>0 DEF TypesInv
  <2>2. \A r \in Requests : Reconciled(chain[r]).orphans = chain[r].orphans
    BY <2>1, ReconciledParts DEF AsBefore
  <2> QED
    BY <1>4, <2>2, OrphansShrink DEF Freeze
<1>5. ASSUME NEW r \in Requests, NEW i \in 1 .. MaxHops, Fetch(r, i) PROVE FewOrphans'
  <2>1. PICK body : chain' = [chain EXCEPT ![r].entries[i].body = body]
    BY <1>5 DEF Fetch
  <2>2. \A s \in Requests : chain'[s].orphans = chain[s].orphans
    BY <1>0, <2>1 DEF TypesInv, Chain
  <2> QED
    BY <2>2, OrphansShrink
<1>6. ASSUME UNCHANGED chain PROVE FewOrphans'
  BY <1>6, OrphansShrink
<1>7. ASSUME NEW r \in Requests,
             SendRequest(r) \/ RepeatRequest(r) \/ HitCache(r) \/ Respond(r) \/ EndRequest(r)
      PROVE  UNCHANGED chain
  BY <1>7 DEF SendRequest, RepeatRequest, HitCache, Respond, EndRequest, Emit
<1>8. CASE BeginFreeze \/ ReadClock \/ Drain \/ StopListening \/ Archive \/ Fail \/ Stop \/ UNCHANGED vars
  BY <1>6, <1>8 DEF BeginFreeze, ReadClock, Drain, StopListening, Archive, Fail, Stop, vars
<1> QED
  BY <1>1, <1>2, <1>3, <1>4, <1>5, <1>6, <1>7, <1>8 DEF Next

LEMMA FewInit == Init => FewOrphans
<1> SUFFICES ASSUME Init PROVE FewOrphans
  OBVIOUS
<1>1. DOMAIN <<>> = {}
  OBVIOUS
<1>2. \A r \in Requests, x \in Extras : chain[r].orphans[x] = <<>>
  BY DEF Init, None
<1>3. Orphans = {}
  BY <1>1, <1>2 DEF Orphans
<1> QED
  BY <1>3, FS_EmptySet, ConstantsAssumption DEF FewOrphans

(***************************************************************************)
(* Every variable keeps to its type, and of all requests together no more  *)
(* than maxFrozenOrphanExtras orphans are ever kept, those adopted by      *)
(* their request making room for others.                                   *)
(***************************************************************************)
THEOREM Typing == Spec => []TypeOK
<1>1. Inv /\ FewOrphans => TypeOK
  BY DEF Inv, Stable, TypesInv, TasksInv, FewOrphans, TypeOK
<1> QED
  BY <1>1, InvInit, InvSteps, FewInit, FewSteps, PTL DEF Spec
=============================================================================
