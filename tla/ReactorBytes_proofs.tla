-------------------------- MODULE ReactorBytes_proofs --------------------------
(***************************************************************************)
(* A machine-checked proof about the data of Reactor: what the program     *)
(* receives of a stream, however its reads are split between the buffer,   *)
(* the reactor and the threads of several actors.                          *)
(*   BytesHaveOneHolderAlways         Spec => []BytesHaveOneHolder         *)
(*   OneReaderKeepsOrderAlways        Spec => []OneReaderKeepsOrder        *)
(***************************************************************************)
EXTENDS Reactor_proofs

-----------------------------------------------------------------------------
(* The invariants. *)

\* The bytes handed over are split between the buffer and the calls.
Split ==
  /\ Distinct(buf) /\ \A j \in Jobs : Distinct(got[j])
  /\ Elems(buf) \subseteq 1..handed /\ \A j \in Jobs : Elems(got[j]) \subseteq 1..handed
  /\ \A x \in 1..handed : x \in Elems(buf) \/ \E j \in Jobs : x \in Elems(got[j])
  /\ \A j \in Jobs : Elems(got[j]) \cap Elems(buf) = {}
  /\ \A j, k \in Jobs : j # k => Elems(got[j]) \cap Elems(got[k]) = {}

\* A call that takes its result in one piece has nothing before, but for what a
\* framed read is about to put behind the buffer.
WholeInv ==
  \A j \in Jobs : op[j].name \in {"until", "item"} /\ stage[j] # "done" /\ phase[j] # "push"
                  => got[j] = <<>>

\* A framed read takes what is left only after the end of the stream.
RestInv == \A j \in Jobs : phase[j] = "rest" => Ended

\* What a successful call returns.
Framed(j) == Ended \/ (got[j] # <<>> /\ \A i \in DOMAIN got[j] :
                                          got[j][i] \in Delims <=> i = Len(got[j]))

ResultInv ==
  \A j \in Jobs : /\ answer[j] # "none" => stage[j] = "done"
                  /\ answer[j] = "ok" /\ op[j].name = "exact" => Len(got[j]) = op[j].n
                  /\ answer[j] = "ok" /\ op[j].name = "until" => Framed(j)

BInv == Split /\ WholeInv /\ RestInv /\ ResultInv

\* Until two threads read at once, no read is under way beside one on its
\* actor's thread (the reactor's thread drives one at a time).
MixInv ==
  ~mixed => \A j, k \in Jobs :
              j # k /\ op[j].name \in Reads /\ op[k].name \in Reads /\ Inline(j)
              => stage[k] \notin {"queued", "driven", "table", "inline"}

\* The bytes of s came before those of t.
Ahead(s, t) == \A x \in Elems(s), y \in Elems(t) : x < y

\* Where a read is in its system call, having found too little in the buffer.
Asking == {"call", "asleep", "held"}

\* What is buffered came after all that the calls have, but for what a framed read
\* is about to put behind it.
AheadInv ==
  /\ Rising(buf) /\ \A j \in Jobs : Rising(got[j])
  /\ \A j \in Jobs : phase[j] # "push" => Ahead(got[j], buf)
  /\ \A j \in Jobs : phase[j] = "push" =>
       Ahead(buf, got[j]) /\ \A k \in Jobs : k # j => Ahead(got[k], got[j])
  /\ kind \notin {"tcp", "tls"} => buf = <<>>

\* The buffer stays what the read that is in its system call has found.
FoundInv ==
  \A j \in Jobs :
    /\ phase[j] \in Asking /\ op[j].name \in {"chunk", "exact", "all"} => buf = <<>>
    /\ phase[j] \in Asking \cup {"push", "rest"} /\ op[j].name = "until" => ~HasDelim

\* A frame has no delimiter but its last byte.
OneFrame(s) == \A i \in DOMAIN s : s[i] \in Delims => i = Len(s)

FrameInv == \A j \in Jobs : answer[j] = "ok" /\ op[j].name = "until" => OneFrame(got[j])

OrderInv == ~mixed => AheadInv /\ FoundInv /\ FrameInv

-----------------------------------------------------------------------------
(* Sequences of bytes *)

LEMMA ElemsAre ==
  ASSUME NEW S, NEW s \in Seq(S)
  PROVE  /\ \A x : x \in Elems(s) <=> \E i \in 1..Len(s) : s[i] = x
         /\ Elems(s) \subseteq S
         /\ Distinct(s) <=> \A i, k \in 1..Len(s) : i # k => s[i] # s[k]
<1>1. DOMAIN s = 1..Len(s) /\ \A i \in 1..Len(s) : s[i] \in S
  OBVIOUS
<1> QED
  BY <1>1 DEF Elems, Distinct

\* Nothing is held by an empty buffer.
LEMMA NoElems ==
  /\ Elems(<<>>) = {} /\ Distinct(<<>>)
  BY DEF Elems, Distinct

\* What follows a concatenation's parts.
LEMMA ElemsOfConcat ==
  ASSUME NEW S, NEW s \in Seq(S), NEW t \in Seq(S)
  PROVE  Elems(s \o t) = Elems(s) \cup Elems(t)
<1>1. /\ s \o t \in Seq(S) /\ Len(s \o t) = Len(s) + Len(t) /\ Len(s) \in Nat /\ Len(t) \in Nat
      /\ \A i \in 1..(Len(s) + Len(t)) : (s \o t)[i] = IF i <= Len(s) THEN s[i] ELSE t[i - Len(s)]
  BY ConcatProperties
<1>2. ASSUME NEW x \in Elems(s \o t) PROVE x \in Elems(s) \cup Elems(t)
  <2>1. PICK i \in 1..(Len(s) + Len(t)) : (s \o t)[i] = x
    BY <1>1, <1>2, ElemsAre
  <2>2. CASE i <= Len(s)
    <3>1. i \in 1..Len(s) /\ s[i] = x
      BY <1>1, <2>1, <2>2
    <3> QED
      BY <3>1, ElemsAre
  <2>3. CASE ~(i <= Len(s))
    <3>1. i - Len(s) \in 1..Len(t) /\ t[i - Len(s)] = x
      BY <1>1, <2>1, <2>3
    <3> QED
      BY <3>1, ElemsAre
  <2> QED
    BY <2>2, <2>3
<1>3. ASSUME NEW x \in Elems(s) PROVE x \in Elems(s \o t)
  <2>1. PICK i \in 1..Len(s) : s[i] = x
    BY <1>3, ElemsAre
  <2>2. i \in 1..(Len(s) + Len(t)) /\ (s \o t)[i] = x
    BY <1>1, <2>1
  <2> QED
    BY <1>1, <2>2, ElemsAre
<1>4. ASSUME NEW x \in Elems(t) PROVE x \in Elems(s \o t)
  <2>1. PICK i \in 1..Len(t) : t[i] = x
    BY <1>4, ElemsAre
  <2>2. Len(s) + i \in 1..(Len(s) + Len(t)) /\ ~(Len(s) + i <= Len(s)) /\ Len(s) + i - Len(s) = i
    BY <1>1, <2>1
  <2>3. (s \o t)[Len(s) + i] = t[Len(s) + i - Len(s)]
    BY <1>1, <2>2
  <2>4. (s \o t)[Len(s) + i] = x
    BY <2>1, <2>2, <2>3
  <2> QED
    BY <1>1, <2>2, <2>4, ElemsAre
<1> QED
  BY <1>2, <1>3, <1>4

\* Sequences with nothing twice, and nothing in common, make one with nothing twice.
LEMMA DistinctConcat ==
  ASSUME NEW S, NEW s \in Seq(S), NEW t \in Seq(S), Distinct(s), Distinct(t),
         Elems(s) \cap Elems(t) = {}
  PROVE  Distinct(s \o t)
<1>1. /\ s \o t \in Seq(S) /\ Len(s \o t) = Len(s) + Len(t) /\ Len(s) \in Nat /\ Len(t) \in Nat
      /\ \A i \in 1..(Len(s) + Len(t)) : (s \o t)[i] = IF i <= Len(s) THEN s[i] ELSE t[i - Len(s)]
  BY ConcatProperties
<1>2. \A i \in 1..(Len(s) + Len(t)) : \/ i \in 1..Len(s) /\ (s \o t)[i] = s[i]
                                      \/ i - Len(s) \in 1..Len(t) /\ (s \o t)[i] = t[i - Len(s)]
  BY <1>1
<1>3. \A i \in 1..Len(s) : s[i] \in Elems(s)
  BY ElemsAre
<1>4. \A i \in 1..Len(t) : t[i] \in Elems(t)
  BY ElemsAre
<1>5. ASSUME NEW i \in 1..(Len(s) + Len(t)), NEW k \in 1..(Len(s) + Len(t)), i # k
      PROVE  (s \o t)[i] # (s \o t)[k]
  <2>1. CASE i \in 1..Len(s) /\ k \in 1..Len(s) /\ (s \o t)[i] = s[i] /\ (s \o t)[k] = s[k]
    BY <1>5, <2>1, ElemsAre
  <2>2. CASE /\ i - Len(s) \in 1..Len(t) /\ k - Len(s) \in 1..Len(t)
             /\ (s \o t)[i] = t[i - Len(s)] /\ (s \o t)[k] = t[k - Len(s)]
    <3>1. i - Len(s) # k - Len(s)
      BY <1>1, <1>5
    <3> QED
      BY <2>2, <3>1, ElemsAre
  <2>3. CASE /\ i \in 1..Len(s) /\ (s \o t)[i] = s[i]
             /\ k - Len(s) \in 1..Len(t) /\ (s \o t)[k] = t[k - Len(s)]
    BY <1>3, <1>4, <2>3
  <2>4. CASE /\ k \in 1..Len(s) /\ (s \o t)[k] = s[k]
             /\ i - Len(s) \in 1..Len(t) /\ (s \o t)[i] = t[i - Len(s)]
    BY <1>3, <1>4, <2>4
  <2> QED
    BY <1>2, <2>1, <2>2, <2>3, <2>4
<1> QED
  BY <1>1, <1>5, ElemsAre

\* A sequence with nothing twice, cut in two.
LEMMA CutDistinct ==
  ASSUME NEW S, NEW s \in Seq(S), Distinct(s), NEW n \in 0..Len(s)
  PROVE  /\ Distinct(SubSeq(s, 1, n)) /\ Distinct(SubSeq(s, n + 1, Len(s)))
         /\ Elems(s) = Elems(SubSeq(s, 1, n)) \cup Elems(SubSeq(s, n + 1, Len(s)))
         /\ Elems(SubSeq(s, 1, n)) \cap Elems(SubSeq(s, n + 1, Len(s))) = {}
<1> DEFINE p == SubSeq(s, 1, n)
           r == SubSeq(s, n + 1, Len(s))
<1>1. /\ p \in Seq(S) /\ Len(p) = n /\ \A i \in 1..n : p[i] = s[i]
      /\ r \in Seq(S) /\ Len(r) = Len(s) - n /\ \A i \in 1..(Len(s) - n) : r[i] = s[n + i]
  BY Cut
<1>2. Len(s) \in Nat /\ n \in Nat /\ n <= Len(s)
  OBVIOUS
<1>3. \A i, k \in 1..Len(s) : i # k => s[i] # s[k]
  BY ElemsAre
<1> HIDE DEF p, r
<1>4. \A x : x \in Elems(p) <=> \E i \in 1..n : s[i] = x
  <2>1. \A x : x \in Elems(p) <=> \E i \in 1..Len(p) : p[i] = x
    BY <1>1, ElemsAre
  <2> QED
    BY <1>1, <2>1
<1>5. \A x : x \in Elems(r) <=> \E i \in 1..(Len(s) - n) : s[n + i] = x
  <2>1. \A x : x \in Elems(r) <=> \E i \in 1..Len(r) : r[i] = x
    BY <1>1, ElemsAre
  <2>2. Len(r) = Len(s) - n /\ \A i \in 1..(Len(s) - n) : r[i] = s[n + i]
    BY <1>1
  <2>3. \A x : x \in Elems(r) <=> \E i \in 1..(Len(s) - n) : r[i] = x
    BY <2>1, <2>2
  <2> QED
    BY <2>2, <2>3
<1>6. \A i \in 1..(Len(s) - n) : n + i \in 1..Len(s) /\ n + i > n
  BY <1>2
<1>7. 1..n \subseteq 1..Len(s)
  BY <1>2
<1>8. Distinct(p)
  <2>1. \A i, k \in 1..Len(p) : i # k => p[i] # p[k]
    BY <1>1, <1>3, <1>7
  <2> QED
    BY <1>1, <2>1, ElemsAre
<1>9. Distinct(r)
  <2>1. ASSUME NEW i \in 1..Len(r), NEW k \in 1..Len(r), i # k PROVE r[i] # r[k]
    <3>1. n + i # n + k /\ r[i] = s[n + i] /\ r[k] = s[n + k]
          /\ n + i \in 1..Len(s) /\ n + k \in 1..Len(s)
      BY <1>1, <1>2, <1>6, <2>1
    <3> QED
      BY <1>3, <3>1
  <2> QED
    BY <1>1, <2>1, ElemsAre
<1>10. ASSUME NEW x \in Elems(p), NEW y \in Elems(r) PROVE x # y
  <2>1. PICK i \in 1..n : s[i] = x
    BY <1>4, <1>10
  <2>2. PICK k \in 1..(Len(s) - n) : s[n + k] = y
    BY <1>5, <1>10
  <2>3. i # n + k /\ i \in 1..Len(s) /\ n + k \in 1..Len(s)
    BY <1>2, <1>6, <1>7
  <2> QED
    BY <1>3, <2>1, <2>2, <2>3
<1>11. ASSUME NEW x \in Elems(s) PROVE x \in Elems(p) \/ x \in Elems(r)
  <2>1. PICK i \in 1..Len(s) : s[i] = x
    BY <1>11, ElemsAre
  <2>2. CASE i <= n
    <3>1. i \in 1..n
      BY <1>2, <2>2
    <3> QED
      BY <1>4, <2>1, <3>1
  <2>3. CASE ~(i <= n)
    <3>1. i - n \in 1..(Len(s) - n) /\ n + (i - n) = i
      BY <1>2, <2>3
    <3>2. s[n + (i - n)] = x
      BY <2>1, <3>1
    <3> QED
      BY <1>5, <3>1, <3>2
  <2> QED
    BY <2>2, <2>3
<1>12. Elems(p) \subseteq Elems(s) /\ Elems(r) \subseteq Elems(s)
  BY <1>4, <1>5, <1>6, <1>7, ElemsAre
<1>13. Elems(s) = Elems(p) \cup Elems(r)
  BY <1>11, <1>12
<1> QED
  BY <1>8, <1>9, <1>10, <1>13 DEF p, r

\* What the kernel hands over next is a block of numbers.
LEMMA ElemsOfIds ==
  ASSUME NEW m \in Nat, NEW n \in Nat, m <= n
  PROVE  Elems(Ids(m + 1, n)) = (m + 1)..n /\ Distinct(Ids(m + 1, n))
<1> DEFINE s == Ids(m + 1, n)
           S == (m + 1)..n
<1>1. s \in Seq(S) /\ Len(s) = n - m /\ \A i \in 1..(n - m) : s[i] = m + i
  BY IdsAre
<1> HIDE DEF s
<1>2. \A i, k \in 1..Len(s) : i # k => s[i] # s[k]
  BY <1>1
<1>3. \A x \in S : x - m \in 1..(n - m) /\ m + (x - m) = x
  OBVIOUS
<1> HIDE DEF S
<1>4. \A x \in S : s[x - m] = x
  BY <1>1, <1>3
<1>5. \A x \in S : x \in Elems(s)
  BY <1>1, <1>3, <1>4, ElemsAre
<1>6. Elems(s) \subseteq S /\ Distinct(s)
  BY <1>1, <1>2, ElemsAre
<1> QED
  BY <1>5, <1>6 DEF s, S

-----------------------------------------------------------------------------
(* The split *)

\* Whatever the buffered and the new bytes are given to, nothing is lost and
\* nothing is in two places.
LEMMA SplitKept ==
  ASSUME TypeOK, Split, NEW j \in Jobs, NEW G, NEW B, NEW h \in Nat, handed <= h,
         got' = [got EXCEPT ![j] = G], buf' = B, handed' = h,
         Distinct(G), Distinct(B), Elems(G) \cap Elems(B) = {},
         Elems(G) \cup Elems(B) = Elems(got[j]) \cup Elems(buf) \cup ((handed + 1)..h)
  PROVE  Split'
<1>1. handed \in Nat /\ got \in [Jobs -> Seq(1..MaxCame)]
  BY TypeHasNumbers DEF Numbers, TypeOK
<1>2. got'[j] = G /\ \A k \in Jobs : k # j => got'[k] = got[k]
  BY <1>1
<1>3. 1..handed \subseteq 1..h /\ (handed + 1)..h \subseteq 1..h
      /\ \A x \in 1..h : x \in 1..handed \/ x \in (handed + 1)..h
  BY <1>1
<1>4. Elems(G) \subseteq 1..h /\ Elems(B) \subseteq 1..h
  BY <1>3 DEF Split
<1>5. \A k \in Jobs : Distinct(got'[k]) /\ Elems(got'[k]) \subseteq 1..h
  BY <1>2, <1>3, <1>4 DEF Split
<1>6. ASSUME NEW x \in 1..h PROVE x \in Elems(B) \/ \E k \in Jobs : x \in Elems(got'[k])
  <2>1. CASE x \in Elems(G) \cup Elems(B)
    BY <1>2, <2>1
  <2>2. CASE x \notin Elems(G) \cup Elems(B)
    <3>1. x \in 1..handed /\ x \notin Elems(buf) /\ x \notin Elems(got[j])
      BY <1>3, <2>2
    <3>2. PICK k \in Jobs : x \in Elems(got[k])
      BY <3>1 DEF Split
    <3>3. k # j
      BY <3>1, <3>2
    <3> QED
      BY <1>2, <3>2, <3>3
  <2> QED
    BY <2>1, <2>2
<1>7. ASSUME NEW k \in Jobs, k # j PROVE Elems(got[k]) \cap (Elems(G) \cup Elems(B)) = {}
  <2>1. Elems(got[k]) \cap ((handed + 1)..h) = {}
    <3>1. Elems(got[k]) \subseteq 1..handed
      BY DEF Split
    <3>2. \A x \in 1..handed : x \notin (handed + 1)..h
      BY <1>1
    <3> QED
      BY <3>1, <3>2
  <2>2. Elems(got[k]) \cap Elems(got[j]) = {} /\ Elems(got[k]) \cap Elems(buf) = {}
    BY <1>7 DEF Split
  <2> QED
    BY <2>1, <2>2
<1>8. \A k \in Jobs : Elems(got'[k]) \cap Elems(B) = {}
  BY <1>2, <1>7
<1>9. ASSUME NEW k \in Jobs, NEW l \in Jobs, k # l PROVE Elems(got'[k]) \cap Elems(got'[l]) = {}
  <2>1. CASE k = j
    BY <1>2, <1>7, <1>9, <2>1
  <2>2. CASE l = j
    BY <1>2, <1>7, <1>9, <2>2
  <2>3. CASE k # j /\ l # j
    BY <1>2, <1>9, <2>3 DEF Split
  <2> QED
    BY <2>1, <2>2, <2>3
<1> QED
  BY <1>4, <1>5, <1>6, <1>8, <1>9 DEF Split

\* The bytes of the calls and of the buffer are numbers.
LEMMA SplitTypes ==
  ASSUME TypeOK
  PROVE  /\ buf \in Seq(1..MaxCame) /\ got \in [Jobs -> Seq(1..MaxCame)] /\ handed \in Nat
  BY TypeHasNumbers DEF Numbers, TypeOK

\* What is handed over next has no holder yet.
LEMMA NothingNew ==
  ASSUME TypeOK, Split, NEW h \in Nat
  PROVE  /\ (handed + 1)..handed = {} /\ handed <= handed
         /\ Elems(buf) \cap ((handed + 1)..h) = {}
         /\ \A j \in Jobs : Elems(got[j]) \cap ((handed + 1)..h) = {}
<1>1. handed \in Nat
  BY SplitTypes
<1>2. \A x \in 1..handed : x \notin (handed + 1)..h
  BY <1>1
<1> QED
  BY <1>1, <1>2 DEF Split

\* A look in the buffer moves bytes from one holder to another.
LEMMA SplitTake ==
  ASSUME TypeOK, SizeInv, Split, NEW j \in Jobs, LookInBuffer(j)
  PROVE  Split'
<1> DEFINE n == Share(j)
           S == 1..MaxCame
           p == SubSeq(buf, 1, n)
           r == SubSeq(buf, n + 1, Len(buf))
           G == got[j] \o p
<1>1. buf \in Seq(S) /\ got[j] \in Seq(S) /\ handed \in Nat
  BY SplitTypes
<1>2. handed' = handed
  BY DEF LookInBuffer, kernelVars
<1>3. CASE ~FromBuffer(j)
  BY <1>2, <1>3 DEF LookInBuffer, Split
<1>4. CASE FromBuffer(j)
  <2>1. n \in 0..Len(buf)
    BY <1>4, ShareBounds
  <2>2. got' = [got EXCEPT ![j] = G] /\ buf' = r
    BY <1>4 DEF LookInBuffer
  <2>3. Distinct(buf) /\ Distinct(got[j]) /\ Elems(got[j]) \cap Elems(buf) = {}
    BY DEF Split
  <2> HIDE DEF n, S
  <2>4. p \in Seq(S) /\ r \in Seq(S)
    BY <1>1, <2>1, Cut
  <2>5. /\ Distinct(p) /\ Distinct(r) /\ Elems(buf) = Elems(p) \cup Elems(r)
        /\ Elems(p) \cap Elems(r) = {}
    BY <1>1, <2>1, <2>3, CutDistinct
  <2> HIDE DEF p, r
  <2>6. Elems(G) = Elems(got[j]) \cup Elems(p)
    BY <1>1, <2>4, ElemsOfConcat
  <2>7. Elems(got[j]) \cap Elems(p) = {}
    BY <2>3, <2>5
  <2>8. Distinct(G)
    BY <1>1, <2>3, <2>4, <2>5, <2>7, DistinctConcat
  <2> HIDE DEF G
  <2>9. /\ Elems(G) \cap Elems(r) = {}
        /\ Elems(G) \cup Elems(r) = Elems(got[j]) \cup Elems(buf) \cup ((handed + 1)..handed)
    BY <1>1, <2>3, <2>5, <2>6, NothingNew
  <2> QED
    BY <1>1, <1>2, <2>2, <2>5, <2>8, <2>9, NothingNew, SplitKept
<1> QED
  BY <1>3, <1>4

\* So does putting back what a framed read has.
LEMMA SplitPush ==
  ASSUME TypeOK, Split, NEW j \in Jobs, Push(j)
  PROVE  Split'
<1> DEFINE B == buf \o got[j]
           S == 1..MaxCame
<1>1. buf \in Seq(S) /\ got[j] \in Seq(S) /\ handed \in Nat
  BY SplitTypes
<1>2. got' = [got EXCEPT ![j] = <<>>] /\ buf' = B /\ handed' = handed
  BY DEF Push, kernelVars
<1>3. Distinct(buf) /\ Distinct(got[j]) /\ Elems(buf) \cap Elems(got[j]) = {}
  BY DEF Split
<1> HIDE DEF S
<1>4. Elems(B) = Elems(buf) \cup Elems(got[j]) /\ Distinct(B)
  BY <1>1, <1>3, ElemsOfConcat, DistinctConcat
<1> HIDE DEF B
<1>5. /\ Elems(<<>>) \cap Elems(B) = {}
      /\ Elems(<<>>) \cup Elems(B) = Elems(got[j]) \cup Elems(buf) \cup ((handed + 1)..handed)
  BY <1>1, <1>4, NoElems, NothingNew
<1> QED
  BY <1>1, <1>2, <1>4, <1>5, NoElems, NothingNew, SplitKept

\* At the end of the stream it has nothing of its own, and gets what is buffered.
LEMMA SplitRest ==
  ASSUME TypeOK, Split, NEW j \in Jobs, TakeRest(j), got[j] = <<>>
  PROVE  Split'
<1>1. got' = [got EXCEPT ![j] = buf] /\ buf' = <<>> /\ handed' = handed /\ handed \in Nat
  BY SplitTypes DEF TakeRest, kernelVars
<1>2. /\ Elems(buf) \cap Elems(<<>>) = {} /\ Distinct(buf)
      /\ Elems(buf) \cup Elems(<<>>) = Elems(got[j]) \cup Elems(buf) \cup ((handed + 1)..handed)
  BY <1>1, NoElems, NothingNew DEF Split
<1> QED
  BY <1>1, <1>2, NoElems, NothingNew, SplitKept

\* Bytes received from the kernel have no holder yet, and get one.
LEMMA SplitRead ==
  ASSUME TypeOK, SizeInv, Split, NEW j \in Jobs, ReadBytes(j), buf' = buf
  PROVE  Split'
<1> DEFINE n == Wanted(j)
           h == NextHanded(n)
           S == 1..MaxCame
           new == Ids(handed + 1, h)
           G == got[j] \o new
<1>1. buf \in Seq(S) /\ got[j] \in Seq(S) /\ handed \in Nat
  BY SplitTypes
<1>2. n \in Nat
  BY WantedIsNat
<1>3. handed' = h /\ got' = [got EXCEPT ![j] = G]
  BY DEF ReadBytes, Receive
<1> HIDE DEF n
<1>4. h \in Nat /\ handed <= h
  <2>1. h \in handed..came /\ came \in Nat
    BY <1>2, NextHandedBounds, TypeHasNumbers DEF Numbers
  <2> QED
    BY <1>1, <2>1
<1>5. new \in Seq(S)
  BY <1>2, NewBytes
<1> HIDE DEF h, S
<1>6. Elems(new) = (handed + 1)..h /\ Distinct(new)
  BY <1>1, <1>4, ElemsOfIds
<1>7. Distinct(buf) /\ Distinct(got[j]) /\ Elems(got[j]) \cap Elems(buf) = {}
  BY DEF Split
<1>8. Elems(buf) \cap ((handed + 1)..h) = {} /\ Elems(got[j]) \cap ((handed + 1)..h) = {}
  BY <1>4, NothingNew
<1> HIDE DEF new
<1>9. Elems(G) = Elems(got[j]) \cup Elems(new) /\ Distinct(G)
  <2>1. Elems(G) = Elems(got[j]) \cup Elems(new)
    BY <1>1, <1>5, ElemsOfConcat
  <2>2. Elems(got[j]) \cap Elems(new) = {}
    BY <1>6, <1>8
  <2>3. Distinct(G)
    BY <1>1, <1>5, <1>6, <1>7, <2>2, DistinctConcat
  <2> QED
    BY <2>1, <2>3
<1> HIDE DEF G
<1>10. /\ Elems(G) \cap Elems(buf) = {}
       /\ Elems(G) \cup Elems(buf) = Elems(got[j]) \cup Elems(buf) \cup ((handed + 1)..h)
  BY <1>6, <1>7, <1>8, <1>9
<1> QED
  BY <1>3, <1>4, <1>7, <1>9, <1>10, SplitKept

\* A connection or datagram goes to one call.
LEMMA SplitItem ==
  ASSUME TypeOK, SizeInv, Split, NEW j \in Jobs, TakeItem(j), got[j] = <<>>
  PROVE  Split'
<1>1. op[j].name = "item" /\ buf' = buf
  BY DEF TakeItem
<1>2. kind \notin {"tcp", "tls"}
  BY <1>1 DEF SizeInv, Suits, Items
<1>3. CASE came > handed
  <2> DEFINE G == Ids(handed + 1, handed + 1)
  <2>1. got' = [got EXCEPT ![j] = G] /\ handed' = NextHanded(1)
    BY <1>3 DEF TakeItem, Receive
  <2>2. handed \in Nat /\ came \in Nat
    BY TypeHasNumbers DEF Numbers
  <2>3. NextHanded(1) = handed + 1
    BY <1>2, <1>3, <2>2 DEF NextHanded, Lesser
  <2>4. Elems(G) = (handed + 1)..(handed + 1) /\ Distinct(G)
    BY <2>2, ElemsOfIds
  <2> HIDE DEF G
  <2>5. handed + 1 \in Nat /\ handed <= handed + 1
    BY <2>2
  <2>6. Elems(got[j]) = {} /\ Distinct(buf) /\ Elems(G) \cap Elems(buf) = {}
    BY <2>4, <2>5, NoElems, NothingNew DEF Split
  <2>7. Elems(G) \cup Elems(buf) = Elems(got[j]) \cup Elems(buf) \cup ((handed + 1)..(handed + 1))
    BY <2>4, <2>6
  <2> QED
    BY <1>1, <2>1, <2>3, <2>4, <2>5, <2>6, <2>7, SplitKept
<1>4. CASE ~(came > handed)
  <2>1. UNCHANGED <<got, buf, handed>>
    BY <1>1, <1>4 DEF TakeItem, kernelVars
  <2> QED
    BY <2>1 DEF Split
<1> QED
  BY <1>3, <1>4

\* The end of a stream hands nothing over.
LEMMA EndHandsNothing ==
  ASSUME TypeOK, NEW j \in Jobs, ReadEnd(j)
  PROVE  UNCHANGED <<got, handed, eof, shut>> /\ Ended
<1>1. /\ handed' = NextHanded(0) /\ came = handed /\ taken >= handed /\ handed \in Nat
      /\ UNCHANGED <<got, eof, shut>>
  BY TypeHasNumbers DEF Numbers, ReadEnd, Receive
<1>2. handed' = handed
  BY <1>1, TypeHasNumbers DEF NextHanded, Lesser, Numbers
<1>3. Ended
  BY DEF ReadEnd, ReadBlocks
<1> QED
  BY <1>1, <1>2, <1>3

-----------------------------------------------------------------------------
(* What steps touch the bytes *)

\* A call under way is not over.
LEMMA UnderWayIsOpen ==
  ASSUME CursorInv, NEW j \in Jobs, phase[j] # "idle"
  PROVE  stage[j] # "done" /\ stage[j] # "new" /\ stage[j] # "queued"
  BY ReactorAssumption DEF CursorInv, Inline

\* An Io moves its own call's bytes only, and answers nobody else.
LEMMA IoOwn ==
  ASSUME TypeOK, NEW j \in Jobs, Io(j)
  PROVE  /\ \A k \in Jobs : k # j => /\ got'[k] = got[k] /\ answer'[k] = answer[k]
                                     /\ stage'[k] = stage[k] /\ phase'[k] = phase[k]
         /\ answer'[j] = answer[j] \/ stage'[j] = "done"
<1>t. /\ got \in [Jobs -> Seq(1..MaxCame)] /\ stage \in [Jobs -> Stages]
      /\ answer \in [Jobs -> Answers] /\ phase \in [Jobs -> Phases]
  BY DEF TypeOK, Answers, Whats
<1>1. \A k \in Jobs : k # j => got'[k] = got[k]
  <2>1. got' = got \/ \E G : got' = [got EXCEPT ![j] = G]
    <3>1. CASE LookInBuffer(j) \/ Push(j) \/ TakeRest(j)
      BY <3>1 DEF LookInBuffer, Push, TakeRest
    <3>2. CASE Read(j)
      BY <3>2 DEF Read, ReadBytes, ReadEnd, ReadBroken, ReadWaits
    <3>3. CASE Write(j)
      BY <3>3 DEF Write
    <3>4. CASE TakeItem(j)
      BY <3>4 DEF TakeItem
    <3> QED
      BY <3>1, <3>2, <3>3, <3>4 DEF Io
  <2> QED
    BY <1>t, <2>1
<1>2. ASSUME NEW what \in Whats, Done(j, what)
      PROVE  /\ stage'[j] = "done"
             /\ \A k \in Jobs : k # j => /\ answer'[k] = answer[k] /\ stage'[k] = stage[k]
                                         /\ phase'[k] = phase[k]
  BY <1>t, <1>2 DEF Done, Answer
<1>3. ASSUME NEW to, GoOn(j, to)
      PROVE  /\ UNCHANGED <<answer, stage>>
             /\ \A k \in Jobs : k # j => phase'[k] = phase[k]
  BY <1>t, <1>3 DEF GoOn
<1> QED
  BY <1>1, <1>2, <1>3, IoOutcome DEF Outcome

\* What a step that touches no bytes leaves alone: besides the bytes, who is about
\* to put some back or to take the rest, and which reads are in their system calls.
Elsewhere ==
  /\ UNCHANGED <<kind, op, got, buf, handed>>
  /\ \A k \in Jobs :
       (\/ phase[k] \in {"push", "rest"} \/ phase'[k] \in {"push", "rest"}
        \/ op[k].name \in Reads /\ phase'[k] \in Asking)
       => phase'[k] = phase[k]

\* Nothing but an Io touches the bytes.
LEMMA IoOrNothing ==
  ASSUME TypeOK, CursorInv, QueueInv, FateInv, [Next]_vars
  PROVE  (\E j \in Jobs : Io(j)) \/ Elsewhere
<1>t. phase \in [Jobs -> Phases] /\ msgs \in Seq(Jobs \cup {None}) /\ batch \subseteq Jobs
      /\ cur \in Jobs \cup {None}
  BY DEF TypeOK
\* The phase may move elsewhere, and from elsewhere.
<1>m. ASSUME NEW j \in Jobs, phase[j] \notin {"push", "rest"}, NEW to, to \notin {"push", "rest"},
             op[j].name \in Reads => to \notin Asking,
             phase' = [phase EXCEPT ![j] = to], UNCHANGED <<kind, op, got, buf, handed>>
      PROVE  Elsewhere
  BY <1>t, <1>m DEF Elsewhere
<1>s. ASSUME UNCHANGED <<phase, kind, op, got, buf, handed>> PROVE Elsewhere
  BY <1>s DEF Elsewhere
<1>1. ASSUME NEW j \in Jobs,
             TestFlag(j) \/ SwitchMode(j) \/ StoreFlag(j) \/ CheckClosed(j) \/ TimeOut(j)
      PROVE  Elsewhere
  <2>1. UNCHANGED <<kind, op, got, buf, handed>> /\ phase[j] \notin {"push", "rest"}
    BY <1>1 DEF TestFlag, SwitchMode, StoreFlag, CheckClosed, TimeOut, sockVars, kernelVars
  <2>2. \E to : /\ to \notin {"push", "rest"} /\ (op[j].name \in Reads => to \notin Asking)
                /\ phase' = [phase EXCEPT ![j] = to]
    BY <1>1 DEF TestFlag, SwitchMode, StoreFlag, CheckClosed, TimeOut, GoOn, Done, Answer, Asking
  <2> QED
    BY <1>m, <2>1, <2>2
<1>2. ASSUME NEW j \in Jobs, Submit(j) \/ CallInline(j) \/ Abandon(j) PROVE Elsewhere
  <2>1. UNCHANGED <<kind, op, got, buf, handed>>
    BY <1>2 DEF Submit, CallInline, Abandon, sockVars, kernelVars
  <2>2. CASE Submit(j) \/ Abandon(j)
    BY <1>s, <2>1, <2>2 DEF Submit, Abandon
  <2>3. CASE CallInline(j)
    <3>1. phase' = [phase EXCEPT ![j] = "mode"] /\ stage[j] = "new"
      BY <2>3 DEF CallInline, FateInv
    <3>2. phase[j] = "idle"
      BY <3>1, UnderWayIsOpen
    <3> QED
      BY <1>m, <2>1, <3>1, <3>2 DEF Asking
  <2> QED
    BY <1>2, <2>2, <2>3
<1>3. CASE DrainSubmit
  <2>1. /\ msgs # <<>> /\ Head(msgs) # None /\ UNCHANGED <<kind, op, got, buf, handed>>
        /\ phase' = [phase EXCEPT ![Head(msgs)] = "handle"]
    BY <1>3 DEF DrainSubmit, sockVars, kernelVars
  <2>2. Head(msgs) = msgs[1] /\ 1 \in 1..Len(msgs) /\ Head(msgs) \in Jobs
    BY <1>t, <2>1
  <2>3. stage[Head(msgs)] = "queued"
    BY <2>1, <2>2 DEF QueueInv
  <2>4. phase[Head(msgs)] = "idle"
    BY <2>2, <2>3, UnderWayIsOpen
  <2> QED
    BY <1>m, <2>1, <2>2, <2>4 DEF Asking
<1>4. CASE Register \/ Rearm
  <2>1. /\ cur \in Jobs /\ phase[cur] = "park" /\ UNCHANGED <<kind, op, got, buf, handed>>
        /\ phase' = [phase EXCEPT ![cur] = "idle"]
    BY <1>t, <1>4 DEF Register, Rearm, CursorInv, Done, Answer, sockVars, kernelVars
  <2> QED
    BY <1>m, <2>1 DEF Asking
<1>5. CASE TakeEvent
  <2>1. UNCHANGED <<kind, op, got, buf, handed>> /\ cur = None
    BY <1>5 DEF TakeEvent, CursorInv, sockVars, kernelVars
  <2>2. PICK j \in Jobs : \/ UNCHANGED phase
                          \/ stage[j] = "table" /\ phase' = [phase EXCEPT ![j] = "check"]
    BY <1>5, <1>t DEF TakeEvent
  <2>3. stage[j] = "table" => phase[j] = "idle"
    BY <2>1, ReactorAssumption DEF CursorInv, Inline
  <2> QED
    BY <1>m, <1>s, <2>1, <2>2, <2>3 DEF Asking
<1>6. CASE Wait \/ DrainCancel \/ DrainEnd \/ EventsEnd \/ Notify
  BY <1>6, <1>s DEF Wait, DrainCancel, DrainEnd, EventsEnd, Notify, callVars, sockVars, kernelVars
<1>7. CASE Close \/ Peer \/ Quiet \/ UNCHANGED vars
  BY <1>7, <1>s DEF Close, Peer, PeerSends, PeerEnds, PeerReceives, Quiet, vars, callVars,
     sockVars, kernelVars
<1> QED
  BY <1>1, <1>2, <1>3, <1>4, <1>5, <1>6, <1>7 DEF Next, Loop, InlineStep, CallStep

\* Every step keeps the bytes split among their holders.
LEMMA SplitStep ==
  ASSUME IInv, Split, WholeInv, [Next]_vars
  PROVE  Split'
<1>i. TypeOK /\ SizeInv /\ CursorInv /\ PlaceInv /\ QueueInv /\ FateInv
  BY DEF IInv
<1>n. ASSUME UNCHANGED <<got, buf, handed>> PROVE Split'
  BY <1>n DEF Split
<1>1. ASSUME NEW j \in Jobs, Io(j) PROVE Split'
  <2>1. UNCHANGED kind /\ stage[j] # "done" /\ phase[j] \in After
    BY <1>1, <1>i, IoOutcome, UnderWayIsOpen DEF Io, After
  <2>2. CASE LookInBuffer(j)
    BY <1>i, <2>2, SplitTake
  <2>3. CASE Push(j)
    BY <1>i, <2>3, SplitPush
  <2>4. CASE TakeRest(j)
    <3>1. op[j].name = "until" /\ phase[j] # "push"
      BY <1>i, <2>4 DEF TakeRest, PlaceInv
    <3> QED
      BY <1>i, <2>1, <2>4, <3>1, SplitRest DEF WholeInv
  <2>5. CASE Read(j)
    <3>0. buf' = buf
      BY <2>5 DEF Read
    <3>1. CASE ReadBytes(j)
      BY <1>i, <3>0, <3>1, SplitRead
    <3>2. CASE ReadEnd(j)
      BY <1>i, <1>n, <3>0, <3>2, EndHandsNothing
    <3>3. CASE ReadBroken(j) \/ ReadWaits(j)
      BY <1>n, <3>0, <3>3 DEF ReadBroken, ReadWaits, kernelVars
    <3> QED
      BY <2>5, <3>1, <3>2, <3>3 DEF Read
  <2>6. CASE Write(j)
    BY <1>n, <2>6 DEF Write, WriteBytes, WriteEnd, WriteBroken, WriteWaits, kernelVars
  <2>7. CASE TakeItem(j)
    <3>1. op[j].name = "item" /\ phase[j] # "push"
      BY <2>7 DEF TakeItem
    <3> QED
      BY <1>i, <2>1, <2>7, <3>1, SplitItem DEF WholeInv
  <2> QED
    BY <1>1, <2>2, <2>3, <2>4, <2>5, <2>6, <2>7 DEF Io
<1>2. CASE Elsewhere
  BY <1>2, <1>n DEF Elsewhere
<1> QED
  BY <1>1, <1>2, <1>i, IoOrNothing

-----------------------------------------------------------------------------
(* Results *)

\* A call that is over stays over.
LEMMA DoneIsFinal ==
  ASSUME IInv, [Next]_vars, NEW k \in Jobs, stage[k] = "done"
  PROVE  stage'[k] = "done"
<1>i. TypeOK /\ CursorInv /\ QueueInv /\ FateInv
  BY DEF IInv
<1>t. stage \in [Jobs -> Stages] /\ fate \in [Jobs -> Fates]
  BY <1>i DEF TypeOK, Fates
<1>f. fate[k] \notin {"new", "inline", "waiting"}
  BY <1>i DEF FateInv, Inline, InReactor
<1>1. ASSUME NEW j \in Jobs, Ends(j) PROVE stage'[k] = "done"
  BY <1>1, <1>i, <1>t, EndsMoves
<1>2. ASSUME NEW j \in Jobs, Goes(j) \/ Parks(j) \/ CallInline(j) \/ Submit(j) \/ Abandon(j)
      PROVE  stage'[k] = "done"
  BY <1>2, <1>t, <1>f DEF Goes, Parks, CallInline, Submit, Abandon
<1>3. CASE DrainSubmit
  <2>1. msgs # <<>> /\ Head(msgs) # None
        /\ stage' = [stage EXCEPT ![Head(msgs)] = "driven"]
    BY <1>3 DEF DrainSubmit
  <2>2. Head(msgs) = msgs[1] /\ 1 \in 1..Len(msgs)
    BY <1>i, <2>1 DEF TypeOK
  <2>3. stage[Head(msgs)] = "queued"
    BY <1>i, <2>1, <2>2 DEF QueueInv
  <2> QED
    BY <1>t, <2>1, <2>3
<1>4. CASE DrainCancel
  BY <1>4 DEF DrainCancel
<1>5. CASE UNCHANGED control \/ Wait \/ DrainEnd \/ Rearm \/ TakeEvent \/ EventsEnd \/ Notify \/ Close
  BY <1>5 DEF control, Wait, DrainEnd, Rearm, TakeEvent, EventsEnd, Notify, Close, callVars
<1> QED
  BY <1>1, <1>2, <1>3, <1>4, <1>5, <1>i, StepIs DEF Moves, Turns

\* An "until" or an "item" has its bytes when it is over, not before.
LEMMA WholeStep ==
  ASSUME IInv, WholeInv, [Next]_vars
  PROVE  WholeInv'
<1>i. TypeOK /\ CursorInv /\ QueueInv /\ FateInv /\ PlaceInv
  BY DEF IInv
<1> SUFFICES ASSUME NEW k \in Jobs, op'[k].name \in {"until", "item"}, stage'[k] # "done",
                    phase'[k] # "push"
             PROVE  got'[k] = <<>>
  BY DEF WholeInv
<1>1. stage[k] # "done"
  BY DoneIsFinal
<1>2. ASSUME Elsewhere PROVE got'[k] = <<>>
  <2>1. UNCHANGED <<op, got>> /\ phase[k] # "push"
    <3>1. phase[k] = "push" => phase'[k] = phase[k]
      BY <1>2 DEF Elsewhere
    <3> QED
      BY <1>2, <3>1 DEF Elsewhere
  <2> QED
    BY <1>1, <2>1 DEF WholeInv
<1>3. ASSUME NEW j \in Jobs, Io(j) PROVE got'[k] = <<>>
  <2>1. op' = op
    BY <1>3 DEF Io
  <2>2. phase[k] # "push" => got[k] = <<>>
    BY <1>1, <2>1 DEF WholeInv
  <2>3. CASE j # k
    BY <1>i, <1>3, <2>2, <2>3, IoOwn
  <2>4. CASE j = k
    <3>0. ~\E what : Done(j, what)
      BY <1>i, <2>4 DEF Done, Answer, TypeOK
    <3>1. CASE Push(j)
      BY <1>i, <2>4, <3>1 DEF Push, TypeOK
    <3>2. ~TakeRest(j)
      BY <3>0 DEF TakeRest
    <3>3. CASE LookInBuffer(j)
      <4>1. phase[j] = "buffer"
        BY <3>3 DEF LookInBuffer
      <4>2. op[j].name = "item" => ~FromBuffer(j)
        BY DEF FromBuffer
      <4>3. ~FromBuffer(j)
        BY <2>1, <2>4, <3>0, <3>3, <4>2 DEF LookInBuffer, AfterBuffer
      <4> QED
        BY <2>2, <2>4, <3>3, <4>1, <4>3 DEF LookInBuffer
    <3>4. CASE Read(j)
      <4>1. op[j].name = "until" /\ phase[j] # "push"
        BY <2>1, <2>4, <3>4 DEF Read, Reads, InCall
      <4>2. ~ReadBytes(j)
        BY <1>i, <2>4, <4>1 DEF ReadBytes, GoOn, TypeOK
      <4>3. got' = got
        BY <3>4, <4>2 DEF Read, ReadEnd, ReadBroken, ReadWaits
      <4> QED
        BY <2>2, <2>4, <4>1, <4>3
    <3>5. ~Write(j)
      BY <2>1, <2>4 DEF Write
    <3>6. CASE TakeItem(j)
      <4>1. got' = got /\ phase[j] # "push"
        BY <3>0, <3>6 DEF TakeItem
      <4> QED
        BY <2>2, <2>4, <4>1
    <3> QED
      BY <1>3, <3>1, <3>2, <3>3, <3>4, <3>5, <3>6 DEF Io
  <2> QED
    BY <2>3, <2>4
<1> QED
  BY <1>2, <1>3, <1>i, IoOrNothing

\* What a stream's end is, it stays.
LEMMA EndedStays ==
  ASSUME TypeOK, SizeInv, [Next]_vars, kind \in {"tcp", "tls"}, Ended
  PROVE  Ended'
<1>t. eof \in BOOLEAN /\ shut \in BOOLEAN
  BY DEF TypeOK
<1>1. ASSUME UNCHANGED <<eof, shut>> PROVE Ended'
  BY <1>1 DEF Ended
<1>2. ASSUME NEW j \in Jobs, Io(j) PROVE UNCHANGED <<eof, shut>>
  <2>1. UNCHANGED <<kind, op>>
    BY <1>2 DEF Io
  <2>2. CASE LookInBuffer(j) \/ Push(j) \/ TakeRest(j)
    BY <2>2 DEF LookInBuffer, Push, TakeRest, kernelVars
  <2>3. CASE Read(j)
    BY <2>1, <2>3, ReadStep
  <2>4. CASE Write(j)
    BY <2>1, <2>4, WriteStep
  <2>5. CASE TakeItem(j)
    BY <2>1, <2>5, TakeItemStep
  <2> QED
    BY <1>2, <2>2, <2>3, <2>4, <2>5 DEF Io
<1>3. ASSUME NEW j \in Jobs, TestFlag(j) \/ SwitchMode(j) \/ StoreFlag(j) \/ CheckClosed(j)
                             \/ TimeOut(j) \/ Submit(j) \/ CallInline(j) \/ Abandon(j)
      PROVE  UNCHANGED <<eof, shut>>
  BY <1>3 DEF TestFlag, SwitchMode, StoreFlag, CheckClosed, TimeOut, Submit, CallInline, Abandon,
     kernelVars
<1>4. CASE Wait \/ DrainSubmit \/ DrainCancel \/ DrainEnd \/ Register \/ Rearm \/ TakeEvent
           \/ EventsEnd \/ Notify
  <2>1. UNCHANGED <<eof, shut>>
    BY <1>4 DEF Wait, DrainSubmit, DrainCancel, DrainEnd, Register, Rearm, TakeEvent, EventsEnd,
       Notify, kernelVars
  <2> QED
    BY <1>1, <2>1
<1>5. CASE Quiet \/ UNCHANGED vars
  BY <1>1, <1>5 DEF Quiet, vars, kernelVars
<1>6. CASE Peer
  BY <1>1, <1>6, <1>t DEF Peer, PeerSends, PeerEnds, PeerReceives, Ended
<1>7. CASE Close
  <2>1. UNCHANGED <<eof, shut>> \/ (eof' = eof /\ shut' = TRUE)
    <3>1. CASE UNCHANGED kernelVars
      BY <3>1 DEF kernelVars
    <3>2. CASE shut' = (kind \in {"tcp", "tls"}) /\ CloseStep("stored", "shut")
      BY <1>7, <3>2 DEF Close, CloseStep, kernelVars
    <3> QED
      BY <1>7, <3>1, <3>2 DEF Close
  <2> QED
    BY <2>1 DEF Ended
<1> QED
  BY <1>1, <1>2, <1>3, <1>4, <1>5, <1>6, <1>7 DEF Next, Loop, InlineStep, CallStep

\* A framed read is a stream's.
LEMMA FramesAreStreams ==
  ASSUME SizeInv, NEW j \in Jobs, op[j].name = "until"
  PROVE  kind \in {"tcp", "tls"}
  BY DEF SizeInv, Suits, Reads

\* Every step keeps a framed read that takes the rest at the end of its stream.
LEMMA RestStep ==
  ASSUME IInv, RestInv, [Next]_vars
  PROVE  RestInv'
<1>i. TypeOK /\ SizeInv /\ CursorInv /\ QueueInv /\ FateInv /\ PlaceInv
  BY DEF IInv
<1> SUFFICES ASSUME NEW k \in Jobs, phase'[k] = "rest" PROVE Ended'
  BY DEF RestInv
<1>1. CASE phase[k] = "rest"
  <2>1. op[k].name = "until"
    BY <1>i, <1>1 DEF PlaceInv
  <2> QED
    BY <1>1, <1>i, <2>1, FramesAreStreams, EndedStays DEF RestInv
<1>2. CASE phase[k] # "rest"
  <2>1. ~Elsewhere
    <3>1. Elsewhere => phase'[k] = phase[k]
      BY <1>2 DEF Elsewhere
    <3> QED
      BY <1>2, <3>1
  <2>2. PICK j \in Jobs : Io(j)
    BY <1>i, <2>1, IoOrNothing
  <2>3. j = k
    BY <1>2, <1>i, <2>2, IoOwn
  <2>p. phase \in [Jobs -> Phases]
    BY <1>i DEF TypeOK
  <2>d. ASSUME NEW what, Done(k, what) PROVE FALSE
    BY <2>p, <2>d DEF Done, Answer
  <2>g. ASSUME NEW to, to # "rest", GoOn(k, to) PROVE FALSE
    BY <2>p, <2>g DEF GoOn
  <2>w. ~WouldBlock(k)
    BY <2>d, <2>g DEF WouldBlock
  <2>4. ReadEnd(k)
    <3>1. ~LookInBuffer(k)
      BY <2>d, <2>g DEF LookInBuffer, AfterBuffer, NextRound
    <3>2. ~Push(k) /\ ~TakeRest(k)
      BY <2>d, <2>g DEF Push, TakeRest
    <3>3. ~Write(k)
      BY <2>d, <2>g, <2>w DEF Write, WriteBytes, WriteEnd, WriteBroken, WriteWaits
    <3>4. ~TakeItem(k)
      BY <2>d, <2>w DEF TakeItem
    <3>5. ~ReadBytes(k)
      BY <2>d, <2>g DEF ReadBytes, NextRound
    <3>6. ~ReadBroken(k) /\ ~ReadWaits(k)
      BY <2>d, <2>w DEF ReadBroken, ReadWaits
    <3> QED
      BY <2>2, <2>3, <3>1, <3>2, <3>3, <3>4, <3>5, <3>6 DEF Io, Read
  <2> QED
    BY <1>i, <2>4, EndHandsNothing DEF Ended
<1> QED
  BY <1>1, <1>2

\* A frame ends with the first delimiter.
LEMMA FrameOfBuffer ==
  ASSUME TypeOK, SizeInv, NEW j \in Jobs, got[j] = <<>>, op[j].name = "until",
         LookInBuffer(j), FromBuffer(j)
  PROVE  Framed(j)' /\ OneFrame(got'[j])
<1> DEFINE n == FirstDelim
           S == 1..MaxCame
           p == SubSeq(buf, 1, n)
<1>1. HasDelim /\ got \in [Jobs -> Seq(S)] /\ buf \in Seq(S)
  BY SplitTypes DEF FromBuffer
<1>2. n \in 1..Len(buf) /\ buf[n] \in Delims /\ (\A k \in 1..(n - 1) : buf[k] \notin Delims)
  BY <1>1, FirstDelimIsFirst
<1>3. got' = [got EXCEPT ![j] = got[j] \o p]
  BY DEF LookInBuffer, Share
<1> HIDE DEF n, S
<1>4. n \in 0..Len(buf) /\ n \in Nat /\ n \in 1..n
  <2>1. Len(buf) \in Nat
    BY <1>1
  <2> QED
    BY <1>2, <2>1
<1>5. p \in Seq(S) /\ Len(p) = n /\ \A i \in 1..n : p[i] = buf[i]
  BY <1>1, <1>4, Cut
<1> HIDE DEF p
<1>6. got'[j] = p
  <2>1. <<>> \o p = p
    BY <1>5, ConcatEmptySeq
  <2> QED
    BY <1>1, <1>3, <2>1
<1>7. p # <<>> /\ DOMAIN p = 1..n
  BY <1>4, <1>5
<1>8. \A i \in 1..n : p[i] \in Delims <=> i = n
  <2> SUFFICES ASSUME NEW i \in 1..n, i # n PROVE buf[i] \notin Delims
    BY <1>2, <1>5
  <2>1. i \in 1..(n - 1)
    BY <1>4
  <2> QED
    BY <1>2, <2>1
<1> QED
  BY <1>5, <1>6, <1>7, <1>8 DEF Framed, OneFrame

\* A read that ends well, ends with what it is to return.
LEMMA IoResult ==
  ASSUME IInv, WholeInv, RestInv, ResultInv, NEW j \in Jobs, Io(j), answer'[j] = "ok"
  PROVE  /\ op[j].name = "exact" => Len(got'[j]) = op[j].n
         /\ op[j].name = "until" => Framed(j)'
<1>i. TypeOK /\ SizeInv /\ CursorInv /\ PlaceInv
  BY DEF IInv
<1>1. stage[j] # "done" /\ answer[j] = "none" /\ UNCHANGED <<kind, op>>
  BY <1>i, UnderWayIsOpen, IoOutcome DEF ResultInv, Io, After
<1>a. answer \in [Jobs -> Answers]
  BY <1>i DEF TypeOK, Answers, Whats
<1>d. ASSUME NEW what, Done(j, what) PROVE what = "ok"
  BY <1>a, <1>d DEF Done, Answer
<1>g. ASSUME NEW to, GoOn(j, to) PROVE FALSE
  BY <1>1, <1>g DEF GoOn
<1>w. ~WouldBlock(j)
  BY <1>d, <1>g DEF WouldBlock
<1>2. ~Push(j)
  BY <1>g DEF Push
<1>3. CASE op[j].name = "until"
  <2>1. ~Read(j)
    BY <1>3, <1>d, <1>g, <1>w DEF Read, ReadBytes, ReadEnd, ReadBroken, ReadWaits
  <2>2. ~Write(j) /\ ~TakeItem(j)
    BY <1>3 DEF Write, TakeItem
  <2>3. CASE LookInBuffer(j)
    <3>1. FromBuffer(j) /\ phase[j] # "push"
      BY <1>g, <2>3 DEF LookInBuffer
    <3> QED
      BY <1>i, <1>1, <1>3, <2>3, <3>1, FrameOfBuffer DEF WholeInv
  <2>4. CASE TakeRest(j)
    <3>1. Ended /\ UNCHANGED <<eof, shut>>
      BY <2>4 DEF TakeRest, RestInv, kernelVars
    <3>2. Ended'
      BY <3>1 DEF Ended
    <3>3. Framed(j)'
      BY <3>2 DEF Framed
    <3> QED
      BY <1>3, <3>3
  <2> QED
    BY <1>2, <2>1, <2>2, <2>3, <2>4 DEF Io
<1>4. CASE op[j].name = "exact"
  <2>1. LookInBuffer(j) /\ FromBuffer(j) /\ Wanted(j) = 0
    <3>1. ~TakeRest(j)
      BY <1>i, <1>4 DEF TakeRest, PlaceInv
    <3>2. ~Read(j)
      BY <1>4, <1>d, <1>g, <1>w DEF Read, ReadBytes, ReadEnd, ReadBroken, ReadWaits, NextRound
    <3>3. ~Write(j) /\ ~TakeItem(j)
      BY <1>4 DEF Write, TakeItem
    <3>4. LookInBuffer(j)
      BY <1>2, <3>1, <3>2, <3>3 DEF Io
    <3>5. FromBuffer(j) /\ AfterBuffer(j)
      BY <1>g, <3>4 DEF LookInBuffer
    <3> QED
      BY <1>4, <1>g, <3>4, <3>5 DEF AfterBuffer, NextRound
  <2> DEFINE n == Share(j)
             p == SubSeq(buf, 1, n)
             S == 1..MaxCame
  <2>2. buf \in Seq(S) /\ got[j] \in Seq(S) /\ got \in [Jobs -> Seq(S)]
    BY <1>i, SplitTypes
  <2>3. Len(buf) \in Nat /\ Len(got[j]) \in Nat /\ op[j].n \in Nat
    BY <1>i, <2>2 DEF TypeOK, SocketOp
  <2>4. n = 0
    BY <1>4, <2>1, <2>3 DEF Share, Lesser
  <2>5. got' = [got EXCEPT ![j] = got[j] \o p]
    BY <2>1 DEF LookInBuffer
  <2>6. op[j].n = Len(got[j])
    BY <1>4, <2>1, <2>3 DEF Wanted
  <2> HIDE DEF n, S
  <2>7. p \in Seq(S) /\ Len(p) = 0
    <3>1. n \in 0..Len(buf)
      BY <2>3, <2>4
    <3> QED
      BY <2>2, <2>4, <3>1, Cut
  <2> HIDE DEF p
  <2>8. Len(got[j] \o p) = Len(got[j]) + 0
    BY <2>2, <2>7, ConcatProperties
  <2> QED
    BY <1>4, <2>2, <2>3, <2>5, <2>6, <2>8
<1> QED
  BY <1>3, <1>4

\* Otherwise a call ends well only at the test before its next system call, an
\* exact read that has all its bytes.
LEMMA AnswerElsewhere ==
  ASSUME IInv, [Next]_vars, NEW k \in Jobs, ~\E j \in Jobs : Io(j)
  PROVE  \/ answer'[k] = answer[k]
         \/ stage'[k] = "done" /\ answer'[k] # "ok"
         \/ stage'[k] = "done" /\ op[k].name = "exact" /\ Wanted(k) = 0
<1> DEFINE Goal == \/ answer'[k] = answer[k]
                   \/ stage'[k] = "done" /\ answer'[k] # "ok"
                   \/ stage'[k] = "done" /\ op[k].name = "exact" /\ Wanted(k) = 0
<1>i. TypeOK /\ CursorInv
  BY DEF IInv
<1>t. answer \in [Jobs -> Answers] /\ stage \in [Jobs -> Stages]
  BY <1>i DEF TypeOK, Answers, Whats
<1>a. ASSUME UNCHANGED answer PROVE Goal
  BY <1>a
<1>d. ASSUME NEW j \in Jobs, NEW what, what # "ok", Done(j, what) PROVE Goal
  BY <1>d, <1>t DEF Done, Answer
<1>e. ASSUME NEW j \in Jobs, op[j].name = "exact" /\ Wanted(j) = 0, Done(j, "ok") PROVE Goal
  BY <1>e, <1>t DEF Done, Answer
<1> HIDE DEF Goal
<1>1. ASSUME NEW j \in Jobs, TestFlag(j) \/ SwitchMode(j) \/ StoreFlag(j) PROVE Goal
  BY <1>1, <1>a DEF TestFlag, SwitchMode, StoreFlag, GoOn
<1>2. ASSUME NEW j \in Jobs, CheckClosed(j) PROVE Goal
  BY <1>2, <1>a, <1>d, <1>e DEF CheckClosed, GoOn
<1>3. ASSUME NEW j \in Jobs, TimeOut(j) PROVE Goal
  BY <1>3, <1>a, <1>d DEF TimeOut, GoOn
<1>4. ASSUME NEW j \in Jobs, Submit(j) \/ CallInline(j) \/ Abandon(j) PROVE Goal
  BY <1>4, <1>a DEF Submit, CallInline, Abandon
<1>5. CASE Register
  <2>1. cur \in Jobs /\ (UNCHANGED answer \/ Done(cur, "io"))
    BY <1>5, <1>i DEF Register, CursorInv, TypeOK
  <2>2. CASE Done(cur, "io")
    BY <1>t, <2>1, <2>2 DEF Done, Answer, Goal
  <2> QED
    BY <1>a, <2>1, <2>2
<1>6. CASE DrainCancel
  BY <1>6 DEF DrainCancel, Goal
<1>7. CASE Wait \/ DrainSubmit \/ DrainEnd \/ Rearm \/ TakeEvent \/ EventsEnd \/ Notify
  BY <1>7, <1>a DEF Wait, DrainSubmit, DrainEnd, Rearm, TakeEvent, EventsEnd, Notify, callVars
<1>8. CASE Close \/ Peer \/ Quiet \/ UNCHANGED vars
  BY <1>8, <1>a DEF Close, Peer, PeerSends, PeerEnds, PeerReceives, Quiet, vars, callVars
<1>9. ASSUME NEW j \in Jobs, CallStep(j) PROVE Goal
  BY <1>9, <1>1, <1>2 DEF CallStep
<1>10. ASSUME NEW j \in Jobs, Submit(j) \/ CallInline(j) \/ InlineStep(j) \/ TimeOut(j) \/ Abandon(j)
       PROVE  Goal
  BY <1>3, <1>4, <1>9, <1>10 DEF InlineStep
<1>11. CASE Loop
  BY <1>5, <1>6, <1>7, <1>9, <1>11 DEF Loop, Goal
<1> QED
  BY <1>7, <1>8, <1>10, <1>11 DEF Next, Goal

\* Every step keeps the results what their calls asked for.
LEMMA ResultStep ==
  ASSUME IInv, WholeInv, RestInv, ResultInv, [Next]_vars
  PROVE  ResultInv'
<1>i. TypeOK /\ SizeInv /\ CursorInv /\ QueueInv /\ FateInv
  BY DEF IInv
<1>o. UNCHANGED <<kind, op>>
  BY <1>i, IoOrNothing DEF Io, Elsewhere
<1> SUFFICES ASSUME NEW k \in Jobs
             PROVE  /\ answer'[k] # "none" => stage'[k] = "done"
                    /\ answer'[k] = "ok" /\ op[k].name = "exact" => Len(got'[k]) = op[k].n
                    /\ answer'[k] = "ok" /\ op[k].name = "until" => Framed(k)'
  BY <1>o DEF ResultInv
\* What was over before.
<1>1. ASSUME answer'[k] = answer[k], got'[k] = got[k]
      PROVE  /\ answer'[k] # "none" => stage'[k] = "done"
             /\ answer'[k] = "ok" /\ op[k].name = "exact" => Len(got'[k]) = op[k].n
             /\ answer'[k] = "ok" /\ op[k].name = "until" => Framed(k)'
  <2>1. answer[k] # "none" => stage'[k] = "done"
    BY DoneIsFinal DEF ResultInv
  <2>2. answer[k] = "ok" /\ op[k].name = "until" => Framed(k)'
    <3> SUFFICES ASSUME answer[k] = "ok", op[k].name = "until" PROVE Framed(k)'
      OBVIOUS
    <3>1. Framed(k) /\ kind \in {"tcp", "tls"}
      BY <1>i, FramesAreStreams DEF ResultInv
    <3>2. Ended => Ended'
      BY <1>i, <3>1, EndedStays
    <3> QED
      BY <1>1, <3>1, <3>2 DEF Framed
  <2> QED
    BY <1>1, <2>1, <2>2 DEF ResultInv
<1>2. ASSUME NEW j \in Jobs, Io(j)
      PROVE  /\ answer'[k] # "none" => stage'[k] = "done"
             /\ answer'[k] = "ok" /\ op[k].name = "exact" => Len(got'[k]) = op[k].n
             /\ answer'[k] = "ok" /\ op[k].name = "until" => Framed(k)'
  <2>1. CASE j # k
    BY <1>i, <1>1, <1>2, <2>1, IoOwn
  <2>2. CASE j = k
    <3>1. answer[k] = "none"
      BY <1>2, <1>i, <2>2, UnderWayIsOpen, IoOutcome DEF ResultInv, After
    <3>2. answer'[k] # "none" => stage'[k] = "done"
      BY <1>i, <1>2, <2>2, <3>1, IoOwn
    <3> QED
      BY <1>2, <2>2, <3>2, IoResult
  <2> QED
    BY <2>1, <2>2
<1>3. CASE ~\E j \in Jobs : Io(j)
  <2>1. UNCHANGED got
    BY <1>3, <1>i, IoOrNothing DEF Elsewhere
  <2>2. CASE answer'[k] = answer[k]
    BY <1>1, <2>1, <2>2
  <2>3. CASE stage'[k] = "done" /\ answer'[k] # "ok"
    BY <2>3
  <2>4. CASE stage'[k] = "done" /\ op[k].name = "exact" /\ Wanted(k) = 0
    <3>1. op[k].n \in Nat /\ Len(got[k]) \in Nat
      BY <1>i DEF TypeOK, SocketOp
    <3>2. Len(got[k]) = op[k].n
      BY <2>4, <3>1 DEF Wanted
    <3> QED
      BY <2>1, <2>4, <3>2
  <2> QED
    BY <1>3, <2>2, <2>3, <2>4, AnswerElsewhere
<1> QED
  BY <1>2, <1>3

-----------------------------------------------------------------------------
(* The theorem *)

LEMMA BytesInit == Init => BInv
<1> SUFFICES ASSUME Init PROVE BInv
  OBVIOUS
<1>1. /\ buf = <<>> /\ handed = 0 /\ \A j \in Jobs : got[j] = <<>>
      /\ \A j \in Jobs : answer[j] = "none" /\ phase[j] = "idle"
  BY DEF Init
<1>2. 1..handed = {}
  BY <1>1
<1>3. Split
  BY <1>1, <1>2, NoElems DEF Split
<1> QED
  BY <1>1, <1>3 DEF BInv, WholeInv, RestInv, ResultInv

\* The invariant says what the property does.
LEMMA BytesHold == BInv => BytesHaveOneHolder
<1> SUFFICES ASSUME BInv PROVE BytesHaveOneHolder
  OBVIOUS
<1>1. Elems(buf) \cup UNION {Elems(got[j]) : j \in Jobs} = 1..handed
  BY DEF BInv, Split
<1>2. ASSUME NEW j \in Jobs, NEW k \in Jobs \ {j} PROVE Elems(got[j]) \cap Elems(got[k]) = {}
  BY DEF BInv, Split
<1>3. ASSUME NEW j \in Jobs, answer[j] = "ok"
      PROVE  /\ op[j].name = "exact" => Len(got[j]) = op[j].n
             /\ op[j].name = "until" =>
                  Ended \/ (got[j] # <<>> /\ \A i \in DOMAIN got[j] :
                               got[j][i] \in Delims <=> i = Len(got[j]))
  BY <1>3 DEF BInv, ResultInv, Framed
<1> QED
  BY <1>1, <1>2, <1>3 DEF BInv, Split, BytesHaveOneHolder

\* Every byte the program has received is in one place, and none is lost or
\* repeated, whoever reads (socket.rs, reactor.rs).
THEOREM BytesHaveOneHolderAlways == Spec => []BytesHaveOneHolder
<1>1. IInv /\ BInv /\ [Next]_vars => BInv'
  BY SplitStep, WholeStep, RestStep, ResultStep DEF BInv
<1> QED
  BY <1>1, InvAlways, BytesInit, BytesHold, PTL DEF Spec

-----------------------------------------------------------------------------
(* The order *)

LEMMA RisingIs ==
  ASSUME NEW S, NEW s \in Seq(S)
  PROVE  Rising(s) <=> \A i, k \in 1..Len(s) : i < k => s[i] < s[k]
<1>1. DOMAIN s = 1..Len(s)
  OBVIOUS
<1> QED
  BY <1>1 DEF Rising

\* Ordered sequences, one before the other, make an ordered one.
LEMMA RisingConcat ==
  ASSUME NEW S \in SUBSET Int, NEW s \in Seq(S), NEW t \in Seq(S), Rising(s), Rising(t),
         \A x \in Elems(s), y \in Elems(t) : x < y
  PROVE  Rising(s \o t)
<1>1. /\ s \o t \in Seq(S) /\ Len(s \o t) = Len(s) + Len(t) /\ Len(s) \in Nat /\ Len(t) \in Nat
      /\ \A i \in 1..(Len(s) + Len(t)) : (s \o t)[i] = IF i <= Len(s) THEN s[i] ELSE t[i - Len(s)]
  BY ConcatProperties
<1>2. ASSUME NEW i \in 1..(Len(s) + Len(t)), NEW k \in 1..(Len(s) + Len(t)), i < k
      PROVE  (s \o t)[i] < (s \o t)[k]
  <2>1. CASE k <= Len(s)
    <3>1. i \in 1..Len(s) /\ k \in 1..Len(s) /\ (s \o t)[i] = s[i] /\ (s \o t)[k] = s[k]
      BY <1>1, <1>2, <2>1
    <3> QED
      BY <1>2, <3>1, ElemsAre, RisingIs
  <2>2. CASE ~(i <= Len(s))
    <3>1. /\ i - Len(s) \in 1..Len(t) /\ k - Len(s) \in 1..Len(t) /\ i - Len(s) < k - Len(s)
          /\ (s \o t)[i] = t[i - Len(s)] /\ (s \o t)[k] = t[k - Len(s)]
      BY <1>1, <1>2, <2>2
    <3> QED
      BY <3>1, ElemsAre, RisingIs
  <2>3. CASE i <= Len(s) /\ ~(k <= Len(s))
    <3>1. /\ i \in 1..Len(s) /\ k - Len(s) \in 1..Len(t)
          /\ (s \o t)[i] = s[i] /\ (s \o t)[k] = t[k - Len(s)]
      BY <1>1, <1>2, <2>3
    <3>2. s[i] \in Elems(s) /\ t[k - Len(s)] \in Elems(t)
      BY <3>1, ElemsAre, RisingIs
    <3> QED
      BY <3>1, <3>2
  <2> QED
    BY <1>1, <1>2, <2>1, <2>2, <2>3
<1> QED
  BY <1>1, <1>2, ElemsAre, RisingIs

\* A rising sequence cut in two.
LEMMA CutRising ==
  ASSUME NEW S \in SUBSET Int, NEW s \in Seq(S), Rising(s), NEW n \in 0..Len(s)
  PROVE  /\ Rising(SubSeq(s, 1, n)) /\ Rising(SubSeq(s, n + 1, Len(s)))
         /\ Elems(s) = Elems(SubSeq(s, 1, n)) \cup Elems(SubSeq(s, n + 1, Len(s)))
         /\ \A x \in Elems(SubSeq(s, 1, n)), y \in Elems(SubSeq(s, n + 1, Len(s))) : x < y
<1> DEFINE p == SubSeq(s, 1, n)
           r == SubSeq(s, n + 1, Len(s))
<1>1. /\ p \in Seq(S) /\ Len(p) = n /\ \A i \in 1..n : p[i] = s[i]
      /\ r \in Seq(S) /\ Len(r) = Len(s) - n /\ \A i \in 1..(Len(s) - n) : r[i] = s[n + i]
  BY Cut
<1>2. Len(s) \in Nat /\ n \in Nat /\ n <= Len(s)
  OBVIOUS
<1>3. \A i, k \in 1..Len(s) : i < k => s[i] < s[k]
  BY ElemsAre, RisingIs
<1> HIDE DEF p, r
<1>4. \A x : x \in Elems(p) <=> \E i \in 1..n : s[i] = x
  <2>1. \A x : x \in Elems(p) <=> \E i \in 1..Len(p) : p[i] = x
    BY <1>1, ElemsAre, RisingIs
  <2> QED
    BY <1>1, <2>1
<1>5. \A x : x \in Elems(r) <=> \E i \in 1..(Len(s) - n) : s[n + i] = x
  <2>1. \A x : x \in Elems(r) <=> \E i \in 1..Len(r) : r[i] = x
    BY <1>1, ElemsAre, RisingIs
  <2>2. Len(r) = Len(s) - n /\ \A i \in 1..(Len(s) - n) : r[i] = s[n + i]
    BY <1>1
  <2>3. \A x : x \in Elems(r) <=> \E i \in 1..(Len(s) - n) : r[i] = x
    BY <2>1, <2>2
  <2> QED
    BY <2>2, <2>3
<1>6. \A i \in 1..(Len(s) - n) : n + i \in 1..Len(s) /\ n + i > n
  BY <1>2
<1>7. 1..n \subseteq 1..Len(s)
  BY <1>2
<1>8. Rising(p)
  <2>1. \A i, k \in 1..Len(p) : i < k => p[i] < p[k]
    BY <1>1, <1>3, <1>7
  <2> QED
    BY <1>1, <2>1, ElemsAre, RisingIs
<1>9. Rising(r)
  <2>1. ASSUME NEW i \in 1..Len(r), NEW k \in 1..Len(r), i < k PROVE r[i] < r[k]
    <3>1. n + i < n + k /\ r[i] = s[n + i] /\ r[k] = s[n + k]
          /\ n + i \in 1..Len(s) /\ n + k \in 1..Len(s)
      BY <1>1, <1>2, <1>6, <2>1
    <3> QED
      BY <1>3, <3>1
  <2> QED
    BY <1>1, <2>1, ElemsAre, RisingIs
<1>10. ASSUME NEW x \in Elems(p), NEW y \in Elems(r) PROVE x < y
  <2>1. PICK i \in 1..n : s[i] = x
    BY <1>4, <1>10
  <2>2. PICK k \in 1..(Len(s) - n) : s[n + k] = y
    BY <1>5, <1>10
  <2>3. i < n + k /\ i \in 1..Len(s) /\ n + k \in 1..Len(s)
    BY <1>2, <1>6, <1>7
  <2> QED
    BY <1>3, <2>1, <2>2, <2>3
<1>11. ASSUME NEW x \in Elems(s) PROVE x \in Elems(p) \/ x \in Elems(r)
  <2>1. PICK i \in 1..Len(s) : s[i] = x
    BY <1>11, ElemsAre, RisingIs
  <2>2. CASE i <= n
    <3>1. i \in 1..n
      BY <1>2, <2>2
    <3> QED
      BY <1>4, <2>1, <3>1
  <2>3. CASE ~(i <= n)
    <3>1. i - n \in 1..(Len(s) - n) /\ n + (i - n) = i
      BY <1>2, <2>3
    <3>2. s[n + (i - n)] = x
      BY <2>1, <3>1
    <3> QED
      BY <1>5, <3>1, <3>2
  <2> QED
    BY <2>2, <2>3
<1>12. Elems(p) \subseteq Elems(s) /\ Elems(r) \subseteq Elems(s)
  BY <1>4, <1>5, <1>6, <1>7, ElemsAre, RisingIs
<1>13. Elems(s) = Elems(p) \cup Elems(r)
  BY <1>11, <1>12
<1> QED
  BY <1>8, <1>9, <1>10, <1>13 DEF p, r

\* What the kernel hands over next is in order.
LEMMA RisingIds ==
  ASSUME NEW m \in Nat, NEW n \in Nat, m <= n
  PROVE  Rising(Ids(m + 1, n))
<1> DEFINE s == Ids(m + 1, n)
           S == (m + 1)..n
<1>1. s \in Seq(S) /\ Len(s) = n - m /\ \A i \in 1..(n - m) : s[i] = m + i
  BY IdsAre
<1> HIDE DEF s
<1>2. \A i, k \in 1..Len(s) : i < k => s[i] < s[k]
  BY <1>1
<1> QED
  BY <1>1, <1>2, RisingIs DEF s

\* A sequence with nothing twice is no longer than the numbers it is made of.
LEMMA LengthBound ==
  ASSUME NEW n \in Nat, NEW s \in Seq(1..n), Distinct(s)
  PROVE  Len(s) <= n
<1>1. Len(s) \in Nat /\ s \in [1..Len(s) -> 1..n]
  OBVIOUS
<1>2. \A i, k \in 1..Len(s) : s[i] = s[k] => i = k
  <2>1. DOMAIN s = 1..Len(s)
    OBVIOUS
  <2> QED
    BY <2>1 DEF Distinct
<1>3. s \in Injection(1..Len(s), 1..n)
  BY <1>1, <1>2 DEF Injection, IsInjective
<1> DEFINE m == Len(s)
<1>4. 1 \in Int /\ n \in Int /\ m \in Int /\ m \in Nat
  BY <1>1
<1> HIDE DEF m
<1>5. /\ IsFiniteSet(1..n) /\ Cardinality(1..n) = (IF 1 > n THEN 0 ELSE n - 1 + 1)
      /\ Cardinality(1..m) = (IF 1 > m THEN 0 ELSE m - 1 + 1)
  BY <1>4, FS_Interval
<1>6. s \in Injection(1..m, 1..n)
  BY <1>3 DEF m
<1>7. Cardinality(1..m) <= Cardinality(1..n)
  BY <1>5, <1>6, FS_Injection
<1>8. m <= n
  BY <1>4, <1>5, <1>7
<1> QED
  BY <1>8 DEF m

\* Once two threads have read at once, they have.
LEMMA MixedGrows ==
  ASSUME TypeOK, [Next]_vars
  PROVE  mixed => mixed'
<1>1. ASSUME NEW j \in Jobs, Submit(j) \/ CallInline(j) PROVE mixed => mixed'
  BY <1>1 DEF Submit, CallInline
<1>2. ASSUME UNCHANGED mixed PROVE mixed => mixed'
  BY <1>2
<1>3. ASSUME NEW j \in Jobs, CallStep(j) \/ TimeOut(j) \/ Abandon(j) PROVE UNCHANGED mixed
  BY <1>3 DEF CallStep, Io, TestFlag, SwitchMode, StoreFlag, CheckClosed, TimeOut, Abandon
<1>4. CASE Wait \/ DrainSubmit \/ DrainCancel \/ DrainEnd \/ Register \/ Rearm \/ TakeEvent
           \/ EventsEnd \/ Notify
  BY <1>2, <1>4 DEF Wait, DrainSubmit, DrainCancel, DrainEnd, Register, Rearm, TakeEvent,
     EventsEnd, Notify
<1>5. CASE Close \/ Peer \/ Quiet \/ UNCHANGED vars
  BY <1>2, <1>5 DEF Close, Peer, PeerSends, PeerEnds, PeerReceives, Quiet, vars
<1> QED
  BY <1>1, <1>2, <1>3, <1>4, <1>5 DEF Next, Loop, InlineStep

\* Every step keeps the readers apart until two threads read at once.
LEMMA MixStep ==
  ASSUME IInv, MixInv, [Next]_vars
  PROVE  MixInv'
<1> DEFINE Stays == {"queued", "driven", "table", "inline"}
<1>i. TypeOK /\ CursorInv /\ QueueInv /\ FateInv
  BY DEF IInv
<1>o. UNCHANGED op
  BY <1>i, IoOrNothing DEF Io, Elsewhere
<1>m. mixed => mixed'
  BY <1>i, MixedGrows
<1>t. stage \in [Jobs -> Stages] /\ msgs \in Seq(Jobs \cup {None})
  BY <1>i DEF TypeOK
\* No call comes on its actor's thread or under way otherwise.
<1>a. ASSUME \A k \in Jobs : /\ stage'[k] = "inline" => stage[k] = "inline"
                             /\ stage'[k] \in Stays => stage[k] \in Stays
      PROVE  MixInv'
  BY <1>a, <1>o, <1>m DEF MixInv, Inline
<1>1. ASSUME NEW j \in Jobs, Ends(j) PROVE MixInv'
  BY <1>1, <1>a, <1>i, <1>t, EndsMoves
<1>2. ASSUME NEW j \in Jobs, Goes(j) \/ Parks(j) \/ Abandon(j) PROVE MixInv'
  <2>1. UNCHANGED stage \/ (stage[j] = "driven" /\ stage' = [stage EXCEPT ![j] = "table"])
    BY <1>2 DEF Goes, Parks, Abandon
  <2> QED
    BY <1>a, <1>t, <2>1
<1>3. ASSUME NEW j \in Jobs, CallInline(j) PROVE MixInv'
  <2>1. /\ stage' = [stage EXCEPT ![j] = "inline"]
        /\ mixed' = (mixed \/ (op[j].name \in Reads /\ Reading(Stays)))
    BY <1>3 DEF CallInline
  <2>2. SUFFICES ASSUME ~mixed', NEW k \in Jobs, NEW l \in Jobs, k # l, op[k].name \in Reads,
                        op[l].name \in Reads, stage'[k] = "inline", stage'[l] \in Stays
                 PROVE  FALSE
    BY <1>o DEF MixInv, Inline
  <2>3. ~mixed /\ (op[j].name \in Reads => \A n \in Jobs : op[n].name \in Reads => stage[n] \notin Stays)
    BY <2>1, <2>2 DEF Reading
  <2>4. CASE k = j
    BY <1>t, <2>1, <2>2, <2>3, <2>4
  <2>5. CASE l = j
    BY <1>t, <2>1, <2>2, <2>3, <2>5
  <2>6. CASE k # j /\ l # j
    BY <1>t, <2>1, <2>2, <2>3, <2>6 DEF MixInv, Inline
  <2> QED
    BY <2>4, <2>5, <2>6
<1>4. ASSUME NEW j \in Jobs, Submit(j) PROVE MixInv'
  <2>1. /\ stage' = [stage EXCEPT ![j] = "queued"]
        /\ mixed' = (mixed \/ (op[j].name \in Reads /\ Reading({"inline"})))
    BY <1>4 DEF Submit
  <2>2. SUFFICES ASSUME ~mixed', NEW k \in Jobs, NEW l \in Jobs, k # l, op[k].name \in Reads,
                        op[l].name \in Reads, stage'[k] = "inline", stage'[l] \in Stays
                 PROVE  FALSE
    BY <1>o DEF MixInv, Inline
  <2>3. ~mixed /\ (op[j].name \in Reads => \A n \in Jobs : op[n].name \in Reads => stage[n] # "inline")
    BY <2>1, <2>2 DEF Reading
  <2>4. k # j /\ stage[k] = "inline"
    BY <1>t, <2>1, <2>2
  <2>5. CASE l = j
    BY <2>2, <2>3, <2>4, <2>5
  <2>6. CASE l # j
    BY <1>t, <2>1, <2>2, <2>3, <2>4, <2>6 DEF MixInv, Inline
  <2> QED
    BY <2>5, <2>6
<1>5. CASE DrainSubmit
  <2>1. msgs # <<>> /\ Head(msgs) # None
        /\ stage' = [stage EXCEPT ![Head(msgs)] = "driven"]
    BY <1>5 DEF DrainSubmit
  <2>2. Head(msgs) = msgs[1] /\ 1 \in 1..Len(msgs)
    BY <1>t, <2>1
  <2>3. stage[Head(msgs)] = "queued"
    BY <1>i, <2>1, <2>2 DEF QueueInv
  <2> QED
    BY <1>a, <1>t, <2>1, <2>3
<1>6. CASE DrainCancel
  <2>1. stage' = [k \in Jobs |-> IF k \in Cancelled THEN "done" ELSE stage[k]]
    BY <1>6 DEF DrainCancel
  <2> QED
    BY <1>a, <2>1
<1>7. CASE UNCHANGED control \/ Wait \/ DrainEnd \/ Rearm \/ TakeEvent \/ EventsEnd \/ Notify \/ Close
  <2>1. UNCHANGED stage
    BY <1>7 DEF control, Wait, DrainEnd, Rearm, TakeEvent, EventsEnd, Notify, Close, callVars
  <2> QED
    BY <1>a, <2>1
<1> QED
  BY <1>1, <1>2, <1>3, <1>4, <1>5, <1>6, <1>7, <1>i, StepIs DEF Moves, Turns

\* Then one read at most is being carried out.
LEMMA OneReader ==
  ASSUME CursorInv, MixInv, ~mixed, NEW j \in Jobs, NEW k \in Jobs, j # k,
         op[j].name \in Reads, op[k].name \in Reads, phase[j] # "idle"
  PROVE  phase[k] = "idle"
<1> SUFFICES ASSUME phase[k] # "idle" PROVE FALSE
  OBVIOUS
<1>1. (Inline(j) \/ cur = j) /\ (Inline(k) \/ cur = k)
  BY DEF CursorInv
<1>2. stage[j] \in {"driven", "table", "inline"} /\ stage[k] \in {"driven", "table", "inline"}
  BY <1>1, ReactorAssumption DEF CursorInv, Inline
<1>3. ~Inline(j) /\ ~Inline(k)
  BY <1>2 DEF MixInv
<1> QED
  BY <1>1, <1>3

\* A call that is not over has no answer.
LEMMA OpenIsUnanswered ==
  ASSUME ResultInv, NEW j \in Jobs, stage[j] # "done"
  PROVE  answer[j] = "none"
  BY DEF ResultInv

\* A step that moves no bytes keeps their order, if reads go from the look in the
\* buffer to their system call and from there on only.
LEMMA OrderSame ==
  ASSUME PlaceInv, PlaceInv', AheadInv, FoundInv, FrameInv, UNCHANGED <<kind, op, got, buf>>,
         \A k \in Jobs : op[k].name \in Reads =>
           /\ phase[k] = "push" <=> phase'[k] = "push"
           /\ phase'[k] \in Asking => phase[k] \in Asking
           /\ phase'[k] = "rest" => phase[k] \in Asking \cup {"rest"}
           /\ answer'[k] = "ok" /\ op[k].name = "until" => answer[k] = "ok"
  PROVE  AheadInv' /\ FoundInv' /\ FrameInv'
<1>0. {"chunk", "exact", "all", "until"} \subseteq Reads
  BY DEF Reads
<1>1. \A k \in Jobs : phase[k] = "push" <=> phase'[k] = "push"
  BY <1>0 DEF PlaceInv
<1>2. AheadInv'
  BY <1>1 DEF AheadInv, Ahead
<1>3. FoundInv'
  <2>1. HasDelim' <=> HasDelim
    BY DEF HasDelim
  <2> QED
    BY <1>0, <2>1 DEF FoundInv
<1>4. FrameInv'
  BY <1>0 DEF FrameInv, OneFrame
<1> QED
  BY <1>2, <1>3, <1>4

\* So does a step that moves the bytes of one call, when no other read is being
\* carried out, if what it takes comes before what it leaves in the buffer.
LEMMA OrderKept ==
  ASSUME TypeOK, PlaceInv, PlaceInv', AheadInv, FoundInv, FrameInv, UNCHANGED <<kind, op>>,
         NEW j \in Jobs, NEW G, NEW B, got' = [got EXCEPT ![j] = G], buf' = B,
         \A k \in Jobs : k # j => /\ phase'[k] = phase[k] /\ answer'[k] = answer[k]
                                  /\ op[k].name \in Reads => phase[k] = "idle"
                                  /\ Ahead(got[k], B),
         Rising(G), Rising(B),
         phase'[j] # "push" => Ahead(G, B),
         phase'[j] = "push" => Ahead(B, G) /\ \A k \in Jobs : k # j => Ahead(got[k], G),
         op[j].name \in Reads \ {"until"} /\ phase'[j] \in Asking => B = <<>>,
         phase'[j] \in Asking \cup {"push", "rest"} /\ op[j].name = "until"
           => \A i \in DOMAIN B : B[i] \notin Delims,
         answer'[j] = "ok" /\ op[j].name = "until" => OneFrame(G),
         kind \notin {"tcp", "tls"} => B = <<>>
  PROVE  AheadInv' /\ FoundInv' /\ FrameInv'
<1>0. {"chunk", "exact", "all", "until"} \subseteq Reads /\ "idle" \notin Asking \cup {"push", "rest"}
  BY DEF Reads, Asking
<1>1. got'[j] = G /\ \A k \in Jobs : k # j => got'[k] = got[k]
  BY DEF TypeOK
<1>2. \A k \in Jobs : phase'[k] = "push" => k = j
  BY <1>0 DEF PlaceInv
<1>3. \A k \in Jobs : Rising(got'[k])
  BY <1>1 DEF AheadInv
<1>4. \A k \in Jobs : phase'[k] # "push" => Ahead(got'[k], B)
  BY <1>1
<1>5. ASSUME NEW k \in Jobs, phase'[k] = "push"
      PROVE  Ahead(B, got'[k]) /\ \A l \in Jobs : l # k => Ahead(got'[l], got'[k])
  BY <1>1, <1>2, <1>5
<1>6. AheadInv'
  BY <1>3, <1>4, <1>5 DEF AheadInv, Ahead
<1>7. FoundInv'
  <2> SUFFICES ASSUME NEW k \in Jobs
               PROVE  /\ phase'[k] \in Asking /\ op[k].name \in {"chunk", "exact", "all"} => B = <<>>
                      /\ phase'[k] \in Asking \cup {"push", "rest"} /\ op[k].name = "until"
                           => \A i \in DOMAIN B : B[i] \notin Delims
    BY DEF FoundInv, HasDelim
  <2>1. CASE k = j
    BY <1>0, <2>1
  <2>2. CASE k # j
    BY <1>0, <2>2
  <2> QED
    BY <2>1, <2>2
<1>8. FrameInv'
  BY <1>1 DEF FrameInv, OneFrame
<1> QED
  BY <1>6, <1>7, <1>8

\* What stays of the other calls when a read of the only reader moves bytes.
LEMMA Others ==
  ASSUME IInv, MixInv, ~mixed, NEW j \in Jobs, op[j].name \in Reads, Io(j)
  PROVE  \A k \in Jobs : k # j => /\ phase'[k] = phase[k] /\ answer'[k] = answer[k]
                                  /\ op[k].name \in Reads => phase[k] = "idle"
                                  /\ phase[k] # "push"
<1>i. TypeOK /\ CursorInv /\ PlaceInv
  BY DEF IInv
<1>1. phase[j] # "idle"
  BY IoOutcome DEF After
<1>2. ASSUME NEW k \in Jobs, k # j PROVE op[k].name \in Reads => phase[k] = "idle"
  BY <1>i, <1>1, <1>2, OneReader
<1>3. ASSUME NEW k \in Jobs, k # j PROVE phase[k] # "push"
  BY <1>i, <1>2, <1>3 DEF PlaceInv, Reads
<1> QED
  BY <1>i, <1>2, <1>3, IoOwn

\* Nothing is after all of nothing.
LEMMA AheadEmpty ==
  /\ \A s : Ahead(s, <<>>) /\ Ahead(<<>>, s)
  /\ Rising(<<>>) /\ \A i \in DOMAIN <<>> : FALSE
  BY NoElems DEF Ahead, Rising

\* A look in the buffer gives its first bytes to the one reader.
LEMMA OrderLook ==
  ASSUME IInv, PlaceInv', Split, WholeInv, MixInv, AheadInv, FoundInv, FrameInv, ~mixed,
         NEW j \in Jobs, op[j].name \in Reads, Io(j), LookInBuffer(j), answer[j] # "ok"
  PROVE  AheadInv' /\ FoundInv' /\ FrameInv'
<1> DEFINE n == Share(j)
           S == 1..MaxCame
           p == SubSeq(buf, 1, n)
           r == SubSeq(buf, n + 1, Len(buf))
           G == got[j] \o p
<1>i. TypeOK /\ SizeInv /\ CursorInv /\ PlaceInv
  BY DEF IInv
<1>u. /\ \A k \in Jobs : k # j => /\ phase'[k] = phase[k] /\ answer'[k] = answer[k]
                                  /\ op[k].name \in Reads => phase[k] = "idle"
                                  /\ phase[k] # "push"
      /\ UNCHANGED <<kind, op>> /\ phase[j] = "buffer" /\ stage[j] # "done"
  <2>1. UNCHANGED <<kind, op>> /\ phase[j] = "buffer"
    BY DEF Io, LookInBuffer
  <2>2. stage[j] # "done"
    BY <1>i, <2>1, UnderWayIsOpen
  <2> QED
    BY <2>1, <2>2, Others
<1>p. phase \in [Jobs -> Phases] /\ answer \in [Jobs -> Answers] /\ MaxCame \in Nat
  BY <1>i, ReactorAssumption DEF TypeOK, Answers, Whats
<1>t. /\ buf \in Seq(S) /\ got[j] \in Seq(S) /\ got \in [Jobs -> Seq(S)] /\ S \in SUBSET Int
      /\ Len(buf) \in Nat
  BY <1>i, SplitTypes
<1>b. Rising(buf) /\ Rising(got[j]) /\ (\A k \in Jobs : Ahead(got[k], buf))
      /\ (kind \notin {"tcp", "tls"} => buf = <<>>)
  BY <1>u DEF AheadInv
<1>1. CASE ~FromBuffer(j)
  <2>1. UNCHANGED <<got, buf>> /\ GoOn(j, "call")
    BY <1>1 DEF LookInBuffer
  <2>2. phase'[j] = "call" /\ answer' = answer
    BY <1>p, <2>1 DEF GoOn
  <2>3. got' = [got EXCEPT ![j] = got[j]]
    BY <1>t, <2>1
  <2>4. /\ op[j].name \in Reads \ {"until"} => buf = <<>>
        /\ op[j].name = "until" => \A i \in DOMAIN buf : buf[i] \notin Delims
    BY <1>1 DEF FromBuffer, HasDelim, Reads
  <2> QED
    BY <1>i, <1>u, <1>b, <2>1, <2>2, <2>3, <2>4, OrderKept
<1>2. CASE FromBuffer(j)
  <2>1. n \in 0..Len(buf)
    BY <1>i, <1>2, ShareBounds
  <2>2. got' = [got EXCEPT ![j] = G] /\ buf' = r /\ AfterBuffer(j)
    BY <1>2 DEF LookInBuffer
  <2>3. /\ phase'[j] \in {"idle", "check", "buffer", "call"}
        /\ phase'[j] = "call" => op[j].name = "all" /\ answer' = answer
    <3>1. Done(j, "ok") => phase'[j] = "idle"
      BY <1>p DEF Done, Answer
    <3>2. \A to : GoOn(j, to) => phase'[j] = to /\ answer' = answer
      BY <1>p DEF GoOn
    <3> QED
      BY <2>2, <3>1, <3>2 DEF AfterBuffer, NextRound
  <2>4. op[j].name = "all" => n = Len(buf)
    <3>1. Len(buf) <= MaxCame
      BY <1>p, <1>t, LengthBound DEF Split
    <3> QED
      BY <1>p, <1>t, <3>1 DEF Share, Wanted, Lesser
  <2>5. answer'[j] = "ok" /\ op[j].name = "until" => OneFrame(got'[j])
    <3>1. op[j].name = "until" => got[j] = <<>>
      BY <1>u DEF WholeInv
    <3> QED
      BY <1>i, <1>2, <3>1, FrameOfBuffer
  <2>6. got'[j] = G
    BY <1>t, <2>2
  <2> HIDE DEF n, S
  <2>7. p \in Seq(S) /\ r \in Seq(S) /\ Len(r) = Len(buf) - n
    BY <1>t, <2>1, Cut
  <2>8. /\ Rising(p) /\ Rising(r) /\ Elems(buf) = Elems(p) \cup Elems(r)
        /\ Ahead(p, r)
    BY <1>t, <1>b, <2>1, CutRising DEF Ahead
  <2> HIDE DEF p, r
  <2>9. /\ Elems(G) = Elems(got[j]) \cup Elems(p) /\ Rising(G)
    <3>1. Elems(G) = Elems(got[j]) \cup Elems(p)
      BY <1>t, <2>7, ElemsOfConcat
    <3>2. \A x \in Elems(got[j]), y \in Elems(p) : x < y
      BY <1>b, <2>8 DEF Ahead
    <3> QED
      BY <1>t, <1>b, <2>7, <2>8, <3>1, <3>2, RisingConcat
  <2>10. Ahead(G, r) /\ \A k \in Jobs : Ahead(got[k], r)
    BY <1>b, <2>8, <2>9 DEF Ahead
  <2>11. n = Len(buf) => r = <<>>
    BY <1>t, <2>7
  <2>12. kind \notin {"tcp", "tls"} => r = <<>>
    <3> SUFFICES ASSUME buf = <<>> PROVE r = <<>>
      BY <1>b
    <3>1. Len(buf) = 0 /\ n = 0
      BY <2>1
    <3> QED
      BY <2>11, <3>1
  <2>13. /\ phase'[j] # "push"
         /\ op[j].name \in Reads \ {"until"} /\ phase'[j] \in Asking => r = <<>>
         /\ ~(phase'[j] \in Asking \cup {"push", "rest"} /\ op[j].name = "until")
    BY <2>3, <2>4, <2>11 DEF Asking
  <2> HIDE DEF G
  <2> QED
    BY <1>i, <1>u, <2>2, <2>5, <2>6, <2>8, <2>9, <2>10, <2>12, <2>13, OrderKept
<1> QED
  BY <1>1, <1>2

\* What a framed read puts back goes behind all that others have.
LEMMA OrderPush ==
  ASSUME IInv, PlaceInv', MixInv, AheadInv, FoundInv, FrameInv, ~mixed,
         NEW j \in Jobs, Io(j), Push(j), answer[j] # "ok"
  PROVE  AheadInv' /\ FoundInv' /\ FrameInv'
<1> DEFINE B == buf \o got[j]
           S == 1..MaxCame
<1>i. TypeOK /\ SizeInv /\ CursorInv /\ PlaceInv
  BY DEF IInv
<1>1. /\ UNCHANGED <<kind, op>> /\ phase[j] = "push" /\ op[j].name = "until" /\ op[j].name \in Reads
      /\ got' = [got EXCEPT ![j] = <<>>] /\ buf' = B /\ GoOn(j, "buffer")
  BY <1>i DEF Io, Push, PlaceInv, Reads
<1>2. phase'[j] = "buffer" /\ answer' = answer
  BY <1>i, <1>1 DEF GoOn, TypeOK
<1>u. \A k \in Jobs : k # j => /\ phase'[k] = phase[k] /\ answer'[k] = answer[k]
                               /\ op[k].name \in Reads => phase[k] = "idle"
                               /\ phase[k] # "push"
  BY <1>1, Others
<1>t. buf \in Seq(S) /\ got[j] \in Seq(S) /\ S \in SUBSET Int
  BY <1>i, SplitTypes
<1>3. kind \in {"tcp", "tls"}
  BY <1>i, <1>1, FramesAreStreams
<1>4. /\ Rising(buf) /\ Rising(got[j]) /\ Ahead(buf, got[j])
      /\ \A k \in Jobs : k # j => Ahead(got[k], got[j]) /\ Ahead(got[k], buf)
  BY <1>1, <1>u DEF AheadInv
<1> HIDE DEF S
<1>5. Elems(B) = Elems(buf) \cup Elems(got[j])
  BY <1>t, ElemsOfConcat
<1>6. Rising(B)
  BY <1>t, <1>4, RisingConcat DEF Ahead
<1> HIDE DEF B
<1>7. \A k \in Jobs : k # j => Ahead(got[k], B)
  BY <1>4, <1>5 DEF Ahead
<1> QED
  BY <1>i, <1>1, <1>2, <1>3, <1>u, <1>6, <1>7, AheadEmpty, OrderKept DEF Asking

\* The rest of the buffer, at the end of the stream, has no delimiter.
LEMMA OrderRest ==
  ASSUME IInv, PlaceInv', MixInv, AheadInv, FoundInv, FrameInv, ~mixed,
         NEW j \in Jobs, Io(j), TakeRest(j)
  PROVE  AheadInv' /\ FoundInv' /\ FrameInv'
<1>i. TypeOK /\ SizeInv /\ CursorInv /\ PlaceInv
  BY DEF IInv
<1>1. /\ UNCHANGED <<kind, op>> /\ phase[j] = "rest" /\ op[j].name = "until" /\ op[j].name \in Reads
      /\ got' = [got EXCEPT ![j] = buf] /\ buf' = <<>> /\ Done(j, "ok")
  BY <1>i DEF Io, TakeRest, PlaceInv, Reads
<1>2. phase'[j] = "idle"
  BY <1>i, <1>1 DEF Done, Answer, TypeOK
<1>u. \A k \in Jobs : k # j => /\ phase'[k] = phase[k] /\ answer'[k] = answer[k]
                               /\ op[k].name \in Reads => phase[k] = "idle"
  BY <1>1, Others
<1>3. OneFrame(buf)
  BY <1>1 DEF FoundInv, HasDelim, OneFrame
<1>4. Rising(buf)
  BY DEF AheadInv
<1> QED
  BY <1>i, <1>1, <1>2, <1>u, <1>3, <1>4, AheadEmpty, OrderKept DEF Asking

\* What is read from the kernel came after all that was handed over.
LEMMA OrderRead ==
  ASSUME IInv, PlaceInv', Split, WholeInv, MixInv, AheadInv, FoundInv, FrameInv, ~mixed,
         NEW j \in Jobs, op[j].name \in Reads, Io(j), ReadBytes(j), InCall(j), buf' = buf,
         answer[j] # "ok"
  PROVE  AheadInv' /\ FoundInv' /\ FrameInv'
<1> DEFINE n == Wanted(j)
           h == NextHanded(n)
           S == 1..MaxCame
           new == Ids(handed + 1, h)
           G == got[j] \o new
<1>i. TypeOK /\ SizeInv /\ CursorInv /\ PlaceInv
  BY DEF IInv
<1>u. \A k \in Jobs : k # j => /\ phase'[k] = phase[k] /\ answer'[k] = answer[k]
                               /\ op[k].name \in Reads => phase[k] = "idle"
                               /\ phase[k] # "push"
  BY Others
<1>t. /\ buf \in Seq(S) /\ got[j] \in Seq(S) /\ handed \in Nat /\ S \in SUBSET Int
      /\ got \in [Jobs -> Seq(S)]
  BY <1>i, SplitTypes
<1>p. phase \in [Jobs -> Phases] /\ stage[j] # "done" /\ phase[j] \in Asking /\ UNCHANGED <<kind, op>>
  BY <1>i, UnderWayIsOpen DEF TypeOK, InCall, Asking, Io
<1>2. n \in Nat
  BY <1>i, WantedIsNat
<1>3. got' = [got EXCEPT ![j] = G]
  BY DEF ReadBytes
<1>g. \A to : GoOn(j, to) => phase'[j] = to /\ answer' = answer
  BY <1>p DEF GoOn
<1>d. Done(j, "ok") => phase'[j] = "idle"
  BY <1>p DEF Done, Answer
<1>a. /\ op[j].name = "until" => phase'[j] = "push" /\ answer' = answer
      /\ op[j].name # "until" => phase'[j] \in {"idle", "check", "buffer"}
  BY <1>g, <1>d DEF ReadBytes, NextRound
<1>f. /\ op[j].name = "until" => got[j] = <<>> /\ \A i \in DOMAIN buf : buf[i] \notin Delims
      /\ op[j].name # "until" => buf = <<>>
  BY <1>p DEF WholeInv, FoundInv, HasDelim, Asking, Reads
<1> HIDE DEF n
<1>4. h \in Nat /\ handed <= h
  <2>1. h \in handed..came /\ came \in Nat
    BY <1>i, <1>2, NextHandedBounds, TypeHasNumbers DEF Numbers
  <2> QED
    BY <1>t, <2>1
<1>5. new \in Seq(S)
  BY <1>i, <1>2, NewBytes
<1> HIDE DEF h, S
<1>6. Elems(new) = (handed + 1)..h /\ Rising(new)
  BY <1>t, <1>4, ElemsOfIds, RisingIds
<1>7. /\ Rising(buf) /\ Rising(got[j])
      /\ \A k \in Jobs : k # j => Ahead(got[k], buf)
      /\ phase[j] # "push" /\ (kind \notin {"tcp", "tls"} => buf = <<>>)
  BY <1>p, <1>u DEF AheadInv, Asking
<1>8. Ahead(buf, new) /\ \A k \in Jobs : Ahead(got[k], new)
  <2>1. \A x \in 1..handed, y \in (handed + 1)..h : x < y
    BY <1>t, <1>4
  <2> QED
    BY <1>6, <2>1 DEF Split, Ahead
<1> HIDE DEF new
<1>9. Rising(G)
  BY <1>t, <1>5, <1>6, <1>7, <1>8, RisingConcat DEF Ahead
<1>10. op[j].name = "until" => G = new
  <2>1. <<>> \o new = new
    BY <1>5, ConcatEmptySeq
  <2> QED
    BY <1>f, <2>1
<1> HIDE DEF G
<1>11. CASE op[j].name = "until"
  <2>1. Ahead(buf, G) /\ \A k \in Jobs : k # j => Ahead(got[k], G)
    BY <1>8, <1>10, <1>11
  <2> QED
    BY <1>i, <1>u, <1>p, <1>3, <1>7, <1>9, <1>a, <1>f, <1>11, <2>1, OrderKept
<1>12. CASE op[j].name # "until"
  <2>1. Ahead(G, buf)
    BY <1>f, <1>12, AheadEmpty
  <2> QED
    BY <1>i, <1>u, <1>p, <1>3, <1>7, <1>9, <1>a, <1>f, <1>12, <2>1, OrderKept DEF Asking
<1> QED
  BY <1>11, <1>12

\* A connection or datagram has no order with the bytes of a stream to keep.
LEMMA OrderItem ==
  ASSUME IInv, PlaceInv', WholeInv, AheadInv, FoundInv, FrameInv,
         NEW j \in Jobs, Io(j), TakeItem(j), came > handed, stage[j] # "done"
  PROVE  AheadInv' /\ FoundInv' /\ FrameInv'
<1> DEFINE G == Ids(handed + 1, handed + 1)
<1>i. TypeOK /\ SizeInv /\ CursorInv /\ PlaceInv
  BY DEF IInv
<1>1. /\ UNCHANGED <<kind, op>> /\ op[j].name = "item" /\ got' = [got EXCEPT ![j] = G]
      /\ Done(j, "ok") /\ buf' = buf
  BY DEF Io, TakeItem
<1>2. kind \notin {"tcp", "tls"} /\ \A k \in Jobs : op[k].name \notin Reads
  BY <1>i, <1>1 DEF SizeInv, Suits, Items
<1>3. buf' = <<>> /\ handed \in Nat
  BY <1>i, <1>1, <1>2, SplitTypes DEF AheadInv
<1>4. phase'[j] = "idle"
  BY <1>i, <1>1 DEF Done, Answer, TypeOK
<1>5. Rising(G)
  BY <1>3, RisingIds
<1>6. \A k \in Jobs : k # j => phase'[k] = phase[k] /\ answer'[k] = answer[k]
  BY <1>i, IoOwn
<1> HIDE DEF G
<1> QED
  BY <1>i, <1>1, <1>2, <1>3, <1>4, <1>5, <1>6, AheadEmpty, OrderKept DEF Asking

\* The other steps of a call move no bytes.
LEMMA OrderQuiet ==
  ASSUME IInv, PlaceInv', AheadInv, FoundInv, FrameInv, NEW j \in Jobs, Io(j),
         stage[j] # "done", answer[j] = "none",
         \/ Read(j) /\ ~ReadBytes(j)
         \/ Write(j)
         \/ TakeItem(j) /\ ~(came > handed)
         \/ LookInBuffer(j) /\ op[j].name \notin Reads
  PROVE  AheadInv' /\ FoundInv' /\ FrameInv'
<1>i. TypeOK /\ CursorInv /\ PlaceInv
  BY DEF IInv
<1>o. UNCHANGED <<kind, op>> /\ phase \in [Jobs -> Phases] /\ answer \in [Jobs -> Answers]
  BY <1>i DEF Io, TypeOK, Answers, Whats
<1>u. \A k \in Jobs : k # j => phase'[k] = phase[k] /\ answer'[k] = answer[k]
  BY <1>i, IoOwn
<1>1. CASE op[j].name \notin Reads
  <2>1. UNCHANGED <<got, buf>>
    BY <1>1 DEF Read, Write, TakeItem, LookInBuffer, FromBuffer, Reads
  <2> QED
    BY <1>i, <1>o, <1>u, <1>1, <2>1, OrderSame
<1>2. CASE op[j].name \in Reads
  <2>1. Read(j) /\ ~ReadBytes(j)
    BY <1>2 DEF Write, TakeItem, Reads
  <2>2. UNCHANGED <<got, buf>> /\ phase[j] \in Asking
    BY <2>1 DEF Read, ReadEnd, ReadBroken, ReadWaits, InCall, Asking
  <2>3. ASSUME NEW to, GoOn(j, to) PROVE phase'[j] = to /\ answer' = answer
    BY <1>o, <2>3 DEF GoOn
  <2>4. ASSUME NEW what, Done(j, what) PROVE phase'[j] = "idle" /\ answer'[j] = what
    BY <1>o, <2>4 DEF Done, Answer
  <2>5. /\ phase'[j] \in {"idle", "rest", "check", "asleep", "park"}
        /\ op[j].name = "until" => answer'[j] # "ok"
    <3>1. CASE ReadEnd(j)
      BY <2>3, <2>4, <3>1 DEF ReadEnd
    <3>2. CASE ReadBroken(j)
      BY <2>4, <3>2 DEF ReadBroken
    <3>3. CASE ReadWaits(j)
      BY <2>3, <2>4, <3>3 DEF ReadWaits, WouldBlock
    <3> QED
      BY <2>1, <3>1, <3>2, <3>3 DEF Read
  <2>6. phase[j] # "push" /\ phase'[j] # "push"
    BY <2>2, <2>5 DEF Asking
  <2> QED
    BY <1>i, <1>o, <1>u, <2>2, <2>5, <2>6, OrderSame
<1> QED
  BY <1>1, <1>2

\* Every step keeps the order, until two threads read at once.
LEMMA OrderStep ==
  ASSUME IInv, BInv, MixInv, OrderInv, IInv', [Next]_vars
  PROVE  OrderInv'
<1>i. TypeOK /\ SizeInv /\ CursorInv /\ QueueInv /\ FateInv /\ PlaceInv /\ PlaceInv'
  BY DEF IInv
<1>b. Split /\ WholeInv /\ ResultInv
  BY DEF BInv
<1> SUFFICES ASSUME ~mixed' PROVE AheadInv' /\ FoundInv' /\ FrameInv'
  BY DEF OrderInv
<1>m. ~mixed
  BY <1>i, MixedGrows
<1>o. AheadInv /\ FoundInv /\ FrameInv
  BY <1>m DEF OrderInv
<1>1. ASSUME NEW j \in Jobs, Io(j) PROVE AheadInv' /\ FoundInv' /\ FrameInv'
  <2>1. stage[j] # "done" /\ answer[j] = "none"
    BY <1>1, <1>i, <1>b, IoOutcome, UnderWayIsOpen, OpenIsUnanswered DEF After
  <2>2. CASE LookInBuffer(j) /\ op[j].name \in Reads
    BY <1>1, <1>i, <1>b, <1>m, <1>o, <2>1, <2>2, OrderLook
  <2>3. CASE Push(j)
    BY <1>1, <1>i, <1>m, <1>o, <2>1, <2>3, OrderPush
  <2>4. CASE TakeRest(j)
    BY <1>1, <1>i, <1>m, <1>o, <2>4, OrderRest
  <2>5. CASE Read(j) /\ ReadBytes(j)
    <3>1. op[j].name \in Reads /\ InCall(j) /\ buf' = buf
      BY <2>5 DEF Read
    <3> QED
      BY <1>1, <1>i, <1>b, <1>m, <1>o, <2>1, <2>5, <3>1, OrderRead
  <2>6. CASE TakeItem(j) /\ came > handed
    BY <1>1, <1>i, <1>b, <1>o, <2>1, <2>6, OrderItem
  <2>7. CASE \/ Read(j) /\ ~ReadBytes(j)
             \/ Write(j)
             \/ TakeItem(j) /\ ~(came > handed)
             \/ LookInBuffer(j) /\ op[j].name \notin Reads
    BY <1>1, <1>i, <1>o, <2>1, <2>7, OrderQuiet
  <2> QED
    BY <1>1, <2>2, <2>3, <2>4, <2>5, <2>6, <2>7 DEF Io
<1>2. CASE ~\E j \in Jobs : Io(j)
  <2>1. Elsewhere
    BY <1>2, <1>i, IoOrNothing
  <2>2. \A k \in Jobs : op[k].name \in Reads =>
          /\ phase[k] = "push" <=> phase'[k] = "push"
          /\ phase'[k] \in Asking => phase[k] \in Asking
          /\ phase'[k] = "rest" => phase[k] \in Asking \cup {"rest"}
    BY <2>1 DEF Elsewhere
  <2>3. \A k \in Jobs : answer'[k] = "ok" /\ op[k].name = "until" => answer[k] = "ok"
    BY <1>2, AnswerElsewhere
  <2> QED
    BY <1>i, <1>o, <2>1, <2>2, <2>3, OrderSame DEF Elsewhere
<1> QED
  BY <1>1, <1>2

LEMMA OrderInit == Init => MixInv /\ OrderInv
<1> SUFFICES ASSUME Init PROVE MixInv /\ OrderInv
  OBVIOUS
<1>1. /\ buf = <<>> /\ \A j \in Jobs : got[j] = <<>> /\ stage[j] = "new"
      /\ \A j \in Jobs : answer[j] = "none" /\ phase[j] = "idle"
  BY DEF Init
<1>2. MixInv
  BY <1>1 DEF MixInv, Inline
<1>3. AheadInv
  BY <1>1, AheadEmpty DEF AheadInv
<1>4. FoundInv /\ FrameInv
  BY <1>1 DEF FoundInv, FrameInv, Asking
<1> QED
  BY <1>2, <1>3, <1>4 DEF OrderInv

\* As long as no two threads read at once, the bytes stay in order, and a frame
\* has one delimiter (socket.rs, reactor.rs).
THEOREM OneReaderKeepsOrderAlways == Spec => []OneReaderKeepsOrder
<1>1. Init => BInv /\ MixInv /\ OrderInv
  BY BytesInit, OrderInit
<1>2. IInv /\ BInv /\ [Next]_vars => BInv'
  BY SplitStep, WholeStep, RestStep, ResultStep DEF BInv
<1>3. IInv /\ MixInv /\ [Next]_vars => MixInv'
  BY MixStep
<1>4. IInv /\ IInv' /\ BInv /\ MixInv /\ OrderInv /\ [Next]_vars => OrderInv'
  BY OrderStep
<1>5. OrderInv => OneReaderKeepsOrder
  BY DEF OrderInv, AheadInv, FrameInv, OneFrame, OneReaderKeepsOrder
<1> QED
  BY <1>1, <1>2, <1>3, <1>4, <1>5, InvAlways, PTL DEF Spec

=============================================================================
