------------------------ MODULE BlockDownloadProofs -------------------------
(***************************************************************************)
(* The lists and maps of BlockDownload agree, for any number of peers and  *)
(* blocks and any limits, and the front of what is in flight is the        *)
(* oldest.                                                                 *)
(***************************************************************************)
EXTENDS BlockDownload, SequenceTheorems, TLAPS

(***************************************************************************)
(* One kind of lists, with its counts and its map; "live" are the peers    *)
(* that have a state.                                                      *)
(***************************************************************************)

Typed(v, n, m) ==
  /\ v \in [Peers -> Seq(Hashes)] /\ n \in [Peers -> Int]
  /\ m \in [Hashes -> Peers \cup {None}]

Lists(v, n, m, live) ==
  /\ Typed(v, n, m)
  /\ \A p \in Peers : n[p] = Len(v[p])
  /\ \A p \in Peers : \A i \in 1 .. Len(v[p]) : m[v[p][i]] = p
  /\ \A p \in Peers : \A i, j \in 1 .. Len(v[p]) : v[p][i] = v[p][j] => i = j
  /\ \A h \in Hashes : m[h] # None =>
       m[h] \in live /\ \E i \in 1 .. Len(v[m[h]]) : v[m[h]][i] = h

Holds(s, h) == \E i \in 1 .. Len(s) : s[i] = h

\* A peer's list may be replaced by any that the map follows.
LEMMA ReplaceList ==
  ASSUME NEW v, NEW n, NEW m, NEW live, Lists(v, n, m, live),
         NEW p \in Peers, NEW w \in Seq(Hashes), NEW k \in Int, NEW m2, NEW live2,
         m2 \in [Hashes -> Peers \cup {None}], k = Len(w),
         \A h \in Hashes : m2[h] = p <=> Holds(w, h),
         \A i, j \in 1 .. Len(w) : w[i] = w[j] => i = j,
         \A h \in Hashes : \/ m2[h] = m[h]
                           \/ m2[h] = None /\ m[h] = p
                           \/ m2[h] = p /\ m[h] = None,
         live \ {p} \subseteq live2, p \in live2 \/ Len(w) = 0
  PROVE  Lists([v EXCEPT ![p] = w], [n EXCEPT ![p] = k], m2, live2)
<1> DEFINE v2 == [v EXCEPT ![p] = w]
           n2 == [n EXCEPT ![p] = k]
<1>1. Typed(v2, n2, m2)
  BY DEF Lists, Typed
<1>2. v2[p] = w /\ n2[p] = k /\ \A q \in Peers \ {p} : v2[q] = v[q] /\ n2[q] = n[q]
  BY DEF Lists, Typed
<1> HIDE DEF v2, n2
<1>3. \A q \in Peers : n2[q] = Len(v2[q])
  BY <1>2 DEF Lists
<1>4. ASSUME NEW q \in Peers, NEW i \in 1 .. Len(v2[q]) PROVE m2[v2[q][i]] = q
  <2>1. v2[q][i] \in Hashes
    BY <1>1, ElementOfSeq DEF Typed
  <2>2. CASE q = p
    BY <1>2, <2>1, <2>2 DEF Holds
  <2>3. CASE q # p
    <3>1. m[v2[q][i]] = q
      BY <1>2, <2>3 DEF Lists
    <3>2. q # None
      BY BlockDownloadAssumption
    <3>3. QED BY <2>1, <2>3, <3>1, <3>2
  <2>4. QED BY <2>2, <2>3
<1>5. \A q \in Peers : \A i, j \in 1 .. Len(v2[q]) : v2[q][i] = v2[q][j] => i = j
  BY <1>2 DEF Lists
<1>6. ASSUME NEW h \in Hashes, m2[h] # None
      PROVE  m2[h] \in live2 /\ \E i \in 1 .. Len(v2[m2[h]]) : v2[m2[h]][i] = h
  <2>1. CASE m2[h] = p
    <3>1. Holds(w, h)
      BY <2>1
    <3>2. p \in live2
      <4>1. Len(w) \in Nat
        BY LenProperties
      <4>2. QED BY <3>1, <4>1 DEF Holds
    <3>3. QED BY <1>2, <2>1, <3>1, <3>2 DEF Holds
  <2>2. CASE m2[h] # p
    <3>1. m2[h] = m[h]
      BY <1>6, <2>2
    <3>2. m[h] \in live /\ \E i \in 1 .. Len(v[m[h]]) : v[m[h]][i] = h
      BY <1>6, <3>1 DEF Lists
    <3>3. m[h] \in Peers
      BY <1>6, <3>1 DEF Lists, Typed
    <3>4. QED BY <1>2, <2>2, <3>1, <3>2, <3>3
  <2>3. QED BY <2>1, <2>2
<1>7. QED BY <1>1, <1>3, <1>4, <1>5, <1>6 DEF Lists, v2, n2

LEMMA MapFollows ==
  ASSUME NEW v, NEW n, NEW m, NEW live, Lists(v, n, m, live), NEW p \in Peers
  PROVE  /\ v[p] \in Seq(Hashes) /\ n[p] = Len(v[p]) /\ Len(v[p]) \in Nat
         /\ \A h \in Hashes : m[h] = p <=> Holds(v[p], h)
<1>1. v[p] \in Seq(Hashes) /\ n[p] = Len(v[p]) /\ Len(v[p]) \in Nat
  BY LenProperties DEF Lists, Typed
<1>2. p # None
  BY BlockDownloadAssumption
<1>3. QED BY <1>1, <1>2 DEF Lists, Holds

LEMMA AppendOne ==
  ASSUME NEW v, NEW n, NEW m, NEW live, Lists(v, n, m, live),
         NEW p \in Peers, p \in live, NEW h \in Hashes, m[h] = None
  PROVE  Lists([v EXCEPT ![p] = Append(@, h)], [n EXCEPT ![p] = @ + 1],
               [m EXCEPT ![h] = p], live)
<1> DEFINE w == Append(v[p], h)
           m2 == [m EXCEPT ![h] = p]
<1>1. /\ v[p] \in Seq(Hashes) /\ n[p] = Len(v[p]) /\ Len(v[p]) \in Nat
      /\ \A g \in Hashes : m[g] = p <=> Holds(v[p], g)
  BY MapFollows
<1>2. /\ w \in Seq(Hashes) /\ Len(w) = Len(v[p]) + 1 /\ w[Len(v[p]) + 1] = h
      /\ \A i \in 1 .. Len(v[p]) : w[i] = v[p][i]
  BY <1>1, AppendProperties
<1>3. m2 \in [Hashes -> Peers \cup {None}] /\ m2[h] = p /\ \A g \in Hashes \ {h} : m2[g] = m[g]
  BY DEF Lists, Typed
<1> HIDE DEF w, m2
<1>4. ASSUME NEW g \in Hashes PROVE m2[g] = p <=> Holds(w, g)
  <2>1. Holds(w, g) <=> g = h \/ Holds(v[p], g)
    <3>1. 1 .. Len(w) = 1 .. Len(v[p]) \cup {Len(v[p]) + 1}
      BY <1>1, <1>2
    <3>2. \A i \in 1 .. Len(w) : w[i] = g => g = h \/ Holds(v[p], g)
      BY <1>2, <3>1 DEF Holds
    <3>3. g = h \/ Holds(v[p], g) => Holds(w, g)
      BY <1>2, <3>1 DEF Holds
    <3>4. QED BY <3>2, <3>3 DEF Holds
  <2>2. QED BY <1>1, <1>3, <2>1
<1>5. ASSUME NEW i \in 1 .. Len(w), NEW j \in 1 .. Len(w), w[i] = w[j] PROVE i = j
  <2>1. ~Holds(v[p], h)
    BY <1>1, BlockDownloadAssumption
  <2>2. \A a, b \in 1 .. Len(v[p]) : v[p][a] = v[p][b] => a = b
    BY DEF Lists
  <2>3. QED BY <1>1, <1>2, <1>5, <2>1, <2>2 DEF Holds
<1>6. /\ \A g \in Hashes : m2[g] = m[g] \/ (m2[g] = p /\ m[g] = None)
      /\ n[p] + 1 \in Int /\ n[p] + 1 = Len(w) /\ live \ {p} \subseteq live
  BY <1>1, <1>2, <1>3
<1>7. w \in Seq(Hashes) /\ m2 \in [Hashes -> Peers \cup {None}]
  BY <1>2, <1>3
<1>8. Lists([v EXCEPT ![p] = w], [n EXCEPT ![p] = n[p] + 1], m2, live)
  BY <1>4, <1>5, <1>6, <1>7, ReplaceList
<1>9. QED BY <1>8 DEF w, m2

LEMMA ErasedFacts ==
  ASSUME NEW S, NEW s \in Seq(S), NEW i \in 1 .. Len(s)
  PROVE  /\ ErasedAt(s, i) \in Seq(S) /\ Len(ErasedAt(s, i)) = Len(s) - 1
         /\ \A j \in 1 .. Len(s) - 1 : ErasedAt(s, i)[j] = IF j < i THEN s[j] ELSE s[j + 1]
<1>1. Len(s) \in Nat /\ Len(s) - 1 \in Nat
  BY LenProperties
<1>2. \A j \in 1 .. Len(s) : s[j] \in S
  BY ElementOfSeq
<1>3. ErasedAt(s, i) \in [1 .. Len(s) - 1 -> S]
  BY <1>1, <1>2 DEF ErasedAt
<1>4. ErasedAt(s, i) \in Seq(S)
  BY <1>1, <1>3, SeqDef
<1>5. Len(ErasedAt(s, i)) = Len(s) - 1
  BY <1>1, <1>3, <1>4, LenProperties
<1>6. QED BY <1>4, <1>5 DEF ErasedAt

LEMMA EraseOne ==
  ASSUME NEW v, NEW n, NEW m, NEW live, Lists(v, n, m, live),
         NEW h \in Hashes, NEW q \in Peers, m[h] = q,
         NEW i \in 1 .. Len(v[q]), v[q][i] = h
  PROVE  Lists([v EXCEPT ![q] = ErasedAt(v[q], i)], [n EXCEPT ![q] = @ - 1],
               [m EXCEPT ![h] = None], live)
<1> DEFINE w == ErasedAt(v[q], i)
           m2 == [m EXCEPT ![h] = None]
<1>1. /\ v[q] \in Seq(Hashes) /\ n[q] = Len(v[q]) /\ Len(v[q]) \in Nat
      /\ \A g \in Hashes : m[g] = q <=> Holds(v[q], g)
  BY MapFollows
<1>2. /\ w \in Seq(Hashes) /\ Len(w) = Len(v[q]) - 1
      /\ \A j \in 1 .. Len(w) : w[j] = IF j < i THEN v[q][j] ELSE v[q][j + 1]
  BY <1>1, ErasedFacts
<1>3. m2 \in [Hashes -> Peers \cup {None}] /\ m2[h] = None /\ \A g \in Hashes \ {h} : m2[g] = m[g]
  BY DEF Lists, Typed
<1>4. q # None /\ q \in live /\ live \ {q} \subseteq live
  BY BlockDownloadAssumption DEF Lists
<1> HIDE DEF w, m2
<1>5. \A a, b \in 1 .. Len(v[q]) : v[q][a] = v[q][b] => a = b
  BY DEF Lists
<1>6. ASSUME NEW g \in Hashes PROVE m2[g] = q <=> Holds(w, g)
  <2>1. CASE g = h
    <3>1. \A j \in 1 .. Len(w) : w[j] # h
      BY <1>1, <1>2, <1>5
    <3>2. QED BY <1>3, <1>4, <2>1, <3>1 DEF Holds
  <2>2. CASE g # h
    <3>1. ASSUME NEW j \in 1 .. Len(v[q]), v[q][j] = g PROVE Holds(w, g)
      <4>1. CASE j < i
        BY <1>1, <1>2, <3>1, <4>1 DEF Holds
      <4>2. CASE j > i
        <5>1. j - 1 \in 1 .. Len(w) /\ w[j - 1] = g
          BY <1>1, <1>2, <3>1, <4>2
        <5>2. QED BY <5>1 DEF Holds
      <4>3. QED BY <1>1, <2>2, <3>1, <4>1, <4>2
    <3>2. Holds(w, g) => Holds(v[q], g)
      BY <1>1, <1>2 DEF Holds
    <3>3. QED BY <1>1, <1>3, <2>2, <3>1, <3>2 DEF Holds
  <2>3. QED BY <2>1, <2>2
<1>7. ASSUME NEW a \in 1 .. Len(w), NEW b \in 1 .. Len(w), w[a] = w[b] PROVE a = b
  BY <1>1, <1>2, <1>5, <1>7
<1>8. /\ \A g \in Hashes : m2[g] = m[g] \/ (m2[g] = None /\ m[g] = q)
      /\ n[q] - 1 \in Int /\ n[q] - 1 = Len(w)
  BY <1>1, <1>2, <1>3
<1>9. w \in Seq(Hashes) /\ m2 \in [Hashes -> Peers \cup {None}]
  BY <1>2, <1>3
<1>10. Lists([v EXCEPT ![q] = w], [n EXCEPT ![q] = n[q] - 1], m2, live)
  BY <1>4, <1>6, <1>7, <1>8, <1>9, ReplaceList
<1>11. QED BY <1>10 DEF w, m2

\* A peer that goes takes its list with it.
LEMMA ForgetPeer ==
  ASSUME NEW v, NEW n, NEW m, NEW live, Lists(v, n, m, live), NEW p \in Peers
  PROVE  Lists([v EXCEPT ![p] = <<>>], [n EXCEPT ![p] = 0],
               [h \in Hashes |-> IF Holds(v[p], h) THEN None ELSE m[h]], live \ {p})
<1> DEFINE m2 == [h \in Hashes |-> IF Holds(v[p], h) THEN None ELSE m[h]]
<1>1. \A h \in Hashes : m[h] = p <=> Holds(v[p], h)
  BY MapFollows
<1>2. <<>> \in Seq(Hashes) /\ Len(<<>>) = 0 /\ p # None
  BY EmptySeq, BlockDownloadAssumption
<1>3. m2 \in [Hashes -> Peers \cup {None}]
  BY DEF Lists, Typed
<1>4. \A h \in Hashes : m2[h] = p <=> Holds(<<>>, h)
  BY <1>1, <1>2 DEF Holds
<1>5. \A h \in Hashes : m2[h] = m[h] \/ (m2[h] = None /\ m[h] = p)
  BY <1>1
<1> HIDE DEF m2
<1>6. ASSUME NEW w, w = <<>>, NEW k \in Int, k = 0
      PROVE  Lists([v EXCEPT ![p] = w], [n EXCEPT ![p] = k], m2, live \ {p})
  <2>1. w \in Seq(Hashes) /\ Len(w) = 0 /\ k = Len(w)
    BY <1>2, <1>6
  <2>2. \A i, j \in 1 .. Len(w) : w[i] = w[j] => i = j
    BY <2>1
  <2>3. \A h \in Hashes : m2[h] = p <=> Holds(w, h)
    BY <1>4, <1>6
  <2> DEFINE live2 == live \ {p}
  <2>4. live \ {p} \subseteq live2
    OBVIOUS
  <2> HIDE DEF live2
  <2>5. Lists([v EXCEPT ![p] = w], [n EXCEPT ![p] = k], m2, live2)
    BY <1>3, <1>5, <2>1, <2>2, <2>3, <2>4, ReplaceList
  <2>6. QED BY <2>5 DEF live2
<1>7. \A w, k : w = <<>> /\ k \in Int /\ k = 0
        => Lists([v EXCEPT ![p] = w], [n EXCEPT ![p] = k], m2, live \ {p})
  BY <1>6
<1>8. 0 \in Int
  OBVIOUS
<1>9. Lists([v EXCEPT ![p] = <<>>], [n EXCEPT ![p] = 0], m2, live \ {p})
  BY <1>7, <1>8, Zenon
<1>10. QED BY <1>9 DEF m2

LEMMA DropFront ==
  ASSUME NEW v, NEW n, NEW m, NEW live, Lists(v, n, m, live),
         NEW p \in Peers, p \in live, NEW k \in 0 .. Len(v[p])
  PROVE  Lists([v EXCEPT ![p] = SubSeq(v[p], k + 1, Len(v[p]))], [n EXCEPT ![p] = @ - k],
               [h \in Hashes |-> IF h \in {v[p][i] : i \in 1 .. k} THEN None ELSE m[h]], live)
<1> DEFINE s == v[p]
           w == SubSeq(s, k + 1, Len(s))
           m2 == [h \in Hashes |-> IF h \in {s[i] : i \in 1 .. k} THEN None ELSE m[h]]
<1>1. /\ s \in Seq(Hashes) /\ n[p] = Len(s) /\ Len(s) \in Nat
      /\ \A h \in Hashes : m[h] = p <=> Holds(s, h)
  BY MapFollows
<1>2. \A i \in 1 .. Len(s) : s[i] \in Hashes
  BY <1>1, ElementOfSeq
<1>3. /\ w \in Seq(Hashes) /\ Len(w) = Len(s) - k
      /\ \A i \in 1 .. Len(w) : w[i] = s[k + i]
  BY <1>1, <1>2, SubSeqProperties
<1>4. \A i, j \in 1 .. Len(s) : s[i] = s[j] => i = j
  BY DEF Lists
<1>5. m2 \in [Hashes -> Peers \cup {None}] /\ p # None /\ live \ {p} \subseteq live
  BY BlockDownloadAssumption DEF Lists, Typed
<1>6. \A h \in Hashes : m2[h] = IF \E i \in 1 .. k : s[i] = h THEN None ELSE m[h]
  OBVIOUS
<1> HIDE DEF s, w, m2
<1>7. ASSUME NEW h \in Hashes PROVE m2[h] = p <=> Holds(w, h)
  <2>1. CASE \E i \in 1 .. k : s[i] = h
    <3>1. ~Holds(w, h)
      BY <1>1, <1>3, <1>4, <2>1 DEF Holds
    <3>2. QED BY <1>5, <1>6, <2>1, <3>1
  <2>2. CASE ~\E i \in 1 .. k : s[i] = h
    <3>1. ASSUME NEW i \in 1 .. Len(s), s[i] = h PROVE Holds(w, h)
      <4>1. i - k \in 1 .. Len(w) /\ w[i - k] = h
        BY <1>1, <1>3, <2>2, <3>1
      <4>2. QED BY <4>1 DEF Holds
    <3>2. Holds(w, h) => Holds(s, h)
      <4>1. \A i \in 1 .. Len(w) : k + i \in 1 .. Len(s)
        BY <1>1, <1>3
      <4>2. QED BY <1>3, <4>1 DEF Holds
    <3>3. QED BY <1>1, <1>6, <2>2, <3>1, <3>2 DEF Holds
  <2>3. QED BY <2>1, <2>2
<1>8. ASSUME NEW i \in 1 .. Len(w), NEW j \in 1 .. Len(w), w[i] = w[j] PROVE i = j
  BY <1>1, <1>3, <1>4, <1>8
<1>9. \A h \in Hashes : m2[h] = m[h] \/ (m2[h] = None /\ m[h] = p)
  <2>1. \A h \in Hashes : (\E i \in 1 .. k : s[i] = h) => Holds(s, h)
    BY <1>1 DEF Holds, s
  <2>2. QED BY <1>1, <1>6, <2>1
<1>10. n[p] - k \in Int /\ n[p] - k = Len(w)
  BY <1>1, <1>3
<1>11. Lists([v EXCEPT ![p] = w], [n EXCEPT ![p] = n[p] - k], m2, live)
  BY <1>3, <1>5, <1>7, <1>8, <1>9, <1>10, ReplaceList
<1>12. QED BY <1>11 DEF s, w, m2

\* w is t and then the first k of s.
Continues(w, t, s, k) ==
  /\ Len(w) = Len(t) + k
  /\ \A i \in 1 .. Len(w) : w[i] = IF i <= Len(t) THEN t[i] ELSE s[i - Len(t)]

\* The first k of s differ, and the map has none of them.
Fresh(m, s, k) ==
  /\ \A i, j \in 1 .. k : s[i] = s[j] => i = j
  /\ \A i \in 1 .. k : m[s[i]] = None

\* The first k of s are added to the list of p, which becomes w.
AddedTo(p, s, k, w, v, n, m, v2, n2, m2) ==
  /\ s \in Seq(Hashes) /\ k \in 0 .. Len(s) /\ Fresh(m, s, k)
  /\ w \in Seq(Hashes) /\ Continues(w, v[p], s, k)
  /\ v2 = [v EXCEPT ![p] = w] /\ n2 = [n EXCEPT ![p] = @ + k]
  /\ m2 = [h \in Hashes |-> IF h \in {s[i] : i \in 1 .. k} THEN p ELSE m[h]]

LEMMA AppendMany ==
  ASSUME NEW v, NEW n, NEW m, NEW live, NEW v2, NEW n2, NEW m2, NEW s, NEW k, NEW w,
         Lists(v, n, m, live), NEW p \in Peers, p \in live,
         AddedTo(p, s, k, w, v, n, m, v2, n2, m2)
  PROVE  Lists(v2, n2, m2, live)
<1>15. /\ s \in Seq(Hashes) /\ k \in 0 .. Len(s) /\ Fresh(m, s, k)
       /\ w \in Seq(Hashes) /\ Continues(w, v[p], s, k)
       /\ v2 = [v EXCEPT ![p] = w] /\ n2 = [n EXCEPT ![p] = @ + k]
       /\ m2 = [h \in Hashes |-> IF h \in {s[i] : i \in 1 .. k} THEN p ELSE m[h]]
  BY DEF AddedTo
<1> DEFINE l == Len(v[p])
<1>1. /\ n[p] = l /\ l \in Nat /\ Len(s) \in Nat
      /\ \A h \in Hashes : m[h] = p <=> Holds(v[p], h)
  BY <1>15, MapFollows, LenProperties
<1>2. \A i \in 1 .. Len(s) : s[i] \in Hashes
  BY <1>15, ElementOfSeq
<1>3. m2 \in [Hashes -> Peers \cup {None}] /\ p # None /\ live \ {p} \subseteq live
  BY <1>15, BlockDownloadAssumption DEF Lists, Typed
<1>4. \A h \in Hashes : m2[h] = IF \E i \in 1 .. k : s[i] = h THEN p ELSE m[h]
  BY <1>15
<1>5. \A i, j \in 1 .. l : v[p][i] = v[p][j] => i = j
  BY DEF Lists
<1>14. /\ \A i, j \in 1 .. k : s[i] = s[j] => i = j
       /\ \A i \in 1 .. k : m[s[i]] = None
       /\ Len(w) = l + k
       /\ \A i \in 1 .. Len(w) : w[i] = IF i <= l THEN v[p][i] ELSE s[i - l]
  BY <1>15 DEF Fresh, Continues
<1> HIDE DEF l
<1>11. k \in Nat /\ Len(w) = l + k
  BY <1>1, <1>14, <1>15
<1>12. /\ \A i \in 1 .. l : i \in 1 .. Len(w) /\ w[i] = v[p][i]
       /\ \A i \in 1 .. k : l + i \in 1 .. Len(w) /\ w[l + i] = s[i]
  <2>1. ASSUME NEW i \in 1 .. l PROVE i \in 1 .. Len(w) /\ w[i] = v[p][i]
    <3>1. i \in 1 .. Len(w) /\ i <= l
      BY <1>1, <1>11
    <3>2. QED BY <1>14, <3>1
  <2>2. ASSUME NEW i \in 1 .. k PROVE l + i \in 1 .. Len(w) /\ w[l + i] = s[i]
    <3>1. l + i \in 1 .. Len(w) /\ ~(l + i <= l) /\ (l + i) - l = i
      BY <1>1, <1>11
    <3>2. w[l + i] = s[(l + i) - l]
      BY <1>14, <3>1
    <3>3. QED BY <3>1, <3>2
  <2>3. QED BY <2>1, <2>2
<1>6. ASSUME NEW h \in Hashes PROVE m2[h] = p <=> Holds(w, h)
  <2>1. ASSUME NEW i \in 1 .. k, s[i] = h PROVE Holds(w, h)
    <3>1. l + i \in 1 .. Len(w) /\ w[l + i] = h
      BY <1>12, <2>1
    <3>2. QED BY <3>1 DEF Holds
  <2>2. ASSUME Holds(v[p], h) PROVE Holds(w, h)
    BY <1>12, <2>2 DEF Holds, l
  <2>3. ASSUME NEW j \in 1 .. Len(w), w[j] = h
        PROVE  Holds(v[p], h) \/ \E i \in 1 .. k : s[i] = h
    <3>1. CASE j <= l
      <4>1. j \in 1 .. l
        BY <1>1, <1>11, <3>1
      <4>2. QED BY <1>12, <2>3, <4>1 DEF Holds, l
    <3>2. CASE ~(j <= l)
      <4>1. j - l \in 1 .. k /\ l + (j - l) = j
        BY <1>1, <1>11, <3>2
      <4>2. QED BY <1>12, <2>3, <4>1
    <3>3. QED BY <3>1, <3>2
  <2>4. Holds(w, h) <=> Holds(v[p], h) \/ \E i \in 1 .. k : s[i] = h
    BY <2>1, <2>2, <2>3 DEF Holds
  <2>5. QED BY <1>1, <1>4, <2>4
<1>7. ASSUME NEW i \in 1 .. Len(w), NEW j \in 1 .. Len(w), w[i] = w[j] PROVE i = j
  <2>1. \A a \in 1 .. l, b \in 1 .. k : v[p][a] # s[b]
    <3> SUFFICES ASSUME NEW a \in 1 .. l, NEW b \in 1 .. k, v[p][a] = s[b] PROVE FALSE
      OBVIOUS
    <3>1. m[s[b]] = None /\ m[v[p][a]] = p
      BY <1>14 DEF Lists, l
    <3>2. QED BY <1>3, <3>1
  <2>2. CASE i <= l /\ j <= l
    <3>1. i \in 1 .. l /\ j \in 1 .. l
      BY <1>1, <1>11, <2>2
    <3>2. QED BY <1>5, <1>7, <1>12, <3>1
  <2>3. CASE ~(i <= l) /\ ~(j <= l)
    <3>1. i - l \in 1 .. k /\ l + (i - l) = i /\ j - l \in 1 .. k /\ l + (j - l) = j
      BY <1>1, <1>11, <2>3
    <3>2. s[i - l] = s[j - l]
      BY <1>7, <1>12, <3>1
    <3>3. i - l = j - l
      BY <1>14, <3>1, <3>2
    <3>4. QED BY <1>1, <3>1, <3>3
  <2>4. CASE i <= l /\ ~(j <= l)
    <3>1. i \in 1 .. l /\ j - l \in 1 .. k /\ l + (j - l) = j
      BY <1>1, <1>11, <2>4
    <3>2. QED BY <1>7, <1>12, <2>1, <3>1
  <2>5. CASE ~(i <= l) /\ j <= l
    <3>1. j \in 1 .. l
      BY <1>1, <1>11, <2>5
    <3>2. i - l \in 1 .. k /\ l + (i - l) = i
      BY <1>1, <1>11, <2>5
    <3>3. QED BY <1>7, <1>12, <2>1, <3>1, <3>2
  <2>6. QED BY <2>2, <2>3, <2>4, <2>5
<1>8. \A h \in Hashes : m2[h] = m[h] \/ (m2[h] = p /\ m[h] = None)
  BY <1>4, <1>14
<1>9. n[p] + k \in Int /\ n[p] + k = Len(w)
  BY <1>1, <1>11
<1>10. Lists([v EXCEPT ![p] = w], [n EXCEPT ![p] = n[p] + k], m2, live)
  BY <1>3, <1>6, <1>7, <1>8, <1>9, <1>15, ReplaceList
<1>13. QED BY <1>10, <1>15

(***************************************************************************)
(* The two kinds of lists.                                                 *)
(***************************************************************************)

\* What is in flight, without the times.
InFlight == [p \in Peers |-> [i \in 1 .. Len(vBlocksInFlight[p]) |-> vBlocksInFlight[p][i].hash]]

QueueLists == Lists(vBlocksToDownload, nBlocksToDownload, mapBlocksToDownload, mapNodeState)
FlightLists == Lists(InFlight, nBlocksInFlight, mapBlocksInFlight, mapNodeState)
Apart == \A h \in Hashes : mapBlocksToDownload[h] = None \/ mapBlocksInFlight[h] = None

DownloadInv == TypeOK /\ QueueLists /\ FlightLists /\ Apart /\ WindowKept /\ OldestFirst

\* The invariant by parts, as the actions change them.
Received == [age : 0 .. ReceiveLimit + 1, late : BOOLEAN]

ConnType ==
  /\ unborn \subseteq Peers /\ mapNodeState \subseteq Peers \ unborn
  /\ fDisconnect \subseteq mapNodeState /\ fShouldBan \subseteq mapNodeState
  /\ heard \subseteq Peers
  /\ received \in [Peers -> Received]

OldFirst(s) ==
  \A i, j \in 1 .. Len(s) :
    i < j => s[i].age >= s[j].age /\ (s[j].late => s[i].late)

FlightFine ==
  /\ vBlocksInFlight \in [Peers -> Seq(Requested)]
  /\ \A p \in Peers : /\ Len(vBlocksInFlight[p]) <= MAX_BLOCKS_IN_TRANSIT_PER_PEER
                      /\ OldFirst(vBlocksInFlight[p])

LEMMA InFlightType ==
  ASSUME NEW v, v \in [Peers -> Seq(Requested)], NEW p \in Peers
  PROVE  /\ v[p] \in Seq(Requested) /\ Len(v[p]) \in Nat /\ DOMAIN v[p] = 1 .. Len(v[p])
         /\ \A i \in 1 .. Len(v[p]) : v[p][i] \in Requested /\ v[p][i].hash \in Hashes
         /\ [i \in 1 .. Len(v[p]) |-> v[p][i].hash] \in Seq(Hashes)
         /\ Len([i \in 1 .. Len(v[p]) |-> v[p][i].hash]) = Len(v[p])
<1>1. v[p] \in Seq(Requested) /\ Len(v[p]) \in Nat /\ DOMAIN v[p] = 1 .. Len(v[p])
  BY LenProperties
<1>2. \A i \in 1 .. Len(v[p]) : v[p][i] \in Requested
  BY <1>1, ElementOfSeq
<1>3. \A i \in 1 .. Len(v[p]) : v[p][i].hash \in Hashes
  BY <1>2 DEF Requested
<1> DEFINE w == [i \in 1 .. Len(v[p]) |-> v[p][i].hash]
<1>4. w \in [1 .. Len(v[p]) -> Hashes]
  BY <1>3
<1>5. w \in Seq(Hashes)
  BY <1>1, <1>4, SeqDef
<1>6. Len(w) = Len(v[p])
  BY <1>1, <1>4, <1>5, LenProperties
<1>7. QED BY <1>1, <1>2, <1>3, <1>5, <1>6

\* The invariant of the model, list by list.
LEMMA ListsAgree ==
  ASSUME TypeOK, QueueLists, FlightLists, Apart
  PROVE  ListsMatchMaps
<1>1. ASSUME NEW p \in Peers
      PROVE  /\ DOMAIN vBlocksToDownload[p] = 1 .. Len(vBlocksToDownload[p])
             /\ DOMAIN vBlocksInFlight[p] = 1 .. Len(vBlocksInFlight[p])
             /\ Len(InFlight[p]) = Len(vBlocksInFlight[p])
             /\ \A i \in 1 .. Len(vBlocksInFlight[p]) :
                  InFlight[p][i] = vBlocksInFlight[p][i].hash
  <2>1. DOMAIN vBlocksToDownload[p] = 1 .. Len(vBlocksToDownload[p])
    BY LenProperties DEF TypeOK
  <2>2. vBlocksInFlight \in [Peers -> Seq(Requested)]
    BY DEF TypeOK
  <2>3. QED BY <2>1, <2>2, InFlightType DEF InFlight
<1>2. ASSUME NEW p \in Peers
      PROVE  /\ nBlocksToDownload[p] = Len(vBlocksToDownload[p])
             /\ nBlocksInFlight[p] = Len(vBlocksInFlight[p])
             /\ \A i \in DOMAIN vBlocksToDownload[p] :
                  mapBlocksToDownload[vBlocksToDownload[p][i]] = p
             /\ \A i \in DOMAIN vBlocksInFlight[p] :
                  mapBlocksInFlight[vBlocksInFlight[p][i].hash] = p
             /\ \A i, j \in DOMAIN vBlocksToDownload[p] :
                  vBlocksToDownload[p][i] = vBlocksToDownload[p][j] => i = j
             /\ \A i, j \in DOMAIN vBlocksInFlight[p] :
                  vBlocksInFlight[p][i].hash = vBlocksInFlight[p][j].hash => i = j
  <2>1. /\ nBlocksToDownload[p] = Len(vBlocksToDownload[p])
        /\ nBlocksInFlight[p] = Len(InFlight[p])
    BY DEF QueueLists, FlightLists, Lists
  <2>2. /\ \A i \in 1 .. Len(vBlocksToDownload[p]) :
             mapBlocksToDownload[vBlocksToDownload[p][i]] = p
        /\ \A i, j \in 1 .. Len(vBlocksToDownload[p]) :
             vBlocksToDownload[p][i] = vBlocksToDownload[p][j] => i = j
    BY DEF QueueLists, Lists
  <2>3. /\ \A i \in 1 .. Len(InFlight[p]) : mapBlocksInFlight[InFlight[p][i]] = p
        /\ \A i, j \in 1 .. Len(InFlight[p]) : InFlight[p][i] = InFlight[p][j] => i = j
    BY DEF FlightLists, Lists
  <2>4. /\ \A i \in DOMAIN vBlocksInFlight[p] :
             mapBlocksInFlight[vBlocksInFlight[p][i].hash] = p
        /\ \A i, j \in DOMAIN vBlocksInFlight[p] :
             vBlocksInFlight[p][i].hash = vBlocksInFlight[p][j].hash => i = j
    BY <1>1, <2>3
  <2>5. QED BY <1>1, <2>1, <2>2, <2>4
<1>3. ASSUME NEW h \in Hashes, mapBlocksToDownload[h] # None
      PROVE  /\ mapBlocksToDownload[h] \in mapNodeState
             /\ mapBlocksInFlight[h] = None
             /\ \E i \in DOMAIN vBlocksToDownload[mapBlocksToDownload[h]] :
                  vBlocksToDownload[mapBlocksToDownload[h]][i] = h
  <2>1. mapBlocksToDownload[h] \in Peers
    BY <1>3 DEF TypeOK
  <2>2. QED BY <1>1, <1>3, <2>1 DEF QueueLists, Lists, Apart
<1>4. ASSUME NEW h \in Hashes, mapBlocksInFlight[h] # None
      PROVE  /\ mapBlocksInFlight[h] \in mapNodeState
             /\ \E i \in DOMAIN vBlocksInFlight[mapBlocksInFlight[h]] :
                  vBlocksInFlight[mapBlocksInFlight[h]][i].hash = h
  <2>1. mapBlocksInFlight[h] \in Peers
    BY <1>4 DEF TypeOK
  <2>2. QED BY <1>1, <1>4, <2>1 DEF FlightLists, Lists
<1>5. QED BY <1>2, <1>3, <1>4 DEF ListsMatchMaps

LEMMA InvParts ==
  DownloadInv <=> ConnType /\ QueueLists /\ FlightLists /\ Apart /\ FlightFine
<1>1. ASSUME vBlocksInFlight \in [Peers -> Seq(Requested)]
      PROVE  WindowKept /\ OldestFirst <=>
               \A p \in Peers : /\ Len(vBlocksInFlight[p]) <= MAX_BLOCKS_IN_TRANSIT_PER_PEER
                               /\ OldFirst(vBlocksInFlight[p])
  <2>1. \A p \in Peers : DOMAIN vBlocksInFlight[p] = 1 .. Len(vBlocksInFlight[p])
    BY <1>1, InFlightType
  <2>2. QED BY <2>1 DEF WindowKept, OldestFirst, OldFirst
<1>2. TypeOK /\ QueueLists /\ FlightLists
        <=> ConnType /\ vBlocksInFlight \in [Peers -> Seq(Requested)] /\ QueueLists /\ FlightLists
  BY DEF TypeOK, ConnType, Received, QueueLists, FlightLists, Lists, Typed
<1>3. QED BY <1>1, <1>2 DEF DownloadInv, FlightFine

LEMMA InvPartsNext ==
  DownloadInv' <=> ConnType' /\ QueueLists' /\ FlightLists' /\ Apart' /\ FlightFine'
BY InvParts, PTL

LEMMA MoreLive ==
  ASSUME NEW v, NEW n, NEW m, NEW live, Lists(v, n, m, live), NEW live2, live \subseteq live2
  PROVE  Lists(v, n, m, live2)
BY DEF Lists

\* What only changes times changes none of the hashes.
LEMMA SameHashes ==
  ASSUME \A p \in Peers : /\ Len(vBlocksInFlight'[p]) = Len(vBlocksInFlight[p])
                          /\ \A i \in 1 .. Len(vBlocksInFlight[p]) :
                               vBlocksInFlight'[p][i].hash = vBlocksInFlight[p][i].hash
  PROVE  InFlight' = InFlight
BY DEF InFlight

LEMMA NoteReceived ==
  ASSUME NEW r \in Received
  PROVE  NoteTime(r, ReceiveLimit) \in Received
<1>1. r.age \in 0 .. ReceiveLimit + 1
  BY DEF Received
<1>2. (r.age > ReceiveLimit) \in BOOLEAN
  OBVIOUS
<1>3. NoteTime(r, ReceiveLimit) = [age |-> r.age, late |-> (r.age > ReceiveLimit)]
  BY DEF NoteTime, Received
<1> QED BY <1>1, <1>2, <1>3 DEF Received

LEMMA NoteRequest ==
  ASSUME NEW r \in Requested
  PROVE  LET w == NoteTime(r, RequestLimit)
         IN w \in Requested /\ w.hash = r.hash /\ w.age = r.age /\ (w.late <=> r.age > RequestLimit)
<1>1. r.hash \in Hashes /\ r.age \in 0 .. RequestLimit + 1
  BY DEF Requested
<1>2. (r.age > RequestLimit) \in BOOLEAN
  OBVIOUS
<1>3. NoteTime(r, RequestLimit) = [hash |-> r.hash, age |-> r.age, late |-> (r.age > RequestLimit)]
  BY DEF NoteTime, Requested
<1>4. NoteTime(r, RequestLimit) \in Requested
  BY <1>1, <1>2, <1>3 DEF Requested
<1>5. /\ NoteTime(r, RequestLimit).hash = r.hash
      /\ NoteTime(r, RequestLimit).age = r.age
      /\ NoteTime(r, RequestLimit).late = (r.age > RequestLimit)
  BY <1>3
<1>6. QED BY <1>4, <1>5, Zenon

LEMMA NotedFacts ==
  ASSUME FlightFine, NEW p \in Peers
  PROVE  LET s == vBlocksInFlight[p]  w == InFlightNoted(p)
         IN /\ w \in Seq(Requested) /\ Len(w) = Len(s) /\ OldFirst(w)
            /\ \A i \in 1 .. Len(s) : w[i].hash = s[i].hash
<1> DEFINE s == vBlocksInFlight[p]
           w == InFlightNoted(p)
<1>1. /\ s \in Seq(Requested) /\ Len(s) \in Nat /\ DOMAIN s = 1 .. Len(s)
      /\ \A i \in 1 .. Len(s) : s[i] \in Requested
  BY InFlightType DEF FlightFine
<1>2. OldFirst(s)
  BY DEF FlightFine
<1>3. w = [i \in 1 .. Len(s) |-> NoteTime(s[i], RequestLimit)]
  BY <1>1 DEF InFlightNoted
<1> HIDE DEF s, w
<1>4. \A i \in 1 .. Len(s) :
        /\ w[i] \in Requested /\ w[i].hash = s[i].hash
        /\ w[i].age = s[i].age /\ (w[i].late <=> s[i].age > RequestLimit)
  BY <1>1, <1>3, NoteRequest
<1>5. w \in [1 .. Len(s) -> Requested]
  BY <1>3, <1>4
<1>6. w \in Seq(Requested)
  BY <1>1, <1>5, SeqDef
<1>7. Len(w) = Len(s)
  BY <1>1, <1>5, <1>6, LenProperties
<1>8. \A i \in 1 .. Len(s) : s[i].age \in Nat
  BY <1>1 DEF Requested, RequestLimit
<1>9. OldFirst(w)
  <2> SUFFICES ASSUME NEW i \in 1 .. Len(s), NEW j \in 1 .. Len(s), i < j
               PROVE  w[i].age >= w[j].age /\ (w[j].late => w[i].late)
    BY <1>7 DEF OldFirst
  <2>1. s[i].age >= s[j].age
    BY <1>2 DEF OldFirst
  <2>2. s[j].age > RequestLimit => s[i].age > RequestLimit
    BY <1>8, <2>1 DEF RequestLimit
  <2>3. QED BY <1>4, <2>1, <2>2
<1>10. QED BY <1>4, <1>6, <1>7, <1>9 DEF s, w

\* A message of p that neither adds nor takes a request.
LEMMA NotedStep ==
  ASSUME FlightFine, FlightLists, NEW p \in Peers,
         vBlocksInFlight' = [vBlocksInFlight EXCEPT ![p] = InFlightNoted(p)]
  PROVE  FlightFine' /\ InFlight' = InFlight
<1>1. /\ InFlightNoted(p) \in Seq(Requested)
      /\ Len(InFlightNoted(p)) = Len(vBlocksInFlight[p]) /\ OldFirst(InFlightNoted(p))
      /\ \A i \in 1 .. Len(vBlocksInFlight[p]) :
           InFlightNoted(p)[i].hash = vBlocksInFlight[p][i].hash
  BY NotedFacts
<1>2. /\ vBlocksInFlight'[p] = InFlightNoted(p)
      /\ \A q \in Peers \ {p} : vBlocksInFlight'[q] = vBlocksInFlight[q]
      /\ vBlocksInFlight' \in [Peers -> Seq(Requested)]
  BY <1>1 DEF FlightFine
<1>3. FlightFine'
  BY <1>1, <1>2 DEF FlightFine
<1>4. InFlight' = InFlight
  BY <1>1, <1>2, SameHashes
<1>5. QED BY <1>3, <1>4

(***************************************************************************)
(* The steps.                                                              *)
(***************************************************************************)

LEMMA DequeueStep ==
  ASSUME QueueLists, NEW h \in Hashes, Dequeue(h)
  PROVE  /\ Lists(vBlocksToDownload', nBlocksToDownload', mapBlocksToDownload', mapNodeState)
         /\ \A g \in Hashes : mapBlocksToDownload'[g] \in {mapBlocksToDownload[g], None}
<1> DEFINE q == mapBlocksToDownload[h]
           s == vBlocksToDownload[q]
           i == CHOOSE n \in DOMAIN s : s[n] = h
<1>1. CASE q = None
  BY <1>1 DEF Dequeue, queueVars, QueueLists
<1>2. CASE q # None
  <2>1. q \in Peers /\ \E n \in 1 .. Len(s) : s[n] = h
    BY <1>2 DEF QueueLists, Lists, Typed
  <2>2. DOMAIN s = 1 .. Len(s)
    BY <2>1, LenProperties DEF QueueLists, Lists, Typed
  <2>3. i \in 1 .. Len(s) /\ s[i] = h
    BY <2>1, <2>2
  <2>4. /\ vBlocksToDownload' = [vBlocksToDownload EXCEPT ![q] = ErasedAt(s, i)]
        /\ nBlocksToDownload' = [nBlocksToDownload EXCEPT ![q] = @ - 1]
        /\ mapBlocksToDownload' = [mapBlocksToDownload EXCEPT ![h] = None]
    BY <1>2 DEF Dequeue
  <2> HIDE DEF i
  <2>5. Lists(vBlocksToDownload', nBlocksToDownload', mapBlocksToDownload', mapNodeState)
    BY <2>1, <2>3, <2>4, EraseOne DEF QueueLists
  <2>6. QED BY <2>4, <2>5 DEF QueueLists, Lists, Typed
<1>3. QED BY <1>1, <1>2

\* The hashes of a list with one request erased.
LEMMA ErasedHashes ==
  ASSUME NEW s \in Seq(Requested), NEW i \in 1 .. Len(s), OldFirst(s)
  PROVE  /\ ErasedAt(s, i) \in Seq(Requested) /\ Len(ErasedAt(s, i)) = Len(s) - 1
         /\ OldFirst(ErasedAt(s, i))
         /\ [j \in 1 .. Len(ErasedAt(s, i)) |-> ErasedAt(s, i)[j].hash]
              = ErasedAt([j \in 1 .. Len(s) |-> s[j].hash], i)
<1> DEFINE w == ErasedAt(s, i)
           t == [j \in 1 .. Len(s) |-> s[j].hash]
<1>1. /\ w \in Seq(Requested) /\ Len(w) = Len(s) - 1
      /\ \A j \in 1 .. Len(s) - 1 : w[j] = IF j < i THEN s[j] ELSE s[j + 1]
  BY ErasedFacts
<1>2. Len(s) \in Nat
  BY LenProperties
<1>3. \A j \in 1 .. Len(s) : s[j] \in Requested /\ s[j].hash \in Hashes
  <2>1. \A j \in 1 .. Len(s) : s[j] \in Requested
    BY ElementOfSeq
  <2>2. QED BY <2>1 DEF Requested
<1>4. t \in [1 .. Len(s) -> Hashes]
  BY <1>3
<1>5. t \in Seq(Hashes) /\ Len(t) = Len(s)
  <2>1. t \in Seq(Hashes)
    BY <1>2, <1>4, SeqDef
  <2>2. QED BY <1>2, <1>4, <2>1, LenProperties
<1>6. \A j \in 1 .. Len(s) : t[j] = s[j].hash
  OBVIOUS
<1>7. \A j \in 1 .. Len(s) - 1 : j \in 1 .. Len(s) /\ j + 1 \in 1 .. Len(s)
  BY <1>2
<1> HIDE DEF w, t
<1>8. ErasedAt(t, i) = [j \in 1 .. Len(s) - 1 |-> IF j < i THEN t[j] ELSE t[j + 1]]
  BY <1>5 DEF ErasedAt
<1>9. [j \in 1 .. Len(w) |-> w[j].hash] = ErasedAt(t, i)
  <2>1. \A j \in 1 .. Len(s) - 1 : w[j].hash = IF j < i THEN t[j] ELSE t[j + 1]
    BY <1>1, <1>6, <1>7
  <2>2. QED BY <1>1, <1>8, <2>1
<1>10. OldFirst(w)
  <2> SUFFICES ASSUME NEW a \in 1 .. Len(s) - 1, NEW b \in 1 .. Len(s) - 1, a < b
               PROVE  w[a].age >= w[b].age /\ (w[b].late => w[a].late)
    BY <1>1 DEF OldFirst
  <2>1. PICK x \in 1 .. Len(s), y \in 1 .. Len(s) : w[a] = s[x] /\ w[b] = s[y] /\ x < y
    <3>1. CASE a < i /\ b < i
      BY <1>1, <1>7, <3>1
    <3>2. CASE a < i /\ ~(b < i)
      <4>1. w[a] = s[a] /\ w[b] = s[b + 1] /\ a < b + 1
        BY <1>1, <1>2, <3>2
      <4>2. QED BY <1>7, <4>1
    <3>3. CASE ~(a < i)
      <4>1. w[a] = s[a + 1] /\ w[b] = s[b + 1] /\ a + 1 < b + 1
        BY <1>1, <1>2, <3>3
      <4>2. QED BY <1>7, <4>1
    <3>4. QED BY <3>1, <3>2, <3>3
  <2>2. QED BY <2>1 DEF OldFirst
<1>11. QED BY <1>1, <1>9, <1>10 DEF w, t

LEMMA LandStep ==
  ASSUME FlightFine, FlightLists, ConnType, NEW p \in Peers, NEW h \in Hashes, Land(p, h)
  PROVE  /\ Lists(InFlight', nBlocksInFlight', mapBlocksInFlight', mapNodeState)
         /\ FlightFine' /\ received' \in [Peers -> Received]
         /\ \A g \in Hashes : mapBlocksInFlight'[g] \in {mapBlocksInFlight[g], None}
<1> DEFINE q == mapBlocksInFlight[h]
           noted == [vBlocksInFlight EXCEPT ![p] = InFlightNoted(p)]
           i == CHOOSE n \in DOMAIN noted[q] : noted[q][n].hash = h
<1>1. NoteTime(received[p], ReceiveLimit) \in Received /\ Now \in Received
  BY NoteReceived DEF ConnType, Now, Received, ReceiveLimit
<1>2. received' \in [Peers -> Received]
  BY <1>1 DEF Land, ConnType
<1>3. CASE q = None
  <2>1. vBlocksInFlight' = noted /\ UNCHANGED <<nBlocksInFlight, mapBlocksInFlight>>
    BY <1>3 DEF Land
  <2>2. FlightFine' /\ InFlight' = InFlight
    BY <2>1, NotedStep
  <2>3. QED BY <1>2, <2>1, <2>2 DEF FlightLists
<1>4. CASE q # None
  <2>1. q \in Peers /\ \E n \in 1 .. Len(InFlight[q]) : InFlight[q][n] = h
    BY <1>4 DEF FlightLists, Lists, Typed
  <2>2. /\ noted \in [Peers -> Seq(Requested)]
        /\ \A r \in Peers :
             /\ Len(noted[r]) = Len(vBlocksInFlight[r]) /\ OldFirst(noted[r])
             /\ \A n \in 1 .. Len(vBlocksInFlight[r]) :
                  noted[r][n].hash = vBlocksInFlight[r][n].hash
    BY NotedFacts DEF FlightFine
  <2> HIDE DEF noted
  <2>3. \A r \in Peers : InFlight[r] = [n \in 1 .. Len(noted[r]) |-> noted[r][n].hash]
    BY <2>2 DEF InFlight
  <2>4. DOMAIN noted[q] = 1 .. Len(noted[q]) /\ noted[q] \in Seq(Requested)
        /\ Len(InFlight[q]) = Len(noted[q])
    <3>1. /\ noted[q] \in Seq(Requested) /\ DOMAIN noted[q] = 1 .. Len(noted[q])
          /\ Len([n \in 1 .. Len(noted[q]) |-> noted[q][n].hash]) = Len(noted[q])
      BY <2>1, <2>2, InFlightType
    <3>2. InFlight[q] = [n \in 1 .. Len(noted[q]) |-> noted[q][n].hash]
      BY <2>1, <2>3
    <3>3. QED BY <3>1, <3>2, Zenon
  <2>5. i \in 1 .. Len(InFlight[q]) /\ InFlight[q][i] = h
    <3>4. \A n \in 1 .. Len(noted[q]) : InFlight[q][n] = noted[q][n].hash
      BY <2>1, <2>3
    <3>1. \E n \in DOMAIN noted[q] : noted[q][n].hash = h
      BY <2>1, <2>4, <3>4
    <3>2. i \in DOMAIN noted[q] /\ noted[q][i].hash = h
      BY <3>1
    <3>3. QED BY <2>1, <2>3, <2>4, <3>2
  <2>6. /\ vBlocksInFlight' = [noted EXCEPT ![q] = ErasedAt(noted[q], i)]
        /\ nBlocksInFlight' = [nBlocksInFlight EXCEPT ![q] = @ - 1]
        /\ mapBlocksInFlight' = [mapBlocksInFlight EXCEPT ![h] = None]
    BY <1>4 DEF Land, noted
  <2> HIDE DEF i
  <2>7. /\ ErasedAt(noted[q], i) \in Seq(Requested)
        /\ Len(ErasedAt(noted[q], i)) = Len(noted[q]) - 1
        /\ OldFirst(ErasedAt(noted[q], i))
        /\ [j \in 1 .. Len(ErasedAt(noted[q], i)) |-> ErasedAt(noted[q], i)[j].hash]
             = ErasedAt([j \in 1 .. Len(noted[q]) |-> noted[q][j].hash], i)
    BY <2>1, <2>2, <2>4, <2>5, ErasedHashes
  <2>8. /\ vBlocksInFlight'[q] = ErasedAt(noted[q], i)
        /\ \A r \in Peers \ {q} : vBlocksInFlight'[r] = noted[r]
        /\ vBlocksInFlight' \in [Peers -> Seq(Requested)]
    BY <2>1, <2>2, <2>6, <2>7
  <2>9. InFlight' = [InFlight EXCEPT ![q] = ErasedAt(InFlight[q], i)]
    <3>1. InFlight'[q] = ErasedAt(InFlight[q], i)
      BY <2>1, <2>3, <2>7, <2>8 DEF InFlight
    <3>2. \A r \in Peers \ {q} : InFlight'[r] = InFlight[r]
      BY <2>2, <2>8 DEF InFlight
    <3>3. QED BY <3>1, <3>2 DEF InFlight
  <2>10. Lists(InFlight', nBlocksInFlight', mapBlocksInFlight', mapNodeState)
    BY <2>1, <2>5, <2>6, <2>9, EraseOne DEF FlightLists
  <2>11. FlightFine'
    <3>1. \A r \in Peers : Len(noted[r]) <= MAX_BLOCKS_IN_TRANSIT_PER_PEER
      BY <2>2 DEF FlightFine
    <3>2. Len(noted[q]) \in Nat /\ MAX_BLOCKS_IN_TRANSIT_PER_PEER \in Nat
      BY <2>4, LenProperties, BlockDownloadAssumption
    <3>3. Len(noted[q]) - 1 <= MAX_BLOCKS_IN_TRANSIT_PER_PEER
      BY <2>1, <3>1, <3>2
    <3>4. QED BY <2>2, <2>7, <2>8, <3>1, <3>3 DEF FlightFine
  <2>12. \A g \in Hashes : mapBlocksInFlight'[g] \in {mapBlocksInFlight[g], None}
    BY <2>6 DEF FlightLists, Lists, Typed
  <2>13. QED BY <1>2, <2>10, <2>11, <2>12
<1>5. QED BY <1>3, <1>4

LEMMA RequestStep ==
  ASSUME DownloadInv, NEW p \in mapNodeState, RequestBlocks(p, Requests(p))
  PROVE  /\ Lists(vBlocksToDownload', nBlocksToDownload', mapBlocksToDownload', mapNodeState)
         /\ Lists(InFlight', nBlocksInFlight', mapBlocksInFlight', mapNodeState)
         /\ Apart' /\ FlightFine' /\ received' \in [Peers -> Received]
<1> DEFINE s == vBlocksToDownload[p]
           f == vBlocksInFlight[p]
           k == Requests(p)
           moved == {s[i] : i \in 1 .. k}
           new == [i \in 1 .. k |-> [hash |-> s[i], age |-> 0, late |-> FALSE]]
           w == f \o new
           max == MAX_BLOCKS_IN_TRANSIT_PER_PEER
<1>1. /\ ConnType /\ QueueLists /\ FlightLists /\ Apart /\ FlightFine
      /\ p \in Peers /\ max \in Nat /\ None \notin Peers
  BY InvParts, BlockDownloadAssumption DEF DownloadInv, TypeOK
<1>2. /\ s \in Seq(Hashes) /\ nBlocksToDownload[p] = Len(s) /\ Len(s) \in Nat
      /\ \A h \in Hashes : mapBlocksToDownload[h] = p <=> Holds(s, h)
  BY <1>1, MapFollows DEF QueueLists
<1>3. /\ f \in Seq(Requested) /\ Len(f) \in Nat /\ Len(f) <= max /\ OldFirst(f)
      /\ \A i \in 1 .. Len(f) : f[i] \in Requested
      /\ InFlight[p] \in Seq(Hashes) /\ Len(InFlight[p]) = Len(f)
      /\ \A i \in 1 .. Len(f) : InFlight[p][i] = f[i].hash
  <2>1. /\ f \in Seq(Requested) /\ Len(f) \in Nat
        /\ \A i \in 1 .. Len(f) : f[i] \in Requested
        /\ [i \in 1 .. Len(f) |-> f[i].hash] \in Seq(Hashes)
        /\ Len([i \in 1 .. Len(f) |-> f[i].hash]) = Len(f)
    BY <1>1, InFlightType DEF FlightFine
  <2>2. InFlight[p] = [i \in 1 .. Len(f) |-> f[i].hash]
    BY <1>1 DEF InFlight
  <2>3. InFlight[p] \in Seq(Hashes) /\ Len(InFlight[p]) = Len(f)
    BY <2>1, <2>2, Zenon
  <2>4. Len(f) <= max /\ OldFirst(f)
    BY <1>1 DEF FlightFine
  <2>5. QED BY <2>1, <2>2, <2>3, <2>4
<1>4. nBlocksInFlight[p] = Len(f)
  BY <1>1, <1>3, MapFollows DEF FlightLists
<1>5. k \in 0 .. Len(s) /\ Len(f) + k <= max
  <2>1. k = IF Len(s) <= max - Len(f) THEN Len(s) ELSE max - Len(f)
    BY <1>2, <1>4 DEF Requests
  <2> HIDE DEF k, s, f
  <2>2. QED BY <1>1, <1>2, <1>3, <2>1
<1>6. /\ vBlocksToDownload' = [vBlocksToDownload EXCEPT ![p] = SubSeq(s, k + 1, Len(s))]
      /\ nBlocksToDownload' = [nBlocksToDownload EXCEPT ![p] = @ - k]
      /\ mapBlocksToDownload' =
           [h \in Hashes |-> IF h \in moved THEN None ELSE mapBlocksToDownload[h]]
      /\ vBlocksInFlight' = [vBlocksInFlight EXCEPT ![p] = w]
      /\ nBlocksInFlight' = [nBlocksInFlight EXCEPT ![p] = @ + k]
      /\ mapBlocksInFlight' =
           [h \in Hashes |-> IF h \in moved THEN p ELSE mapBlocksInFlight[h]]
      /\ received' \in {received, [received EXCEPT ![p] = Now]}
  BY DEF RequestBlocks
<1>7. received' \in [Peers -> Received]
  <2>1. Now \in Received
    BY DEF Received, Now, ReceiveLimit
  <2>2. QED BY <1>1, <1>6, <2>1 DEF ConnType
<1>8. moved \subseteq Hashes /\ \A h \in moved : mapBlocksToDownload[h] = p
  <2>1. ASSUME NEW i \in 1 .. k PROVE s[i] \in Hashes /\ mapBlocksToDownload[s[i]] = p
    <3>1. i \in 1 .. Len(s)
      BY <1>2, <1>5
    <3>2. s[i] \in Hashes
      BY <1>2, <3>1, ElementOfSeq
    <3>3. QED BY <1>2, <3>1, <3>2 DEF Holds
  <2>2. QED BY <2>1
<1>9. \A i \in 1 .. k : /\ new[i].hash = s[i] /\ new[i].age = 0 /\ ~new[i].late
                        /\ new[i] \in Requested
  <2> SUFFICES ASSUME NEW i \in 1 .. k
               PROVE  /\ new[i].hash = s[i] /\ new[i].age = 0 /\ ~new[i].late
                      /\ new[i] \in Requested
    OBVIOUS
  <2>1. s[i] \in Hashes /\ new[i] = [hash |-> s[i], age |-> 0, late |-> FALSE]
    BY <1>8
  <2>2. new[i] \in Requested
    BY <2>1 DEF Requested, RequestLimit
  <2>3. QED BY <2>1, <2>2
<1>10. new \in Seq(Requested) /\ Len(new) = k
  <2>1. k \in Nat
    BY <1>2, <1>5
  <2>2. new \in [1 .. k -> Requested]
    BY <1>9
  <2>3. new \in Seq(Requested)
    BY <2>1, <2>2, SeqDef
  <2>4. QED BY <2>1, <2>2, <2>3, LenProperties
<1> HIDE DEF k, s, f, new, w, moved
<1>11. /\ w \in Seq(Requested) /\ Len(w) = Len(f) + k
       /\ \A i \in 1 .. Len(f) + k : w[i] = IF i <= Len(f) THEN f[i] ELSE new[i - Len(f)]
  BY <1>3, <1>10, ConcatProperties DEF w
<1>12. Lists(vBlocksToDownload', nBlocksToDownload', mapBlocksToDownload', mapNodeState)
  <2>1. Lists([vBlocksToDownload EXCEPT ![p] =
                 SubSeq(vBlocksToDownload[p], k + 1, Len(vBlocksToDownload[p]))],
              [nBlocksToDownload EXCEPT ![p] = @ - k],
              [h \in Hashes |-> IF h \in {vBlocksToDownload[p][i] : i \in 1 .. k}
                              THEN None ELSE mapBlocksToDownload[h]], mapNodeState)
    <3>1. k \in 0 .. Len(vBlocksToDownload[p])
      BY <1>5 DEF s
    <3>2. QED BY <1>1, <3>1, DropFront DEF QueueLists
  <2>2. QED BY <1>6, <2>1 DEF s, moved
<1>13. FlightFine'
  <2>1. ASSUME NEW i \in 1 .. Len(w), NEW j \in 1 .. Len(w), i < j
        PROVE  w[i].age >= w[j].age /\ (w[j].late => w[i].late)
    <3>1. CASE j <= Len(f)
      <4>1. i \in 1 .. Len(f) /\ j \in 1 .. Len(f) /\ w[i] = f[i] /\ w[j] = f[j]
        BY <1>3, <1>5, <1>11, <2>1, <3>1
      <4>2. QED BY <1>3, <2>1, <4>1 DEF OldFirst
    <3>2. CASE ~(j <= Len(f))
      <4>1. j - Len(f) \in 1 .. k /\ w[j] = new[j - Len(f)]
        BY <1>3, <1>5, <1>11, <2>1, <3>2
      <4>2. w[j].age = 0 /\ ~w[j].late
        BY <1>9, <4>1
      <4>3. w[i].age \in Nat
        <5>1. w[i] \in Requested
          BY <1>11, ElementOfSeq
        <5>2. QED BY <5>1 DEF Requested, RequestLimit
      <4>4. QED BY <4>2, <4>3
    <3>3. QED BY <3>1, <3>2
  <2>2. OldFirst(w)
    BY <2>1 DEF OldFirst
  <2>3. /\ vBlocksInFlight'[p] = w /\ \A q \in Peers \ {p} : vBlocksInFlight'[q] = vBlocksInFlight[q]
        /\ vBlocksInFlight' \in [Peers -> Seq(Requested)]
    BY <1>1, <1>6, <1>11 DEF FlightFine
  <2>4. QED BY <1>1, <1>5, <1>11, <2>2, <2>3 DEF FlightFine
<1>14. Lists(InFlight', nBlocksInFlight', mapBlocksInFlight', mapNodeState)
  <2> DEFINE hs == [i \in 1 .. Len(w) |-> w[i].hash]
  <2>1. Len(w) \in Nat /\ hs \in Seq(Hashes) /\ Len(hs) = Len(w)
    <3>1. Len(w) \in Nat
      BY <1>11, LenProperties
    <3>2. \A i \in 1 .. Len(w) : w[i] \in Requested
      BY <1>11, ElementOfSeq
    <3>3. hs \in [1 .. Len(w) -> Hashes]
      BY <3>2 DEF Requested
    <3>4. hs \in Seq(Hashes)
      BY <3>1, <3>3, SeqDef
    <3>5. QED BY <3>1, <3>3, <3>4, LenProperties
  <2>2. Continues(hs, InFlight[p], s, k)
    <3> SUFFICES ASSUME NEW i \in 1 .. Len(w)
                 PROVE  w[i].hash = IF i <= Len(f) THEN InFlight[p][i] ELSE s[i - Len(f)]
      BY <1>3, <1>11, <2>1 DEF Continues
    <3>1. CASE i <= Len(f)
      <4>1. i \in 1 .. Len(f) /\ w[i] = f[i]
        BY <1>3, <1>5, <1>11, <3>1
      <4>2. QED BY <1>3, <3>1, <4>1
    <3>2. CASE ~(i <= Len(f))
      <4>1. i - Len(f) \in 1 .. k /\ w[i] = new[i - Len(f)]
        BY <1>3, <1>5, <1>11, <3>2
      <4>2. QED BY <1>9, <3>2, <4>1
    <3>3. QED BY <3>1, <3>2
  <2>3. InFlight' = [InFlight EXCEPT ![p] = hs]
    <3>1. vBlocksInFlight'[p] = w /\ \A q \in Peers \ {p} : vBlocksInFlight'[q] = vBlocksInFlight[q]
      BY <1>1, <1>6 DEF FlightFine
    <3>2. InFlight'[p] = hs /\ \A q \in Peers \ {p} : InFlight'[q] = InFlight[q]
      BY <1>1, <3>1 DEF InFlight
    <3>3. QED BY <3>2 DEF InFlight
  <2> HIDE DEF hs
  <2>4. Fresh(mapBlocksInFlight, s, k)
    <3>1. \A i, j \in 1 .. Len(s) : s[i] = s[j] => i = j
      BY <1>1 DEF QueueLists, Lists, s
    <3>2. \A i \in 1 .. k : i \in 1 .. Len(s)
      BY <1>2, <1>5
    <3>3. \A i \in 1 .. k : mapBlocksInFlight[s[i]] = None
      BY <1>1, <1>8 DEF Apart, moved
    <3>4. QED BY <3>1, <3>2, <3>3 DEF Fresh
  <2>9. /\ Lists(InFlight, nBlocksInFlight, mapBlocksInFlight, mapNodeState)
        /\ p \in Peers /\ p \in mapNodeState /\ s \in Seq(Hashes) /\ k \in 0 .. Len(s)
        /\ hs \in Seq(Hashes)
    BY <1>1, <1>2, <1>5, <2>1 DEF FlightLists
  <2>7. /\ nBlocksInFlight' = [nBlocksInFlight EXCEPT ![p] = @ + k]
        /\ mapBlocksInFlight' =
             [h \in Hashes |-> IF h \in {s[i] : i \in 1 .. k} THEN p ELSE mapBlocksInFlight[h]]
    BY <1>6 DEF moved
  <2>8. AddedTo(p, s, k, hs, InFlight, nBlocksInFlight, mapBlocksInFlight,
                InFlight', nBlocksInFlight', mapBlocksInFlight')
    BY <2>2, <2>3, <2>4, <2>7, <2>9 DEF AddedTo
  <2>10. QED BY <2>8, <2>9, AppendMany
<1>15. Apart'
  BY <1>1, <1>6 DEF Apart
<1>16. QED BY <1>7, <1>12, <1>13, <1>14, <1>15

LEMMA TickStep ==
  ASSUME DownloadInv, Tick
  PROVE  DownloadInv'
<1>1. ConnType /\ QueueLists /\ FlightLists /\ Apart /\ FlightFine
  BY InvParts
<1>2. /\ UNCHANGED <<connVars, queueVars, nBlocksInFlight, mapBlocksInFlight>> /\ heard' = {}
      /\ received' = [p \in Peers |-> IF nBlocksInFlight[p] = 0 THEN received[p]
                                     ELSE [received[p] EXCEPT !.age = Older(@, ReceiveLimit)]]
      /\ vBlocksInFlight' = [p \in Peers |-> [i \in DOMAIN vBlocksInFlight[p] |->
           [vBlocksInFlight[p][i] EXCEPT !.age = Older(@, RequestLimit)]]]
  BY DEF Tick
<1>3. ASSUME NEW r \in Received PROVE [r EXCEPT !.age = Older(@, ReceiveLimit)] \in Received
  <2>1. r.age \in 0 .. 2 /\ r.late \in BOOLEAN
    BY DEF Received, ReceiveLimit
  <2>2. Older(r.age, ReceiveLimit) \in 0 .. 2
    BY <2>1 DEF Older, ReceiveLimit
  <2>3. [r EXCEPT !.age = Older(@, ReceiveLimit)]
          = [age |-> Older(r.age, ReceiveLimit), late |-> r.late]
    BY DEF Received
  <2>4. QED BY <2>1, <2>2, <2>3 DEF Received, ReceiveLimit
<1>4. ConnType'
  <2>1. received' \in [Peers -> Received]
    BY <1>1, <1>2, <1>3 DEF ConnType
  <2>2. QED BY <1>1, <1>2, <2>1 DEF ConnType, connVars
<1>5. ASSUME NEW r \in Requested
      PROVE  LET w == [r EXCEPT !.age = Older(@, RequestLimit)]
             IN w \in Requested /\ w.hash = r.hash /\ w.age = Older(r.age, RequestLimit)
                /\ w.late = r.late
  <2> DEFINE w == [r EXCEPT !.age = Older(@, RequestLimit)]
  <2>1. r.hash \in Hashes /\ r.age \in 0 .. 3 /\ r.late \in BOOLEAN
    BY DEF Requested, RequestLimit
  <2>2. Older(r.age, RequestLimit) \in 0 .. 3
    BY <2>1 DEF Older, RequestLimit
  <2>3. w = [hash |-> r.hash, age |-> Older(r.age, RequestLimit), late |-> r.late]
    BY DEF Requested
  <2> HIDE DEF w
  <2>4. w \in Requested
    BY <2>1, <2>2, <2>3 DEF Requested, RequestLimit
  <2>5. w.hash = r.hash /\ w.age = Older(r.age, RequestLimit) /\ w.late = r.late
    BY <2>3
  <2>6. QED BY <2>4, <2>5, Zenon DEF w
<1>6. ASSUME NEW p \in Peers
      PROVE  /\ vBlocksInFlight'[p] \in Seq(Requested)
             /\ Len(vBlocksInFlight'[p]) = Len(vBlocksInFlight[p])
             /\ \A i \in 1 .. Len(vBlocksInFlight[p]) :
                  vBlocksInFlight'[p][i].hash = vBlocksInFlight[p][i].hash
             /\ OldFirst(vBlocksInFlight'[p])
  <2> DEFINE s == vBlocksInFlight[p]
             w == vBlocksInFlight'[p]
  <2>1. /\ s \in Seq(Requested) /\ Len(s) \in Nat /\ DOMAIN s = 1 .. Len(s)
        /\ \A i \in 1 .. Len(s) : s[i] \in Requested
    BY <1>1, InFlightType DEF FlightFine
  <2>2. OldFirst(s)
    BY <1>1 DEF FlightFine
  <2>3. w = [i \in 1 .. Len(s) |-> [s[i] EXCEPT !.age = Older(@, RequestLimit)]]
    BY <1>2, <2>1
  <2> HIDE DEF s, w
  <2>4. \A i \in 1 .. Len(s) :
          /\ w[i] \in Requested /\ w[i].hash = s[i].hash
          /\ w[i].age = Older(s[i].age, RequestLimit) /\ w[i].late = s[i].late
    BY <1>5, <2>1, <2>3
  <2>5. w \in [1 .. Len(s) -> Requested]
    BY <2>3, <2>4
  <2>6. w \in Seq(Requested)
    BY <2>1, <2>5, SeqDef
  <2>7. Len(w) = Len(s)
    BY <2>1, <2>5, <2>6, LenProperties
  <2>8. OldFirst(w)
    <3> SUFFICES ASSUME NEW i \in 1 .. Len(s), NEW j \in 1 .. Len(s), i < j
                 PROVE  w[i].age >= w[j].age /\ (w[j].late => w[i].late)
      BY <2>7 DEF OldFirst
    <3>1. s[i].age >= s[j].age /\ (s[j].late => s[i].late)
      BY <2>2 DEF OldFirst
    <3>2. s[i].age \in 0 .. 3 /\ s[j].age \in 0 .. 3
      BY <2>1 DEF Requested, RequestLimit
    <3>3. Older(s[i].age, RequestLimit) >= Older(s[j].age, RequestLimit)
      BY <3>1, <3>2 DEF Older, RequestLimit
    <3>4. QED BY <2>4, <3>1, <3>3
  <2>9. QED BY <2>4, <2>6, <2>7, <2>8 DEF s, w
<1>7. FlightFine'
  <2>1. vBlocksInFlight' \in [Peers -> Seq(Requested)]
    BY <1>2, <1>6
  <2>2. QED BY <1>1, <1>6, <2>1 DEF FlightFine
<1>8. InFlight' = InFlight
  BY <1>6, SameHashes
<1>9. QueueLists' /\ FlightLists' /\ Apart'
  BY <1>1, <1>2, <1>8 DEF QueueLists, FlightLists, Apart, connVars, queueVars
<1>10. QED BY <1>4, <1>7, <1>9, InvPartsNext

LEMMA FinalizeStep ==
  ASSUME DownloadInv, NEW p \in Peers, FinalizeNode(p)
  PROVE  DownloadInv'
<1>1. ConnType /\ QueueLists /\ FlightLists /\ Apart /\ FlightFine
  BY InvParts
<1>2. /\ mapNodeState' = mapNodeState \ {p}
      /\ fDisconnect' = fDisconnect \ {p} /\ fShouldBan' = fShouldBan \ {p}
      /\ vBlocksToDownload' = [vBlocksToDownload EXCEPT ![p] = <<>>]
      /\ vBlocksInFlight' = [vBlocksInFlight EXCEPT ![p] = <<>>]
      /\ nBlocksToDownload' = [nBlocksToDownload EXCEPT ![p] = 0]
      /\ nBlocksInFlight' = [nBlocksInFlight EXCEPT ![p] = 0]
      /\ received' = [received EXCEPT ![p] = Now] /\ unborn' = unborn /\ heard' = heard \ {p}
  BY DEF FinalizeNode
<1>3. /\ vBlocksToDownload[p] \in Seq(Hashes)
      /\ DOMAIN vBlocksToDownload[p] = 1 .. Len(vBlocksToDownload[p])
  BY <1>1, LenProperties DEF QueueLists, Lists, Typed
<1>4. /\ DOMAIN vBlocksInFlight[p] = 1 .. Len(vBlocksInFlight[p])
      /\ Len(InFlight[p]) = Len(vBlocksInFlight[p])
      /\ \A i \in 1 .. Len(vBlocksInFlight[p]) : InFlight[p][i] = vBlocksInFlight[p][i].hash
  BY <1>1, InFlightType DEF FlightFine, InFlight
<1>5. mapBlocksToDownload' =
        [h \in Hashes |-> IF Holds(vBlocksToDownload[p], h) THEN None ELSE mapBlocksToDownload[h]]
  BY <1>3 DEF FinalizeNode, Holds
<1>6. mapBlocksInFlight' =
        [h \in Hashes |-> IF Holds(InFlight[p], h) THEN None ELSE mapBlocksInFlight[h]]
  BY <1>4 DEF FinalizeNode, Holds
<1>7. InFlight' = [InFlight EXCEPT ![p] = <<>>]
  <2>1. vBlocksInFlight'[p] = <<>> /\ \A q \in Peers \ {p} : vBlocksInFlight'[q] = vBlocksInFlight[q]
    BY <1>1, <1>2 DEF FlightFine
  <2>2. \A q \in Peers \ {p} : InFlight'[q] = InFlight[q]
    BY <2>1 DEF InFlight
  <2>3. InFlight'[p] = <<>>
    BY <2>1, EmptySeq DEF InFlight
  <2>4. QED BY <2>2, <2>3 DEF InFlight
<1>8. QueueLists'
  <2>1. Lists([vBlocksToDownload EXCEPT ![p] = <<>>], [nBlocksToDownload EXCEPT ![p] = 0],
              [h \in Hashes |-> IF Holds(vBlocksToDownload[p], h) THEN None
                              ELSE mapBlocksToDownload[h]], mapNodeState \ {p})
    BY <1>1, ForgetPeer DEF QueueLists
  <2>2. QED BY <1>2, <1>5, <2>1 DEF QueueLists
<1>9. FlightLists'
  <2>1. Lists([InFlight EXCEPT ![p] = <<>>], [nBlocksInFlight EXCEPT ![p] = 0],
              [h \in Hashes |-> IF Holds(InFlight[p], h) THEN None
                              ELSE mapBlocksInFlight[h]], mapNodeState \ {p})
    BY <1>1, ForgetPeer DEF FlightLists
  <2>2. QED BY <1>2, <1>6, <1>7, <2>1 DEF FlightLists
<1>10. Apart'
  BY <1>1, <1>5, <1>6 DEF Apart
<1>11. Now \in Received
  BY DEF Received, Now, ReceiveLimit
<1>12. ConnType'
  BY <1>1, <1>2, <1>11 DEF ConnType
<1>13. FlightFine'
  <2>1. <<>> \in Seq(Requested) /\ Len(<<>>) = 0 /\ MAX_BLOCKS_IN_TRANSIT_PER_PEER \in Nat
    BY EmptySeq, BlockDownloadAssumption
  <2>2. /\ vBlocksInFlight'[p] = <<>>
        /\ \A q \in Peers \ {p} : vBlocksInFlight'[q] = vBlocksInFlight[q]
        /\ vBlocksInFlight' \in [Peers -> Seq(Requested)]
    BY <1>1, <1>2, <2>1 DEF FlightFine
  <2>3. OldFirst(<<>>)
    BY <2>1 DEF OldFirst
  <2>4. ASSUME NEW q \in Peers
        PROVE  /\ Len(vBlocksInFlight'[q]) <= MAX_BLOCKS_IN_TRANSIT_PER_PEER
               /\ OldFirst(vBlocksInFlight'[q])
    <3>1. CASE q = p
      <4>1. OldFirst(vBlocksInFlight'[q])
        BY <2>2, <2>3, <3>1, Zenon
      <4>2. Len(vBlocksInFlight'[q]) = 0
        BY <2>1, <2>2, <3>1
      <4>3. QED BY <2>1, <4>1, <4>2
    <3>2. CASE q # p
      BY <1>1, <2>2, <3>2 DEF FlightFine
    <3>3. QED BY <3>1, <3>2
  <2>5. QED BY <2>2, <2>4 DEF FlightFine
<1>14. QED BY <1>8, <1>9, <1>10, <1>12, <1>13, InvPartsNext

LEMMA AnnounceStep ==
  ASSUME DownloadInv, NEW p \in Peers, NEW h \in Hashes, Inv(p, h)
  PROVE  DownloadInv'
<1>1. ConnType /\ QueueLists /\ FlightLists /\ Apart /\ FlightFine
  BY InvParts
<1>2. /\ p \in mapNodeState /\ AddBlockToQueue(p, h) /\ heard' = heard \cup {p}
      /\ received' = [received EXCEPT ![p] = NoteTime(received[p], ReceiveLimit)]
      /\ vBlocksInFlight' = [vBlocksInFlight EXCEPT ![p] = InFlightNoted(p)]
      /\ UNCHANGED <<unborn, mapNodeState, fDisconnect, nBlocksInFlight, mapBlocksInFlight>>
  BY DEF Inv, HeardFrom
<1>3. FlightFine' /\ InFlight' = InFlight
  BY <1>1, <1>2, NotedStep
<1>4. FlightLists'
  BY <1>1, <1>2, <1>3 DEF FlightLists
<1>5. NoteTime(received[p], ReceiveLimit) \in Received
  BY <1>1, NoteReceived DEF ConnType
<1>6. fShouldBan' \subseteq mapNodeState
  BY <1>1, <1>2 DEF AddBlockToQueue, ConnType
<1>7. ConnType'
  BY <1>1, <1>2, <1>5, <1>6 DEF ConnType
<1>8. CASE mapBlocksToDownload[h] # None \/ mapBlocksInFlight[h] # None
  <2>1. UNCHANGED queueVars
    BY <1>2, <1>8 DEF AddBlockToQueue
  <2>2. QueueLists' /\ Apart'
    BY <1>1, <1>2, <2>1 DEF QueueLists, Apart, queueVars
  <2>3. QED BY <1>3, <1>4, <1>7, <2>2, InvPartsNext
<1>9. CASE mapBlocksToDownload[h] = None /\ mapBlocksInFlight[h] = None
  <2>1. /\ vBlocksToDownload' = [vBlocksToDownload EXCEPT ![p] = Append(@, h)]
        /\ nBlocksToDownload' = [nBlocksToDownload EXCEPT ![p] = @ + 1]
        /\ mapBlocksToDownload' = [mapBlocksToDownload EXCEPT ![h] = p]
    BY <1>2, <1>9 DEF AddBlockToQueue
  <2>2. QueueLists'
    BY <1>1, <1>2, <1>9, <2>1, AppendOne DEF QueueLists
  <2>3. Apart'
    BY <1>1, <1>2, <1>9, <2>1 DEF Apart, QueueLists, Lists, Typed
  <2>4. QED BY <1>3, <1>4, <1>7, <2>2, <2>3, InvPartsNext
<1>10. QED BY <1>8, <1>9

LEMMA BlockStep ==
  ASSUME DownloadInv, NEW p \in Peers, NEW h \in Hashes, Block(p, h)
  PROVE  DownloadInv'
<1>1. ConnType /\ QueueLists /\ FlightLists /\ Apart /\ FlightFine
  BY InvParts
<1>2. /\ p \in mapNodeState /\ Dequeue(h) /\ Land(p, h) /\ heard' = heard \cup {p}
      /\ fShouldBan' \subseteq fShouldBan \cup {p}
      /\ UNCHANGED <<unborn, mapNodeState, fDisconnect>>
  BY DEF Block, HeardFrom
<1>3. /\ QueueLists'
      /\ \A g \in Hashes : mapBlocksToDownload'[g] \in {mapBlocksToDownload[g], None}
  BY <1>1, <1>2, DequeueStep DEF QueueLists
<1>4. /\ FlightLists' /\ FlightFine' /\ received' \in [Peers -> Received]
      /\ \A g \in Hashes : mapBlocksInFlight'[g] \in {mapBlocksInFlight[g], None}
  BY <1>1, <1>2, LandStep DEF FlightLists
<1>5. Apart'
  BY <1>1, <1>3, <1>4 DEF Apart
<1>6. ConnType'
  BY <1>1, <1>2, <1>4 DEF ConnType
<1>7. QED BY <1>3, <1>4, <1>5, <1>6, InvPartsNext

LEMMA DownloadStep == DownloadInv /\ [Next]_vars => DownloadInv'
<1> SUFFICES ASSUME DownloadInv, [Next]_vars PROVE DownloadInv'
  OBVIOUS
<1>1. ConnType /\ QueueLists /\ FlightLists /\ Apart /\ FlightFine
  BY InvParts
<1>2. ASSUME ConnType', mapNodeState \subseteq mapNodeState', UNCHANGED <<queueVars, flightVars>>
      PROVE  DownloadInv'
  <2>1. InFlight' = InFlight
    BY <1>2 DEF InFlight, flightVars
  <2>2. QueueLists' /\ FlightLists'
    BY <1>1, <1>2, <2>1, MoreLive DEF QueueLists, FlightLists, queueVars, flightVars
  <2>3. Apart' /\ FlightFine'
    BY <1>1, <1>2 DEF Apart, FlightFine, queueVars, flightVars
  <2>4. QED BY <1>2, <2>2, <2>3, InvPartsNext
<1>3. CASE \E p \in Peers : InitializeNode(p)
  BY <1>1, <1>2, <1>3 DEF InitializeNode, ConnType
<1>4. CASE \E p \in Peers : SocketClosed(p)
  BY <1>1, <1>2, <1>4 DEF SocketClosed, ConnType
<1>5. CASE \E p \in Peers : FinalizeNode(p)
  BY <1>5, FinalizeStep
<1>6. CASE \E p \in Peers : OtherMessage(p)
  <2> PICK p \in Peers : OtherMessage(p)
    BY <1>6
  <2>1. /\ received' = [received EXCEPT ![p] = NoteTime(received[p], ReceiveLimit)]
        /\ vBlocksInFlight' = [vBlocksInFlight EXCEPT ![p] = InFlightNoted(p)]
        /\ UNCHANGED <<connVars, queueVars, nBlocksInFlight, mapBlocksInFlight>>
        /\ heard' = heard \cup {p}
    BY DEF OtherMessage, HeardFrom
  <2>2. FlightFine' /\ InFlight' = InFlight
    BY <1>1, <2>1, NotedStep
  <2>3. NoteTime(received[p], ReceiveLimit) \in Received
    BY <1>1, NoteReceived DEF ConnType
  <2>4. ConnType'
    BY <1>1, <2>1, <2>3 DEF ConnType, connVars
  <2>5. QueueLists' /\ FlightLists' /\ Apart'
    BY <1>1, <2>1, <2>2 DEF QueueLists, FlightLists, Apart, connVars, queueVars
  <2>6. QED BY <2>2, <2>4, <2>5, InvPartsNext
<1>7. CASE \E p \in Peers : Misbehaving(p)
  BY <1>1, <1>2, <1>7 DEF Misbehaving, ConnType
<1>8. CASE \E p \in Peers : \E h \in Knows[p] : Inv(p, h)
  BY <1>8, AnnounceStep, BlockDownloadAssumption
<1>9. CASE \E p \in Peers : \E h \in Knows[p] : Block(p, h)
  BY <1>9, BlockStep, BlockDownloadAssumption
<1>10. CASE \E p \in Peers : SendMessages(p)
  <2> PICK p \in Peers : SendMessages(p)
    BY <1>10
  <2>1. /\ p \in mapNodeState /\ fShouldBan' = fShouldBan \ {p}
        /\ fDisconnect' \subseteq fDisconnect \cup {p}
        /\ UNCHANGED <<unborn, mapNodeState, heard>>
        /\ \/ UNCHANGED <<received, queueVars, flightVars>>
           \/ RequestBlocks(p, Requests(p))
    BY DEF SendMessages
  <2>2. CASE UNCHANGED <<received, queueVars, flightVars>>
    BY <1>1, <1>2, <2>1, <2>2 DEF ConnType
  <2>3. CASE RequestBlocks(p, Requests(p))
    <3>1. /\ QueueLists' /\ FlightLists' /\ Apart' /\ FlightFine'
          /\ received' \in [Peers -> Received]
      BY <2>1, <2>3, RequestStep DEF QueueLists, FlightLists
    <3>2. ConnType'
      BY <1>1, <2>1, <3>1 DEF ConnType
    <3>3. QED BY <3>1, <3>2, InvPartsNext
  <2>4. QED BY <2>1, <2>2, <2>3
<1>11. CASE Tick
  BY <1>11, TickStep
<1>12. CASE UNCHANGED vars
  BY <1>1, <1>2, <1>12 DEF vars, connVars, ConnType
<1>14. CASE \E p \in Peers : Skipped(p)
  BY <1>1, <1>2, <1>14 DEF Skipped, HeardFrom, connVars, ConnType
<1>13. QED
  BY <1>3, <1>4, <1>5, <1>6, <1>7, <1>8, <1>9, <1>10, <1>11, <1>12, <1>14 DEF Next

LEMMA DownloadInit == Init => DownloadInv
<1> SUFFICES ASSUME Init PROVE DownloadInv
  OBVIOUS
<1>1. <<>> \in Seq(Hashes) /\ <<>> \in Seq(Requested) /\ Len(<<>>) = 0
  BY EmptySeq
<1>2. ConnType
  BY DEF Init, ConnType, Received, Now, ReceiveLimit
<1>3. QueueLists
  BY <1>1 DEF Init, QueueLists, Lists, Typed
<1>4. InFlight = [p \in Peers |-> <<>>]
  BY <1>1 DEF Init, InFlight
<1>5. FlightLists
  BY <1>1, <1>4 DEF Init, FlightLists, Lists, Typed
<1>6. FlightFine
  BY <1>1, BlockDownloadAssumption DEF Init, FlightFine, OldFirst
<1>7. Apart
  BY DEF Init, Apart
<1>8. QED BY <1>2, <1>3, <1>5, <1>6, <1>7, InvParts

LEMMA DownloadAlways == Spec => []DownloadInv
BY DownloadInit, DownloadStep, PTL DEF Spec

\* Every variable keeps its type: State() is only asked for peers that have one.
THEOREM TypeCorrect == Spec => []TypeOK
<1>1. DownloadInv => TypeOK
  BY DEF DownloadInv
<1>2. QED BY <1>1, DownloadAlways, PTL

\* The lists of the peers and the maps agree, however peers announce, send,
\* overtake each other and leave.
THEOREM ListsAlwaysMatchMaps == Spec => []ListsMatchMaps
<1>1. DownloadInv => ListsMatchMaps
  BY ListsAgree DEF DownloadInv
<1>2. QED BY <1>1, DownloadAlways, PTL

\* No peer is asked for more than MAX_BLOCKS_IN_TRANSIT_PER_PEER blocks at once.
THEOREM WindowAlwaysKept == Spec => []WindowKept
<1>1. DownloadInv => WindowKept
  BY DEF DownloadInv
<1>2. QED BY <1>1, DownloadAlways, PTL

\* The front of vBlocksInFlight is the oldest request, and late if any request is.
THEOREM OldestAlwaysFirst == Spec => []OldestFirst
<1>1. DownloadInv => OldestFirst
  BY DEF DownloadInv
<1>2. QED BY <1>1, DownloadAlways, PTL
=============================================================================
