-------------------------- MODULE SourceCacheProofs --------------------------
(***************************************************************************)
(* Proofs about SourceCache, for any rules, files, requests, descriptors   *)
(* and limits.  The inductive invariant IInv says which loads may still    *)
(* publish: those that carry the present epoch and the present version of  *)
(* their rule were started after its last invalidation.                    *)
(***************************************************************************)
EXTENDS SourceCache, SequenceTheorems, WellFoundedInduction, TLAPS

-----------------------------------------------------------------------------
(* Sums and the eviction count *)

\* Every nonempty set of naturals has a least element.
LEMMA LeastNat ==
  ASSUME NEW T, T \subseteq Nat, T # {}
  PROVE  \E n \in T : \A k \in T : n <= k
<1> DEFINE R == {ss \in Nat \X Nat : ss[1] < ss[2]}
<1>1. IsWellFoundedOn(R, Nat)
  BY NatLessThanWellFounded DEF OpToRel
<1>2. PICK x \in T : \A y \in T : ~(<<y, x>> \in R)
  BY <1>1, WFMin
<1>3. \A a, b \in Nat : a < b => <<a, b>> \in R
  OBVIOUS
<1> HIDE DEF R
<1>4. \A y \in T : ~(y < x)
  BY <1>2, <1>3
<1> QED BY <1>4

\* Partial sums of the byte lengths, as a well-defined function on 0..n.
PartialSums(es, n) ==
    {f \in [0..n -> Nat] :
       \A i \in 0..n : f[i] = IF i = 0 THEN 0 ELSE f[i - 1] + es[i].byteLength}

\* The eviction loop's running sum exists for every prefix of the Map, so that
\* OldestBytes, a recursive function, is what its equation says.
LEMMA PartialSumsExist ==
  ASSUME NEW es \in Seq(Entries)
  PROVE  \A n \in 0..Len(es) : PartialSums(es, n) # {}
<1> DEFINE Bad == {n \in 0..Len(es) : PartialSums(es, n) = {}}
<1>1. SUFFICES ASSUME Bad # {} PROVE FALSE
  OBVIOUS
<1>2. Bad \subseteq Nat
  BY LenProperties
<1>3. PICK n \in Bad : \A k \in Bad : n <= k
  <2> HIDE DEF Bad
  <2> QED BY <1>1, <1>2, LeastNat
<1>4. n \in 0..Len(es) /\ PartialSums(es, n) = {} /\ n \in Nat /\ Len(es) \in Nat
  BY <1>2, LenProperties
<1>5. CASE n = 0
  <2>1. [i \in 0..0 |-> 0] \in PartialSums(es, 0)
    BY DEF PartialSums
  <2> QED BY <2>1, <1>4, <1>5
<1>6. CASE n # 0
  <2>1. n - 1 \in 0..Len(es) /\ n - 1 \in Nat /\ ~(n <= n - 1)
    BY <1>4, <1>6
  <2>2. PartialSums(es, n - 1) # {}
    BY <2>1, <1>3
  <2>3. PICK f : f \in PartialSums(es, n - 1)
    BY <2>2
  <2>4. es[n].byteLength \in Nat
    <3>1. es[n] \in Entries
      BY <1>4, <1>6, ElementOfSeq
    <3> QED BY <3>1 DEF Entries
  <2> DEFINE g == [i \in 0..n |-> IF i = n THEN f[n - 1] + es[n].byteLength ELSE f[i]]
  <2>5. f \in [0..(n - 1) -> Nat]
        /\ \A i \in 0..(n - 1) : f[i] = IF i = 0 THEN 0 ELSE f[i - 1] + es[i].byteLength
    BY <2>3 DEF PartialSums
  <2>6. g \in [0..n -> Nat]
    BY <2>5, <2>4, <1>4, <1>6
  <2>7. ASSUME NEW i \in 0..n
        PROVE  g[i] = IF i = 0 THEN 0 ELSE g[i - 1] + es[i].byteLength
    <3>1. CASE i = n
      BY <3>1, <1>4, <1>6
    <3>2. CASE i # n
      <4>1. i \in 0..(n - 1) /\ (i # 0 => i - 1 \in 0..(n - 1) /\ i - 1 # n)
        BY <3>2, <1>4
      <4> QED BY <4>1, <3>2, <2>5, <1>4
    <3> QED BY <3>1, <3>2
  <2>8. g \in PartialSums(es, n)
    BY <2>6, <2>7 DEF PartialSums
  <2> QED BY <2>8, <1>4
<1> QED BY <1>5, <1>6

\* OldestBytes satisfies its defining equation.
LEMMA OldestBytesDef ==
  ASSUME NEW es \in Seq(Entries)
  PROVE  OldestBytes(es) = [n \in 0..Len(es) |->
            IF n = 0 THEN 0 ELSE OldestBytes(es)[n - 1] + es[n].byteLength]
<1>1. PICK f : f \in PartialSums(es, Len(es))
  BY PartialSumsExist, LenProperties
<1>2. f \in [0..Len(es) -> Nat]
      /\ \A i \in 0..Len(es) : f[i] = IF i = 0 THEN 0 ELSE f[i - 1] + es[i].byteLength
  BY <1>1 DEF PartialSums
<1>3. f = [n \in 0..Len(es) |-> IF n = 0 THEN 0 ELSE f[n - 1] + es[n].byteLength]
  BY <1>2
<1>4. OldestBytes(es) = CHOOSE s : s = [n \in 0..Len(es) |->
                          IF n = 0 THEN 0 ELSE s[n - 1] + es[n].byteLength]
  BY DEF OldestBytes
<1> QED BY <1>3, <1>4

\* The bytes of the n oldest entries are a natural number.
LEMMA OldestBytesType ==
  ASSUME NEW es \in Seq(Entries)
  PROVE  \A n \in 0..Len(es) : OldestBytes(es)[n] \in Nat
<1> DEFINE Bad == {n \in 0..Len(es) : OldestBytes(es)[n] \notin Nat}
<1>1. SUFFICES ASSUME Bad # {} PROVE FALSE
  OBVIOUS
<1>2. Bad \subseteq Nat
  BY LenProperties
<1>3. PICK n \in Bad : \A k \in Bad : n <= k
  <2> HIDE DEF Bad
  <2> QED BY <1>1, <1>2, LeastNat
<1>4. n \in 0..Len(es) /\ OldestBytes(es)[n] \notin Nat /\ n \in Nat /\ Len(es) \in Nat
  BY <1>2, LenProperties
<1>5. n # 0
  BY <1>4, OldestBytesDef
<1>6. n - 1 \in 0..Len(es) /\ ~(n <= n - 1)
  BY <1>4, <1>5
<1>7. OldestBytes(es)[n - 1] \in Nat
  BY <1>3, <1>6
<1>8. es[n].byteLength \in Nat
  <2>1. es[n] \in Entries
    BY <1>4, <1>5, ElementOfSeq
  <2> QED BY <2>1 DEF Entries
<1>9. OldestBytes(es)[n] = OldestBytes(es)[n - 1] + es[n].byteLength
  BY <1>4, <1>5, OldestBytesDef
<1> QED BY <1>4, <1>7, <1>8, <1>9

\* The eviction loop stops, and what it leaves is nothing or within both limits.
LEMMA EvictedProperties ==
  ASSUME NEW es \in Seq(Entries), NEW bytes \in Int
  PROVE  /\ Evicted(es, bytes) \in 0..Len(es)
         /\ Len(es) - Evicted(es, bytes) <= MaximumEntries
         /\ \/ Evicted(es, bytes) = Len(es)
            \/ bytes - OldestBytes(es)[Evicted(es, bytes)] <= MaximumBytes
<1> DEFINE fits(n) == /\ Len(es) - n <= MaximumEntries
                      /\ bytes - OldestBytes(es)[n] <= MaximumBytes
           Enough == {n \in 0..Len(es) : n = Len(es) \/ fits(n)}
<1>1. Len(es) \in Nat
  BY LenProperties
<1>2. Enough \subseteq Nat /\ Enough # {}
  BY <1>1
<1>3. PICK n \in Enough : \A k \in Enough : n <= k
  <2> HIDE DEF Enough
  <2> QED BY <1>2, LeastNat
<1>4. \A k \in 0..(n - 1) : ~fits(k)
  <2> SUFFICES ASSUME NEW k \in 0..(n - 1), fits(k) PROVE FALSE
    OBVIOUS
  <2>1. k \in Enough /\ n \in 0..Len(es)
    BY <1>1
  <2> QED BY <2>1, <1>3, <1>1
<1>5. \E k \in 0..Len(es) : (k = Len(es) \/ fits(k)) /\ \A j \in 0..(k - 1) : ~fits(j)
  BY <1>4
<1>6. Evicted(es, bytes) \in 0..Len(es)
      /\ (Evicted(es, bytes) = Len(es) \/ fits(Evicted(es, bytes)))
  <2> HIDE DEF Enough
  <2> QED BY <1>5 DEF Evicted
<1> QED BY <1>1, <1>6, BoundsAssumption
-----------------------------------------------------------------------------
(* The Map as a sequence *)

UniqueRules(es) ==
    \A i, j \in DOMAIN es : es[i].rule = es[j].rule => i = j

\* Every entry of one sequence is an entry of the other.
Among(es, others) ==
    \A i \in DOMAIN es : \E j \in DOMAIN others : es[i] = others[j]

\* Map.delete: one entry fewer, still one per rule, none new.
LEMMA RemoveAtMap ==
  ASSUME NEW es \in Seq(Entries), UniqueRules(es), NEW i \in DOMAIN es
  PROVE  /\ RemoveAt(es, i) \in Seq(Entries)
         /\ Len(RemoveAt(es, i)) = Len(es) - 1
         /\ UniqueRules(RemoveAt(es, i))
         /\ Among(RemoveAt(es, i), es)
         /\ \A j \in DOMAIN RemoveAt(es, i) : RemoveAt(es, i)[j].rule # es[i].rule
         /\ \A j \in 1..(Len(es) - 1) :
               RemoveAt(es, i)[j] = IF j < i THEN es[j] ELSE es[j + 1]
<1>1. Len(es) \in Nat /\ DOMAIN es = 1..Len(es) /\ i \in 1..Len(es)
  BY LenProperties
<1>2. \A j \in 1..Len(es) : es[j] \in Entries
  BY ElementOfSeq
<1> DEFINE front == SubSeq(es, 1, i - 1)
           back == SubSeq(es, i + 1, Len(es))
<1>3. /\ front \in Seq(Entries)
      /\ Len(front) = i - 1
      /\ \A j \in 1..(i - 1) : front[j] = es[j]
  <2>1. \A j \in 1..(i - 1) : es[j] \in Entries
    BY <1>1, <1>2
  <2> QED BY <2>1, <1>1, SubSeqProperties
<1>4. /\ back \in Seq(Entries)
      /\ Len(back) = Len(es) - i
      /\ \A j \in 1..(Len(es) - i) : back[j] = es[i + j]
  <2>1. \A j \in (i + 1)..Len(es) : es[j] \in Entries
    BY <1>1, <1>2
  <2>2. /\ back \in Seq(Entries)
        /\ Len(back) = IF i + 1 <= Len(es) THEN Len(es) - (i + 1) + 1 ELSE 0
        /\ \A j \in 1..(Len(es) - (i + 1) + 1) : back[j] = es[(i + 1) + j - 1]
    BY <2>1, <1>1, SubSeqProperties
  <2> HIDE DEF back
  <2>3. Len(back) = Len(es) - i
    BY <2>2, <1>1
  <2>4. ASSUME NEW j \in 1..(Len(es) - i)
        PROVE  back[j] = es[i + j]
    <3>1. j \in 1..(Len(es) - (i + 1) + 1) /\ (i + 1) + j - 1 = i + j
      BY <1>1
    <3> QED BY <3>1, <2>2
  <2> QED BY <2>2, <2>3, <2>4
<1> DEFINE rest == RemoveAt(es, i)
<1>5. rest = front \o back
  BY DEF RemoveAt
<1> HIDE DEF front, back
<1>6. /\ rest \in Seq(Entries)
      /\ Len(rest) = Len(es) - 1
      /\ DOMAIN rest = 1..(Len(es) - 1)
      /\ \A j \in 1..(Len(es) - 1) : rest[j] = IF j < i THEN es[j] ELSE es[j + 1]
  <2>1. /\ rest \in Seq(Entries)
        /\ Len(rest) = Len(front) + Len(back)
        /\ \A j \in 1..(Len(front) + Len(back)) :
              rest[j] = IF j <= Len(front) THEN front[j] ELSE back[j - Len(front)]
    <3>1. front \in Seq(Entries) /\ back \in Seq(Entries)
      BY <1>3, <1>4
    <3> HIDE DEF rest
    <3> QED BY <3>1, <1>5, ConcatProperties, Zenon
  <2>2. DOMAIN rest = 1..Len(rest)
    BY <2>1, LenProperties
  <2> HIDE DEF rest
  <2>3. Len(rest) = Len(es) - 1
    BY <2>1, <1>1, <1>3, <1>4
  <2>4. ASSUME NEW j \in 1..(Len(es) - 1)
        PROVE  rest[j] = IF j < i THEN es[j] ELSE es[j + 1]
    <3>1. j \in 1..(Len(front) + Len(back))
      BY <1>1, <1>3, <1>4
    <3>2. CASE j < i
      <4>1. j \in 1..(i - 1) /\ j <= Len(front)
        BY <3>2, <1>1, <1>3
      <4> QED BY <4>1, <3>1, <3>2, <2>1, <1>3
    <3>3. CASE ~(j < i)
      <4>1. /\ ~(j <= Len(front))
            /\ j - Len(front) \in 1..(Len(es) - i)
            /\ i + (j - Len(front)) = j + 1
        BY <3>3, <1>1, <1>3
      <4>2. rest[j] = back[j - Len(front)]
        BY <4>1, <3>1, <2>1
      <4> QED BY <4>1, <4>2, <3>3, <1>4
    <3> QED BY <3>2, <3>3
  <2> QED BY <2>1, <2>2, <2>3, <2>4
<1> HIDE DEF rest
<1>7. UniqueRules(rest)
  <2> SUFFICES ASSUME NEW a \in DOMAIN rest, NEW b \in DOMAIN rest,
                      rest[a].rule = rest[b].rule
               PROVE  a = b
    BY DEF UniqueRules
  <2> QED BY <1>1, <1>6 DEF UniqueRules
<1>8. Among(rest, es)
  BY <1>1, <1>6 DEF Among
<1>9. \A j \in DOMAIN rest : rest[j].rule # es[i].rule
  BY <1>1, <1>6 DEF UniqueRules
<1> QED BY <1>6, <1>7, <1>8, <1>9 DEF rest

\* remove: the rule has no entry afterwards, the others stay.
LEMMA WithoutMap ==
  ASSUME NEW es \in Seq(Entries), UniqueRules(es), NEW r
  PROVE  /\ Without(es, r) \in Seq(Entries)
         /\ Len(Without(es, r)) <= Len(es)
         /\ UniqueRules(Without(es, r))
         /\ Among(Without(es, r), es)
         /\ \A j \in DOMAIN Without(es, r) : Without(es, r)[j].rule # r
         /\ BytesOf(es, r) \in Nat
<1>1. Len(es) \in Nat /\ DOMAIN es = 1..Len(es)
  BY LenProperties
<1>2. CASE RuleAt(es, r) = {}
  <2>1. Without(es, r) = es /\ BytesOf(es, r) = 0
    BY <1>2 DEF Without, BytesOf
  <2>2. \A j \in DOMAIN es : es[j].rule # r
    BY <1>2 DEF RuleAt
  <2> QED BY <2>1, <2>2, <1>1 DEF Among
<1>3. CASE RuleAt(es, r) # {}
  <2>1. PICK i \in RuleAt(es, r) : i = CHOOSE k \in RuleAt(es, r) : TRUE
    BY <1>3
  <2>2. i \in DOMAIN es /\ es[i].rule = r
    BY DEF RuleAt
  <2>3. Without(es, r) = RemoveAt(es, i) /\ BytesOf(es, r) = es[i].byteLength
    BY <1>3, <2>1 DEF Without, BytesOf
  <2>4. es[i] \in Entries
    BY <1>1, <2>2, ElementOfSeq
  <2>5. es[i].byteLength \in Nat
    BY <2>4 DEF Entries
  <2> QED BY <1>1, <2>2, <2>3, <2>5, RemoveAtMap
<1> QED BY <1>2, <1>3

\* Map.set of an absent key: the entry becomes the youngest.
LEMMA AppendMap ==
  ASSUME NEW es \in Seq(Entries), UniqueRules(es), NEW e \in Entries,
         \A j \in DOMAIN es : es[j].rule # e.rule
  PROVE  /\ Append(es, e) \in Seq(Entries)
         /\ Len(Append(es, e)) = Len(es) + 1
         /\ UniqueRules(Append(es, e))
         /\ \A i \in DOMAIN Append(es, e) :
               Append(es, e)[i] = e \/ \E j \in DOMAIN es : Append(es, e)[i] = es[j]
<1> DEFINE more == Append(es, e)
<1>1. Len(es) \in Nat /\ DOMAIN es = 1..Len(es)
  BY LenProperties
<1>2. /\ more \in Seq(Entries)
      /\ Len(more) = Len(es) + 1
      /\ \A i \in 1..Len(es) : more[i] = es[i]
      /\ more[Len(es) + 1] = e
  BY AppendProperties
<1>3. DOMAIN more = 1..(Len(es) + 1)
  BY <1>2, LenProperties
<1> HIDE DEF more
<1>4. UniqueRules(more)
  BY <1>1, <1>2, <1>3 DEF UniqueRules
<1> QED BY <1>1, <1>2, <1>3, <1>4 DEF more

\* Eviction: the n oldest entries go, the others stay in order.
LEMMA DropOldestMap ==
  ASSUME NEW es \in Seq(Entries), UniqueRules(es), NEW n \in 0..Len(es)
  PROVE  /\ SubSeq(es, n + 1, Len(es)) \in Seq(Entries)
         /\ Len(SubSeq(es, n + 1, Len(es))) = Len(es) - n
         /\ UniqueRules(SubSeq(es, n + 1, Len(es)))
         /\ Among(SubSeq(es, n + 1, Len(es)), es)
         /\ \A j \in 1..(Len(es) - n) : SubSeq(es, n + 1, Len(es))[j] = es[n + j]
<1> DEFINE rest == SubSeq(es, n + 1, Len(es))
<1>1. Len(es) \in Nat /\ DOMAIN es = 1..Len(es)
  BY LenProperties
<1>2. \A j \in (n + 1)..Len(es) : es[j] \in Entries
  BY <1>1, ElementOfSeq
<1>3. /\ rest \in Seq(Entries)
      /\ Len(rest) = IF n + 1 <= Len(es) THEN Len(es) - (n + 1) + 1 ELSE 0
      /\ \A j \in 1..(Len(es) - (n + 1) + 1) : rest[j] = es[(n + 1) + j - 1]
  BY <1>1, <1>2, SubSeqProperties
<1>4. DOMAIN rest = 1..Len(rest)
  BY <1>3, LenProperties
<1> HIDE DEF rest
<1>5. /\ Len(rest) = Len(es) - n
      /\ \A j \in 1..(Len(es) - n) : n + j \in DOMAIN es /\ rest[j] = es[n + j]
  <2>1. Len(rest) = Len(es) - n
    <3>1. n \in Nat /\ Len(es) \in Nat /\ n <= Len(es)
      BY <1>1
    <3>2. CASE n < Len(es)
      BY <3>1, <3>2, <1>3
    <3>3. CASE n = Len(es)
      BY <3>1, <3>3, <1>3
    <3> QED BY <3>1, <3>2, <3>3
  <2>2. ASSUME NEW j \in 1..(Len(es) - n)
        PROVE  n + j \in DOMAIN es /\ rest[j] = es[n + j]
    <3>1. j \in 1..(Len(es) - (n + 1) + 1) /\ (n + 1) + j - 1 = n + j /\ n + j \in DOMAIN es
      BY <1>1
    <3> QED BY <3>1, <1>3
  <2> QED BY <2>1, <2>2
<1>6. UniqueRules(rest)
  <2> SUFFICES ASSUME NEW a \in DOMAIN rest, NEW b \in DOMAIN rest,
                      rest[a].rule = rest[b].rule
               PROVE  a = b
    BY DEF UniqueRules
  <2>1. a \in 1..(Len(es) - n) /\ b \in 1..(Len(es) - n)
    BY <1>4, <1>5
  <2>2. n + a = n + b
    BY <2>1, <1>5 DEF UniqueRules
  <2> QED BY <2>1, <2>2, <1>1
<1>7. Among(rest, es)
  BY <1>4, <1>5 DEF Among
<1> QED BY <1>3, <1>5, <1>6, <1>7 DEF rest
-----------------------------------------------------------------------------
(* The inductive invariant *)

\* What was read of the active sources is no older than the rule's last
\* invalidation and no newer than the disk.
Fresh(r, src, content) ==
    \A k \in Kinds : src[k] # None /\ content[k] \in Versions =>
        since[r][src[k]] <= content[k] /\ content[k] <= disk[src[k]]

\* There is a reading exactly for the active sources.
Matches(src, content) == \A k \in Kinds : content[k] = None <=> src[k] = None

SinceInv == \A r \in Rules, p \in Paths : since[r][p] <= disk[p]

EntryOK(e) ==
    /\ activeDescriptors[e.rule] = e.src
    /\ Fresh(e.rule, e.src, e.content)
    /\ Matches(e.src, e.content)

EntriesInv ==
    /\ UniqueRules(entries)
    /\ Len(entries) <= MaximumEntries
    /\ \A i \in DOMAIN entries : EntryOK(entries[i])

\* A running load of the present epoch is registered.
LoadOK(l) ==
    /\ load[l].state \in {"reading", "snapshot"} =>
          /\ load[l].rule \in Rules
          /\ load[l].src \in Descriptors
          /\ Matches(load[l].src, load[l].content)
    /\ load[l].state = "snapshot" => load[l].content \in Contents
    /\ Reading(l) => /\ ~load[l].finished
                     /\ load[l].epoch <= epoch
                     /\ load[l].epoch = epoch => l \in inFlight

LoadsInv == \A l \in Requests : LoadOK(l)

\* A registered load is of the present epoch; if it also is of the present
\* version of its rule, what it read is fresh.
RegisteredOK(l) ==
    /\ load[l].state # "none"
    /\ ~load[l].finished
    /\ load[l].epoch = epoch
    /\ load[l].rule \in Rules
    /\ load[l].src \in Descriptors
    /\ load[l].version <= versions[load[l].rule]
    /\ load[l].version = versions[load[l].rule] =>
          Fresh(load[l].rule, load[l].src, load[l].content)

SameKey(l, m) ==
    /\ load[l].rule = load[m].rule
    /\ load[l].version = load[m].version
    /\ load[l].src = load[m].src

InFlightInv ==
    /\ \A l \in inFlight : RegisteredOK(l)
    /\ \A l, m \in inFlight : SameKey(l, m) => l = m

RequestOK(q) ==
    /\ request[q].state = "idle" =>
          load[q].state = "none" /\ request[q].answer = NoAnswer
    /\ request[q].state = "waiting" =>
          /\ request[q].load \in Requests
          /\ load[request[q].load].state # "none"
          /\ request[q].answer = NoAnswer

RequestsInv == \A q \in Requests : RequestOK(q)

IInv == TypeOK /\ SinceInv /\ EntriesInv /\ LoadsInv /\ InFlightInv /\ RequestsInv
-----------------------------------------------------------------------------
(* What the fragments of the actions preserve *)

\* Removing a rule's entry, whatever becomes of that rule.
LEMMA RemoveKeeps ==
  ASSUME IInv, NEW r \in Rules, RemoveEntry(r), disk' = disk,
         \A x \in Rules \ {r} : /\ activeDescriptors'[x] = activeDescriptors[x]
                               /\ since'[x] = since[x]
  PROVE  /\ entries' \in Seq(Entries)
         /\ totalBytes' \in Int
         /\ EntriesInv'
         /\ \A i \in DOMAIN entries' : entries'[i].rule # r
<1>1. entries \in Seq(Entries) /\ UniqueRules(entries) /\ totalBytes \in Int
      /\ Len(entries) <= MaximumEntries
  BY DEF IInv, TypeOK, EntriesInv
<1>2. entries' = Without(entries, r) /\ totalBytes' = totalBytes - BytesOf(entries, r)
  BY DEF RemoveEntry
<1>3. /\ entries' \in Seq(Entries)
      /\ Len(entries') <= Len(entries)
      /\ UniqueRules(entries')
      /\ Among(entries', entries)
      /\ \A i \in DOMAIN entries' : entries'[i].rule # r
      /\ BytesOf(entries, r) \in Nat
  BY <1>1, <1>2, WithoutMap
<1>4. Len(entries') <= MaximumEntries
  BY <1>1, <1>3, LenProperties, BoundsAssumption
<1>5. ASSUME NEW i \in DOMAIN entries'
      PROVE  EntryOK(entries[i])'
  <2>1. PICK j \in DOMAIN entries : entries'[i] = entries[j]
    BY <1>3 DEF Among
  <2>2. entries[j].rule \in Rules \ {r}
    <3>1. entries[j] \in Entries
      BY <1>1, LenProperties, ElementOfSeq
    <3> QED BY <3>1, <2>1, <1>3 DEF Entries
  <2>3. EntryOK(entries[j])
    BY DEF IInv, EntriesInv
  <2> QED BY <2>1, <2>2, <2>3 DEF EntryOK, Fresh, Matches
<1> QED BY <1>1, <1>2, <1>3, <1>4, <1>5 DEF EntriesInv, UniqueRules

\* Storing a complete current snapshot.
LEMMA StoreKeeps ==
  ASSUME IInv, NEW r \in Rules, NEW src \in Descriptors, NEW content \in Contents,
         Store(r, src, content), activeDescriptors[r] = src,
         Fresh(r, src, content), Matches(src, content),
         UNCHANGED <<disk, since, activeDescriptors>>
  PROVE  /\ entries' \in Seq(Entries)
         /\ totalBytes' \in Int
         /\ EntriesInv'
         /\ \A i \in DOMAIN entries' :
               \/ /\ entries'[i].rule = r /\ entries'[i].src = src
                  /\ entries'[i].content = content
               \/ \E j \in DOMAIN entries : entries'[i] = entries[j]
<1> DEFINE bytes == snapshotByteLength(src, content)
           others == Without(entries, r)
           rest == totalBytes - BytesOf(entries, r)
           new == [rule |-> r, src |-> src, content |-> content, byteLength |-> bytes]
           added == Append(others, new)
           n == Evicted(added, rest + bytes)
<1>1. entries \in Seq(Entries) /\ UniqueRules(entries) /\ totalBytes \in Int
      /\ Len(entries) <= MaximumEntries
  BY DEF IInv, TypeOK, EntriesInv
<1>2. /\ others \in Seq(Entries)
      /\ Len(others) <= Len(entries)
      /\ UniqueRules(others)
      /\ Among(others, entries)
      /\ \A i \in DOMAIN others : others[i].rule # r
      /\ BytesOf(entries, r) \in Nat
  BY <1>1, WithoutMap
<1>3. bytes \in Nat
  <2>1. ASSUME NEW k \in Kinds PROVE KindBytes(src, content, k) \in Nat
    <3>1. src[k] # None => src[k] \in Paths /\ content[k] \in Versions
      BY DescriptorAssumption DEF Contents, Matches
    <3> QED BY <3>1, DescriptorAssumption DEF KindBytes
  <2> QED BY <2>1 DEF snapshotByteLength, Kinds
<1>4. new \in Entries
  BY <1>3 DEF Entries
<1> HIDE DEF bytes, new, others
<1>5. /\ added \in Seq(Entries)
      /\ UniqueRules(added)
      /\ \A i \in DOMAIN added : added[i] = new \/ \E j \in DOMAIN others : added[i] = others[j]
  <2>1. \A j \in DOMAIN others : others[j].rule # new.rule
    BY <1>2 DEF new
  <2> QED BY <2>1, <1>2, <1>4, AppendMap
<1>6. rest \in Int
  BY <1>1, <1>2
<1> HIDE DEF added, rest
<1>7. /\ n \in 0..Len(added)
      /\ Len(added) - n <= MaximumEntries
  <2>1. rest + bytes \in Int
    BY <1>3, <1>6
  <2> QED BY <2>1, <1>5, EvictedProperties, Zenon
<1>8. OldestBytes(added)[n] \in Nat
  BY <1>5, <1>7, OldestBytesType
<1> HIDE DEF n
<1>9. \/ entries' = others /\ totalBytes' = rest
      \/ /\ entries' = SubSeq(added, n + 1, Len(added))
         /\ totalBytes' = rest + bytes - OldestBytes(added)[n]
  BY DEF Store, bytes, others, rest, new, added, n
<1>10. totalBytes' \in Int
  BY <1>3, <1>6, <1>8, <1>9
<1>11. /\ entries' \in Seq(Entries)
       /\ UniqueRules(entries')
       /\ Len(entries') <= MaximumEntries
       /\ \A i \in DOMAIN entries' :
            entries'[i] = new \/ \E j \in DOMAIN others : entries'[i] = others[j]
  <2>1. CASE entries' = others
    <3>1. Len(others) \in Nat /\ Len(entries) \in Nat
      BY <1>1, <1>2, LenProperties
    <3> QED BY <3>1, <2>1, <1>1, <1>2, BoundsAssumption
  <2>2. CASE entries' = SubSeq(added, n + 1, Len(added))
    <3>1. /\ entries' \in Seq(Entries)
          /\ UniqueRules(entries')
          /\ Len(entries') = Len(added) - n
          /\ Among(entries', added)
      BY <2>2, <1>5, <1>7, DropOldestMap
    <3> QED BY <3>1, <1>5, <1>7 DEF Among
  <2> QED BY <2>1, <2>2, <1>9
<1>12. EntryOK(new)
  BY DEF EntryOK, new
<1>13. ASSUME NEW i \in DOMAIN entries'
       PROVE  EntryOK(entries[i])'
  <2>1. EntryOK(entries'[i])
    <3>1. CASE entries'[i] = new
      BY <3>1, <1>12
    <3>2. ASSUME NEW j \in DOMAIN others, entries'[i] = others[j]
          PROVE  EntryOK(entries'[i])
      BY <3>2, <1>2 DEF Among, IInv, EntriesInv
    <3> QED BY <3>1, <3>2, <1>11
  <2> QED BY <2>1 DEF EntryOK, Fresh
<1>14. ASSUME NEW i \in DOMAIN entries'
       PROVE  \/ /\ entries'[i].rule = r /\ entries'[i].src = src
                 /\ entries'[i].content = content
              \/ \E j \in DOMAIN entries : entries'[i] = entries[j]
  <2>1. new.rule = r /\ new.src = src /\ new.content = content
    BY DEF new
  <2>2. CASE entries'[i] = new
    BY <2>1, <2>2
  <2>3. ASSUME NEW j \in DOMAIN others, entries'[i] = others[j]
        PROVE  \E k \in DOMAIN entries : entries'[i] = entries[k]
    BY <2>3, <1>2 DEF Among
  <2> QED BY <2>2, <2>3, <1>11
<1> QED BY <1>10, <1>11, <1>13, <1>14 DEF EntriesInv, UniqueRules

\* Joining or starting a refresh for an idle request.
LEMMA RefreshKeeps ==
  ASSUME IInv, NEW q \in Requests, NEW r \in Rules, NEW d \in Descriptors,
         request[q].state = "idle", Refresh(q, r, d),
         UNCHANGED <<epoch, versions, disk, since>>
  PROVE  /\ load' \in [Requests -> Loads]
         /\ inFlight' \subseteq Requests
         /\ LoadsInv'
         /\ InFlightInv'
         /\ \A l \in Requests : load[l].state # "none" => load'[l].state # "none"
         /\ \A l \in Requests \ {q} : load'[l] = load[l]
         /\ \A l \in (IF Existing(r, d) # {} THEN Existing(r, d) ELSE {q}) :
               l \in Requests /\ load'[l].state # "none"
<1>1. /\ load \in [Requests -> Loads] /\ inFlight \subseteq Requests
      /\ LoadsInv /\ InFlightInv /\ load[q].state = "none"
      /\ epoch \in Nat /\ versions \in [Rules -> Nat]
  BY DEF IInv, TypeOK, RequestsInv, RequestOK
<1>2. CASE Existing(r, d) # {}
  <2>1. UNCHANGED <<load, inFlight>>
    BY <1>2 DEF Refresh
  <2>2. \A l \in Existing(r, d) : l \in Requests /\ load[l].state # "none"
    BY <1>1 DEF Existing, InFlightInv, RegisteredOK
  <2>3. LoadsInv'
    BY <1>1, <2>1 DEF LoadsInv, LoadOK, Matches, Reading
  <2>4. InFlightInv'
    BY <1>1, <2>1 DEF InFlightInv, RegisteredOK, SameKey, Fresh
  <2> QED BY <1>1, <1>2, <2>1, <2>2, <2>3, <2>4
<1>3. CASE Existing(r, d) = {}
  <2> DEFINE new == [state |-> "reading", finished |-> FALSE, rule |-> r, src |-> d,
                     version |-> versions[r], epoch |-> epoch,
                     content |-> [k \in Kinds |-> IF d[k] = None THEN None ELSE Pending]]
  <2>1. load' = [load EXCEPT ![q] = new] /\ inFlight' = inFlight \cup {q}
    BY <1>3 DEF Refresh, StartLoad
  <2>2. new \in Loads
    BY <1>1 DEF Loads, Readings
  <2>3. Fresh(r, d, new.content) /\ Matches(d, new.content)
    BY ReadingAssumption DEF Fresh, Matches
  <2>4. /\ new.state = "reading" /\ ~new.finished /\ new.rule = r /\ new.src = d
        /\ new.version = versions[r] /\ new.epoch = epoch
    OBVIOUS
  <2> HIDE DEF new
  <2>5. load' \in [Requests -> Loads] /\ inFlight' \subseteq Requests /\ load'[q] = new
        /\ \A l \in Requests \ {q} : load'[l] = load[l]
    BY <1>1, <2>1, <2>2
  <2>6. q \notin inFlight
    BY <1>1 DEF InFlightInv, RegisteredOK
  <2>7. LoadsInv'
    <3> SUFFICES ASSUME NEW l \in Requests PROVE LoadOK(l)'
      BY DEF LoadsInv
    <3>1. CASE l = q
      BY <3>1, <1>1, <2>1, <2>3, <2>4, <2>5 DEF LoadOK, Reading
    <3>2. CASE l # q
      <4>1. LoadOK(l) /\ load'[l] = load[l]
        BY <3>2, <1>1, <2>5 DEF LoadsInv
      <4> QED BY <4>1, <2>1 DEF LoadOK, Matches, Reading
    <3> QED BY <3>1, <3>2
  <2>8. ASSUME NEW l \in inFlight' PROVE RegisteredOK(l)'
    <3>1. CASE l = q
      BY <3>1, <1>1, <2>3, <2>4, <2>5 DEF RegisteredOK, Fresh
    <3>2. CASE l # q
      <4>1. RegisteredOK(l) /\ load'[l] = load[l]
        BY <3>2, <1>1, <2>1, <2>5 DEF InFlightInv
      <4> QED BY <4>1 DEF RegisteredOK, Fresh
    <3> QED BY <3>1, <3>2
  <2>9. \A l \in inFlight : ~(load[l].rule = r /\ load[l].version = versions[r] /\ load[l].src = d)
    BY <1>3 DEF Existing
  <2>10. ASSUME NEW l \in inFlight', NEW m \in inFlight', SameKey(l, m)'
         PROVE  l = m
    BY <2>10, <1>1, <2>1, <2>4, <2>5, <2>6, <2>9 DEF SameKey, InFlightInv
  <2>11. InFlightInv'
    BY <2>8, <2>10 DEF InFlightInv
  <2> QED BY <1>1, <1>3, <2>4, <2>5, <2>7, <2>11
<1> QED BY <1>2, <1>3

\* Settling one running load with null, or with what it read.
LEMMA SettleKeeps ==
  ASSUME IInv, NEW l \in Requests, Reading(l),
         \/ SettleNull(l)
         \/ /\ load' = [load EXCEPT ![l].state = "snapshot"]
            /\ load[l].content \in Contents,
         UNCHANGED <<epoch, versions, disk, since, inFlight, request>>
  PROVE  /\ load' \in [Requests -> Loads]
         /\ LoadsInv'
         /\ InFlightInv'
         /\ RequestsInv'
<1>1. /\ load \in [Requests -> Loads] /\ inFlight \subseteq Requests
      /\ LoadsInv /\ InFlightInv /\ RequestsInv /\ load[l].state = "reading"
  BY DEF IInv, TypeOK, Reading
<1>2. load[l] \in Loads
  BY <1>1
<1>3. /\ load'[l].state \in {"snapshot", "null"}
      /\ load'[l] \in Loads
      /\ load'[l].finished = load[l].finished
      /\ load'[l].rule = load[l].rule
      /\ load'[l].src = load[l].src
      /\ load'[l].version = load[l].version
      /\ load'[l].epoch = load[l].epoch
      /\ \/ load'[l].content = load[l].content
         \/ load'[l].state = "null" /\ load'[l].content = NoContent
      /\ load'[l].state = "snapshot" => load'[l].content \in Contents
  <2>1. CASE SettleNull(l)
    <3>1. load'[l] = [load[l] EXCEPT !.state = "null", !.content = NoContent]
      BY <2>1, <1>1 DEF SettleNull
    <3>2. NoContent \in [Kinds -> Readings]
      BY DEF NoContent, Readings
    <3> QED BY <3>1, <3>2, <1>2 DEF Loads
  <2>2. CASE load' = [load EXCEPT ![l].state = "snapshot"] /\ load[l].content \in Contents
    <3>1. load'[l] = [load[l] EXCEPT !.state = "snapshot"]
      BY <2>2, <1>1
    <3> QED BY <3>1, <2>2, <1>2 DEF Loads
  <2> QED BY <2>1, <2>2
<1>4. load' \in [Requests -> Loads] /\ \A m \in Requests \ {l} : load'[m] = load[m]
  BY <1>1, <1>3 DEF SettleNull
<1>5. LoadsInv'
  <2> SUFFICES ASSUME NEW m \in Requests PROVE LoadOK(m)'
    BY DEF LoadsInv
  <2>1. LoadOK(m)
    BY <1>1 DEF LoadsInv
  <2>2. CASE m = l
    BY <2>1, <2>2, <1>1, <1>3 DEF LoadOK, Reading, Matches
  <2>3. CASE m # l
    <3>1. load'[m] = load[m]
      BY <2>3, <1>4
    <3> QED BY <3>1, <2>1 DEF LoadOK, Reading, Matches
  <2> QED BY <2>2, <2>3
<1>6. InFlightInv'
  <2>1. ASSUME NEW m \in inFlight PROVE RegisteredOK(m)'
    <3>1. RegisteredOK(m) /\ m \in Requests
      BY <1>1 DEF InFlightInv
    <3>2. CASE m = l
      <4>1. load'[l].version = versions[load[l].rule] =>
               Fresh(load[l].rule, load[l].src, load'[l].content)
        BY <3>1, <3>2, <1>3, ReadingAssumption DEF RegisteredOK, Fresh, NoContent
      <4> QED BY <3>1, <3>2, <4>1, <1>3 DEF RegisteredOK, Fresh
    <3>3. CASE m # l
      <4>1. load'[m] = load[m]
        BY <3>1, <3>3, <1>4
      <4> QED BY <4>1, <3>1 DEF RegisteredOK, Fresh
    <3> QED BY <3>2, <3>3
  <2>2. ASSUME NEW a \in inFlight, NEW b \in inFlight, SameKey(a, b)'
        PROVE  a = b
    <3>1. SameKey(a, b)
      BY <2>2, <1>1, <1>3, <1>4 DEF SameKey
    <3> QED BY <3>1, <1>1 DEF InFlightInv
  <2> QED BY <2>1, <2>2 DEF InFlightInv
<1>7. RequestsInv'
  BY <1>1, <1>3, <1>4 DEF RequestsInv, RequestOK
<1> QED BY <1>4, <1>5, <1>6, <1>7
-----------------------------------------------------------------------------
(* One lemma per action *)

\* A new cache satisfies the invariant.
LEMMA InitIInv == Init => IInv
<1> SUFFICES ASSUME Init PROVE IInv
  OBVIOUS
<1>1. NoLoad \in Loads
  BY BoundsAssumption DEF NoLoad, NoContent, Loads, Readings
<1>2. TypeOK
  BY <1>1, BoundsAssumption DEF Init, TypeOK, Versions
<1>3. EntriesInv
  BY BoundsAssumption DEF Init, EntriesInv, UniqueRules
<1> QED BY <1>2, <1>3 DEF IInv, Init, SinceInv, LoadsInv, LoadOK, Reading, NoLoad,
           InFlightInv, RequestsInv, RequestOK

\* A newer file keeps every reading between the last invalidation and the disk.
LEMMA EditStep ==
  ASSUME IInv, NEW p \in Paths, Edit(p)
  PROVE  IInv'
<1> USE DEF IInv
<1>1. /\ disk \in [Paths -> Versions] /\ disk' \in [Paths -> Versions]
      /\ \A x \in Paths : disk[x] <= disk'[x]
  BY BoundsAssumption DEF TypeOK, Edit, Versions
<1>2. TypeOK'
  BY <1>1 DEF TypeOK, Edit
<1>3. SinceInv'
  <2>1. \A r \in Rules, x \in Paths : since[r][x] \in Versions
    BY DEF TypeOK
  <2> QED BY <1>1, <2>1 DEF SinceInv, Edit, Versions
<1>4. ASSUME NEW r, NEW src \in Descriptors, NEW content, Fresh(r, src, content)
      PROVE  Fresh(r, src, content)'
  <2> SUFFICES ASSUME NEW k \in Kinds, src[k] # None, content[k] \in Versions
               PROVE  since[r][src[k]] <= content[k] /\ content[k] <= disk'[src[k]]
    BY DEF Fresh, Edit
  <2>1. src[k] \in Paths
    BY DescriptorAssumption
  <2> QED BY <1>1, <1>4, <2>1 DEF Fresh, Versions
<1>5. EntriesInv'
  <2>1. ASSUME NEW i \in DOMAIN entries PROVE EntryOK(entries[i])'
    <3>1. entries[i] \in Entries
      BY LenProperties, ElementOfSeq DEF TypeOK
    <3>2. EntryOK(entries[i])
      BY DEF EntriesInv
    <3> QED BY <1>4, <3>1, <3>2 DEF EntryOK, Entries, Matches, Edit
  <2> QED BY <2>1 DEF EntriesInv, UniqueRules, Edit
<1>6. LoadsInv'
  BY DEF LoadsInv, LoadOK, Reading, Matches, Edit
<1>7. InFlightInv'
  <2>1. ASSUME NEW l \in inFlight PROVE RegisteredOK(l)'
    <3>1. RegisteredOK(l)
      BY DEF InFlightInv
    <3> QED BY <1>4, <3>1 DEF RegisteredOK, Edit
  <2> QED BY <2>1 DEF InFlightInv, SameKey, Edit
<1>8. RequestsInv'
  BY DEF RequestsInv, RequestOK, Edit
<1> QED BY <1>2, <1>3, <1>5, <1>6, <1>7, <1>8

\* A touched entry is the same entry; the refresh behind it is current.
LEMMA ResolveHitStep ==
  ASSUME IInv, NEW q \in Requests, NEW r \in Rules, NEW d \in Descriptors,
         ResolveHit(q, r, d)
  PROVE  IInv'
<1>1. /\ request[q].state = "idle" /\ Refresh(q, r, d)
      /\ UNCHANGED <<disk, totalBytes, versions, epoch, since>>
      /\ activeDescriptors' = [activeDescriptors EXCEPT ![r] = d]
  BY DEF ResolveHit
<1>2. /\ load' \in [Requests -> Loads] /\ inFlight' \subseteq Requests
      /\ LoadsInv' /\ InFlightInv'
      /\ \A l \in Requests : load[l].state # "none" => load'[l].state # "none"
      /\ \A l \in Requests \ {q} : load'[l] = load[l]
  BY <1>1, RefreshKeeps
<1>3. PICK i \in RuleAt(entries, r) :
         /\ entries[i].src = d
         /\ entries' = Append(RemoveAt(entries, i), entries[i])
         /\ request' = [request EXCEPT ![q] =
                [state |-> "answered", load |-> None,
                 answer |-> [rule |-> r, src |-> d, content |-> entries[i].content]]]
  BY DEF ResolveHit
<1>4. /\ entries \in Seq(Entries) /\ UniqueRules(entries)
      /\ Len(entries) <= MaximumEntries
      /\ i \in DOMAIN entries /\ entries[i].rule = r
  BY DEF IInv, TypeOK, EntriesInv, RuleAt
<1>5. entries[i] \in Entries /\ EntryOK(entries[i])
  BY <1>4, LenProperties, ElementOfSeq DEF IInv, EntriesInv
<1> DEFINE rest == RemoveAt(entries, i)
<1>6. /\ rest \in Seq(Entries) /\ Len(rest) = Len(entries) - 1
      /\ UniqueRules(rest) /\ Among(rest, entries)
      /\ \A j \in DOMAIN rest : rest[j].rule # entries[i].rule
  BY <1>4, RemoveAtMap
<1> HIDE DEF rest
<1>7. /\ entries' \in Seq(Entries)
      /\ Len(entries') = Len(rest) + 1
      /\ UniqueRules(entries')
      /\ \A k \in DOMAIN entries' :
            entries'[k] = entries[i] \/ \E j \in DOMAIN rest : entries'[k] = rest[j]
  BY <1>3, <1>5, <1>6, AppendMap DEF rest
<1>8. EntriesInv'
  <2>1. Len(entries') <= MaximumEntries
    <3>1. Len(entries) \in Nat
      BY <1>4, LenProperties
    <3> QED BY <3>1, <1>4, <1>6, <1>7, BoundsAssumption
  <2>2. ASSUME NEW k \in DOMAIN entries' PROVE EntryOK(entries[k])'
    <3>1. PICK j \in DOMAIN entries : entries'[k] = entries[j]
      BY <1>4, <1>6, <1>7 DEF Among
    <3>2. entries[j] \in Entries /\ EntryOK(entries[j])
      BY <1>4, LenProperties, ElementOfSeq DEF IInv, EntriesInv
    <3>3. entries[j].rule = r => entries[j].src = d
      BY <1>3, <1>4 DEF UniqueRules
    <3>4. activeDescriptors'[entries[j].rule] = entries[j].src
      BY <1>1, <3>2, <3>3 DEF EntryOK, Entries, IInv, TypeOK
    <3> QED BY <1>1, <3>1, <3>2, <3>4 DEF EntryOK, Fresh, Matches
  <2> QED BY <1>7, <2>1, <2>2 DEF EntriesInv, UniqueRules
<1>9. [rule |-> r, src |-> d, content |-> entries[i].content] \in Snapshots
  BY <1>5 DEF Entries, Snapshots
<1>10. TypeOK'
  BY <1>1, <1>2, <1>3, <1>7, <1>9 DEF IInv, TypeOK
<1>11. RequestsInv'
  <2> SUFFICES ASSUME NEW p \in Requests PROVE RequestOK(p)'
    BY DEF RequestsInv
  <2>1. request \in [Requests -> [state : {"idle", "waiting", "answered"},
              load : Requests \cup {None}, answer : Snapshots \cup {NoAnswer, Refused}]]
        /\ RequestOK(p)
    BY DEF IInv, TypeOK, RequestsInv
  <2>2. CASE p = q
    BY <2>1, <2>2, <1>3 DEF RequestOK
  <2>3. CASE p # q
    <3>1. request'[p] = request[p] /\ load'[p] = load[p]
      BY <2>1, <2>3, <1>2, <1>3
    <3> QED BY <3>1, <2>1, <1>2 DEF RequestOK
  <2> QED BY <2>2, <2>3
<1>12. SinceInv'
  BY <1>1 DEF IInv, SinceInv
<1> QED BY <1>2, <1>8, <1>10, <1>11, <1>12 DEF IInv

\* The obsolete entry is gone before the new descriptor becomes active.
LEMMA ResolveMissStep ==
  ASSUME IInv, NEW q \in Requests, NEW r \in Rules, NEW d \in Descriptors,
         ResolveMiss(q, r, d)
  PROVE  IInv'
<1>1. /\ request[q].state = "idle" /\ Refresh(q, r, d) /\ RemoveEntry(r)
      /\ UNCHANGED <<disk, versions, epoch, since>>
      /\ activeDescriptors' = [activeDescriptors EXCEPT ![r] = d]
  BY DEF ResolveMiss
<1>2. /\ load' \in [Requests -> Loads] /\ inFlight' \subseteq Requests
      /\ LoadsInv' /\ InFlightInv'
      /\ \A l \in Requests : load[l].state # "none" => load'[l].state # "none"
      /\ \A l \in Requests \ {q} : load'[l] = load[l]
      /\ \A l \in (IF Existing(r, d) # {} THEN Existing(r, d) ELSE {q}) :
            l \in Requests /\ load'[l].state # "none"
  BY <1>1, RefreshKeeps
<1>3. PICK l \in (IF Existing(r, d) # {} THEN Existing(r, d) ELSE {q}) :
         request' = [request EXCEPT ![q] =
                       [state |-> "waiting", load |-> l, answer |-> NoAnswer]]
  BY DEF ResolveMiss
<1>4. l \in Requests /\ load'[l].state # "none"
  BY <1>2
<1>5. /\ entries' \in Seq(Entries) /\ totalBytes' \in Int /\ EntriesInv'
  <2>1. activeDescriptors \in [Rules -> Descriptors \cup {None}]
    BY DEF IInv, TypeOK
  <2> QED BY <2>1, <1>1, RemoveKeeps
<1>6. TypeOK'
  BY <1>1, <1>2, <1>3, <1>4, <1>5 DEF IInv, TypeOK
<1>7. RequestsInv'
  <2> SUFFICES ASSUME NEW p \in Requests PROVE RequestOK(p)'
    BY DEF RequestsInv
  <2>1. request \in [Requests -> [state : {"idle", "waiting", "answered"},
              load : Requests \cup {None}, answer : Snapshots \cup {NoAnswer, Refused}]]
        /\ RequestOK(p)
    BY DEF IInv, TypeOK, RequestsInv
  <2>2. CASE p = q
    BY <2>1, <2>2, <1>3, <1>4 DEF RequestOK
  <2>3. CASE p # q
    <3>1. request'[p] = request[p] /\ load'[p] = load[p]
      BY <2>1, <2>3, <1>2, <1>3
    <3> QED BY <3>1, <2>1, <1>2 DEF RequestOK
  <2> QED BY <2>2, <2>3
<1>8. SinceInv'
  BY <1>1 DEF IInv, SinceInv
<1> QED BY <1>2, <1>5, <1>6, <1>7, <1>8 DEF IInv

\* A reading made now is as fresh as the disk.
LEMMA ReadSourceStep ==
  ASSUME IInv, NEW l \in Requests, NEW k \in Kinds, ReadSource(l, k)
  PROVE  IInv'
<1>1. /\ load[l].state = "reading" /\ load[l].content[k] = Pending
      /\ UNCHANGED <<disk, entries, totalBytes, inFlight, versions,
                     activeDescriptors, epoch, request, since>>
  BY DEF ReadSource, Reading
<1>2. PICK c \in {disk[load[l].src[k]], Failed} :
         load' = [load EXCEPT ![l].content[k] = c]
  BY DEF ReadSource
<1>3. /\ load \in [Requests -> Loads] /\ load[l] \in Loads /\ LoadOK(l)
      /\ disk \in [Paths -> Versions]
  BY DEF IInv, TypeOK, LoadsInv
<1>4. load[l].rule \in Rules /\ load[l].src \in Descriptors
      /\ Matches(load[l].src, load[l].content) /\ load[l].content \in [Kinds -> Readings]
  BY <1>1, <1>3 DEF LoadOK, Loads
<1>5. load[l].src[k] \in Paths
  BY <1>1, <1>4, DescriptorAssumption, ReadingAssumption DEF Matches
<1>6. c \in Readings /\ c # None /\ (c \in Versions => c = disk[load[l].src[k]])
  BY <1>3, <1>5, ReadingAssumption DEF Readings
<1>7. /\ load' \in [Requests -> Loads]
      /\ \A m \in Requests \ {l} : load'[m] = load[m]
      /\ load'[l] = [load[l] EXCEPT !.content = [load[l].content EXCEPT ![k] = c]]
  <2>1. load'[l] = [load[l] EXCEPT !.content = [load[l].content EXCEPT ![k] = c]]
    BY <1>2, <1>3
  <2>2. [load[l].content EXCEPT ![k] = c] \in [Kinds -> Readings]
    BY <1>4, <1>6
  <2>3. load'[l] \in Loads
    BY <2>1, <2>2, <1>3 DEF Loads
  <2> QED BY <2>1, <2>3, <1>2, <1>3
<1>8. /\ load'[l].state = "reading"
      /\ load'[l].finished = load[l].finished
      /\ load'[l].rule = load[l].rule
      /\ load'[l].src = load[l].src
      /\ load'[l].version = load[l].version
      /\ load'[l].epoch = load[l].epoch
      /\ load'[l].content = [load[l].content EXCEPT ![k] = c]
  BY <1>1, <1>3, <1>7 DEF Loads
<1>9. Matches(load[l].src, load'[l].content)
  BY <1>4, <1>5, <1>6, <1>8, DescriptorAssumption DEF Matches
<1>10. ASSUME Fresh(load[l].rule, load[l].src, load[l].content)
       PROVE  Fresh(load[l].rule, load[l].src, load'[l].content)
  <2> SUFFICES ASSUME NEW j \in Kinds, load[l].src[j] # None, load'[l].content[j] \in Versions
               PROVE  /\ since[load[l].rule][load[l].src[j]] <= load'[l].content[j]
                      /\ load'[l].content[j] <= disk[load[l].src[j]]
    BY DEF Fresh
  <2>1. CASE j = k
    <3>1. load'[l].content[j] = disk[load[l].src[k]]
      BY <2>1, <1>4, <1>6, <1>8
    <3>2. since[load[l].rule][load[l].src[k]] <= disk[load[l].src[k]]
      BY <1>4, <1>5 DEF IInv, SinceInv
    <3>3. disk[load[l].src[k]] \in Nat
      BY <1>3, <1>5 DEF Versions
    <3> QED BY <2>1, <3>1, <3>2, <3>3
  <2>2. CASE j # k
    BY <2>2, <1>4, <1>8, <1>10 DEF Fresh
  <2> QED BY <2>1, <2>2
<1>11. LoadsInv'
  <2> SUFFICES ASSUME NEW m \in Requests PROVE LoadOK(m)'
    BY DEF LoadsInv
  <2>1. CASE m = l
    BY <2>1, <1>1, <1>3, <1>4, <1>8, <1>9 DEF LoadOK, Reading, Matches
  <2>2. CASE m # l
    BY <2>2, <1>1, <1>7 DEF IInv, LoadsInv, LoadOK, Reading, Matches
  <2> QED BY <2>1, <2>2
<1>12. InFlightInv'
  <2>1. ASSUME NEW m \in inFlight PROVE RegisteredOK(m)'
    <3>1. RegisteredOK(m) /\ m \in Requests
      BY DEF IInv, InFlightInv, TypeOK
    <3>2. CASE m = l
      BY <3>1, <3>2, <1>1, <1>8, <1>10 DEF RegisteredOK, Fresh
    <3>3. CASE m # l
      <4>1. load'[m] = load[m]
        BY <3>1, <3>3, <1>7
      <4> QED BY <4>1, <3>1, <1>1 DEF RegisteredOK, Fresh
    <3> QED BY <3>2, <3>3
  <2>2. ASSUME NEW a \in inFlight, NEW b \in inFlight, SameKey(a, b)'
        PROVE  a = b
    <3>1. SameKey(a, b)
      BY <2>2, <1>7, <1>8 DEF SameKey, IInv, TypeOK
    <3> QED BY <3>1 DEF IInv, InFlightInv
  <2> QED BY <2>1, <2>2, <1>1 DEF InFlightInv
<1>13. RequestsInv'
  BY <1>1, <1>7, <1>8 DEF IInv, RequestsInv, RequestOK
<1>14. TypeOK' /\ SinceInv' /\ EntriesInv'
  BY <1>1, <1>7 DEF IInv, TypeOK, SinceInv, EntriesInv, UniqueRules, EntryOK, Fresh, Matches
<1> QED BY <1>11, <1>12, <1>13, <1>14 DEF IInv

\* Only a load of the present epoch and version stores its snapshot.
LEMMA PublishStep ==
  ASSUME IInv, NEW l \in Requests, Publish(l)
  PROVE  IInv'
<1>1. /\ Reading(l) /\ ReadComplete(l)
      /\ UNCHANGED <<disk, inFlight, versions, activeDescriptors, epoch, request, since>>
  BY DEF Publish
<1>2. /\ load[l] \in Loads /\ LoadOK(l)
      /\ load[l].rule \in Rules /\ load[l].src \in Descriptors
      /\ Matches(load[l].src, load[l].content)
  BY <1>1 DEF IInv, TypeOK, LoadsInv, LoadOK, Reading
<1>3. SinceInv'
  BY <1>1 DEF IInv, SinceInv
<1>4. CASE ~isCurrent(l)
  <2>1. SettleNull(l) /\ UNCHANGED <<entries, totalBytes>>
    BY <1>4 DEF Publish
  <2>2. load' \in [Requests -> Loads] /\ LoadsInv' /\ InFlightInv' /\ RequestsInv'
    BY <2>1, <1>1, SettleKeeps
  <2>3. TypeOK' /\ EntriesInv'
    BY <2>1, <2>2, <1>1 DEF IInv, TypeOK, EntriesInv, UniqueRules, EntryOK, Fresh, Matches
  <2> QED BY <2>2, <2>3, <1>3 DEF IInv
<1>5. CASE isCurrent(l) /\ ReadFailed(l)
  <2>1. SettleNull(l) /\ RemoveEntry(load[l].rule)
    BY <1>5 DEF Publish
  <2>2. load' \in [Requests -> Loads] /\ LoadsInv' /\ InFlightInv' /\ RequestsInv'
    BY <2>1, <1>1, SettleKeeps
  <2>3. entries' \in Seq(Entries) /\ totalBytes' \in Int /\ EntriesInv'
    BY <2>1, <1>1, <1>2, RemoveKeeps
  <2>4. TypeOK'
    BY <2>2, <2>3, <1>1 DEF IInv, TypeOK
  <2> QED BY <2>2, <2>3, <2>4, <1>3 DEF IInv
<1>6. CASE isCurrent(l) /\ ~ReadFailed(l)
  <2>1. /\ Store(load[l].rule, load[l].src, load[l].content)
        /\ load' = [load EXCEPT ![l].state = "snapshot"]
    BY <1>6 DEF Publish
  <2>2. load[l].content \in Contents
    BY <1>1, <1>2, <1>6 DEF ReadComplete, ReadFailed, Loads, Readings, Contents
  <2>3. load' \in [Requests -> Loads] /\ LoadsInv' /\ InFlightInv' /\ RequestsInv'
    BY <2>1, <2>2, <1>1, SettleKeeps
  <2>4. Fresh(load[l].rule, load[l].src, load[l].content)
    <3>1. l \in inFlight
      BY <1>1, <1>2, <1>6 DEF LoadOK, isCurrent
    <3> QED BY <3>1, <1>6 DEF IInv, InFlightInv, RegisteredOK, isCurrent
  <2>5. entries' \in Seq(Entries) /\ totalBytes' \in Int /\ EntriesInv'
    BY <2>1, <2>2, <2>4, <1>1, <1>2, <1>6, StoreKeeps DEF isCurrent
  <2>6. TypeOK'
    BY <2>3, <2>5, <1>1 DEF IInv, TypeOK
  <2> QED BY <2>3, <2>5, <2>6, <1>3 DEF IInv
<1> QED BY <1>4, <1>5, <1>6

\* A rejected load removes the entry only if it is current.
LEMMA RejectStep ==
  ASSUME IInv, NEW l \in Requests, Reject(l)
  PROVE  IInv'
<1>1. /\ Reading(l) /\ SettleNull(l)
      /\ UNCHANGED <<disk, inFlight, versions, activeDescriptors, epoch, request, since>>
  BY DEF Reject
<1>2. load[l].rule \in Rules
  BY <1>1 DEF IInv, LoadsInv, LoadOK, Reading
<1>3. load' \in [Requests -> Loads] /\ LoadsInv' /\ InFlightInv' /\ RequestsInv'
  BY <1>1, SettleKeeps
<1>4. entries' \in Seq(Entries) /\ totalBytes' \in Int /\ EntriesInv'
  <2>1. CASE isCurrent(l)
    <3>1. RemoveEntry(load[l].rule)
      BY <2>1 DEF Reject
    <3> QED BY <3>1, <1>1, <1>2, RemoveKeeps
  <2>2. CASE ~isCurrent(l)
    <3>1. UNCHANGED <<entries, totalBytes>>
      BY <2>2 DEF Reject
    <3> QED BY <3>1, <1>1 DEF IInv, TypeOK, EntriesInv, UniqueRules, EntryOK, Fresh, Matches
  <2> QED BY <2>1, <2>2
<1> QED BY <1>1, <1>3, <1>4 DEF IInv, TypeOK, SinceInv

\* Unregistering a settled load touches no other registration.
LEMMA FinallyStep ==
  ASSUME IInv, NEW l \in Requests, Finally(l)
  PROVE  IInv'
<1>1. /\ Settled(l) /\ ~load[l].finished /\ inFlight' = inFlight \ {l}
      /\ UNCHANGED <<disk, entries, totalBytes, versions, activeDescriptors, epoch,
                     request, since>>
      /\ load' = [load EXCEPT ![l] =
             IF @.state = "null" THEN [NoLoad EXCEPT !.state = "null", !.finished = TRUE]
             ELSE [@ EXCEPT !.finished = TRUE]]
  BY DEF Finally
<1>2. load \in [Requests -> Loads] /\ load[l] \in Loads /\ LoadOK(l)
  BY DEF IInv, TypeOK, LoadsInv
<1>3. /\ load'[l] \in Loads
      /\ load'[l].state = load[l].state
      /\ load[l].state # "null" =>
            /\ load'[l].rule = load[l].rule
            /\ load'[l].src = load[l].src
            /\ load'[l].content = load[l].content
  <2>1. CASE load[l].state = "null"
    <3>1. load'[l] = [NoLoad EXCEPT !.state = "null", !.finished = TRUE]
      BY <2>1, <1>1, <1>2
    <3>2. load'[l].state = "null" /\ load'[l] =
            [state |-> "null", finished |-> TRUE, rule |-> None, src |-> None,
             version |-> 0, epoch |-> 0, content |-> NoContent]
      BY <3>1 DEF NoLoad
    <3>3. NoContent \in [Kinds -> Readings]
      BY DEF NoContent, Readings
    <3>4. load'[l] \in Loads
      BY <3>2, <3>3 DEF Loads
    <3> QED BY <3>2, <3>4, <2>1
  <2>2. CASE load[l].state # "null"
    <3>1. load'[l] = [load[l] EXCEPT !.finished = TRUE]
      BY <2>2, <1>1, <1>2
    <3> QED BY <3>1, <2>2, <1>2 DEF Loads
  <2> QED BY <2>1, <2>2
<1>4. load' \in [Requests -> Loads] /\ \A m \in Requests \ {l} : load'[m] = load[m]
  BY <1>1, <1>2, <1>3
<1>5. LoadsInv'
  <2> SUFFICES ASSUME NEW m \in Requests PROVE LoadOK(m)'
    BY DEF LoadsInv
  <2>1. CASE m = l
    BY <2>1, <1>1, <1>2, <1>3 DEF LoadOK, Reading, Settled, Matches
  <2>2. CASE m # l
    BY <2>2, <1>1, <1>4 DEF IInv, LoadsInv, LoadOK, Reading, Matches
  <2> QED BY <2>1, <2>2
<1>6. InFlightInv'
  <2>1. ASSUME NEW m \in inFlight' PROVE RegisteredOK(m)'
    <3>1. m \in inFlight /\ m # l /\ m \in Requests
      BY <1>1 DEF IInv, TypeOK
    <3>2. load'[m] = load[m] /\ RegisteredOK(m)
      BY <3>1, <1>4 DEF IInv, InFlightInv
    <3> QED BY <3>2, <1>1 DEF RegisteredOK, Fresh
  <2>2. ASSUME NEW a \in inFlight', NEW b \in inFlight', SameKey(a, b)'
        PROVE  a = b
    <3>1. a \in inFlight /\ b \in inFlight /\ SameKey(a, b)
      BY <2>2, <1>1, <1>4 DEF SameKey, IInv, TypeOK
    <3> QED BY <3>1 DEF IInv, InFlightInv
  <2> QED BY <2>1, <2>2 DEF InFlightInv
<1>7. RequestsInv'
  BY <1>1, <1>3, <1>4 DEF IInv, RequestsInv, RequestOK, Settled
<1>8. TypeOK' /\ SinceInv' /\ EntriesInv'
  BY <1>1, <1>4 DEF IInv, TypeOK, SinceInv, EntriesInv, UniqueRules, EntryOK, Fresh, Matches
<1> QED BY <1>5, <1>6, <1>7, <1>8 DEF IInv

\* The continuation of a page changes only that page's request.
LEMMA ReturnStep ==
  ASSUME IInv, NEW q \in Requests, Return(q)
  PROVE  IInv'
<1>1. /\ request[q].state = "waiting" /\ load[request[q].load].finished
      /\ UNCHANGED <<disk, entries, totalBytes, inFlight, versions,
                     activeDescriptors, epoch, load, since>>
      /\ request' = [request EXCEPT ![q].state = "answered",
                                    ![q].answer = ResultOf(request[q].load)]
  BY DEF Return
<1> DEFINE l == request[q].load
<1>2. /\ request \in [Requests -> [state : {"idle", "waiting", "answered"},
              load : Requests \cup {None}, answer : Snapshots \cup {NoAnswer, Refused}]]
      /\ RequestsInv /\ LoadsInv
  BY DEF IInv, TypeOK
<1>3. l \in Requests /\ LoadOK(l)
  BY <1>1, <1>2 DEF RequestsInv, RequestOK, LoadsInv
<1>4. ResultOf(l) \in Snapshots \cup {Refused}
  BY <1>3 DEF ResultOf, Snapshot, Snapshots, LoadOK
<1>5. /\ request'[q] = [state |-> "answered", load |-> l, answer |-> ResultOf(l)]
      /\ \A p \in Requests \ {q} : request'[p] = request[p]
      /\ request' \in [Requests -> [state : {"idle", "waiting", "answered"},
              load : Requests \cup {None}, answer : Snapshots \cup {NoAnswer, Refused}]]
  BY <1>1, <1>2, <1>4
<1>6. TypeOK' /\ SinceInv' /\ EntriesInv' /\ LoadsInv' /\ InFlightInv'
  BY <1>1, <1>5 DEF IInv, TypeOK, SinceInv, EntriesInv, UniqueRules, EntryOK, Fresh,
     Matches, LoadsInv, LoadOK, Reading, InFlightInv, RegisteredOK, SameKey
<1>7. RequestsInv'
  BY <1>1, <1>2, <1>5 DEF RequestsInv, RequestOK
<1> QED BY <1>6, <1>7 DEF IInv

\* After invalidate no registered load carries the rule's new version.
LEMMA invalidateStep ==
  ASSUME IInv, NEW r \in Rules, invalidate(r)
  PROVE  IInv'
<1>1. /\ RemoveEntry(r)
      /\ activeDescriptors' = [activeDescriptors EXCEPT ![r] = None]
      /\ versions' = [versions EXCEPT ![r] = @ + 1]
      /\ since' = [since EXCEPT ![r] = disk]
      /\ UNCHANGED <<disk, inFlight, epoch, load, request>>
  BY DEF invalidate
<1>2. /\ activeDescriptors \in [Rules -> Descriptors \cup {None}]
      /\ versions \in [Rules -> Nat]
      /\ since \in [Rules -> [Paths -> Versions]]
      /\ disk \in [Paths -> Versions]
  BY DEF IInv, TypeOK
<1>3. entries' \in Seq(Entries) /\ totalBytes' \in Int /\ EntriesInv'
  <2>1. \A x \in Rules \ {r} : /\ activeDescriptors'[x] = activeDescriptors[x]
                             /\ since'[x] = since[x]
    BY <1>1, <1>2
  <2> QED BY <1>1, <2>1, RemoveKeeps
<1>4. TypeOK'
  BY <1>1, <1>2, <1>3 DEF IInv, TypeOK
<1>5. SinceInv'
  BY <1>1, <1>2 DEF IInv, SinceInv, Versions
<1>6. InFlightInv'
  <2>1. ASSUME NEW l \in inFlight PROVE RegisteredOK(l)'
    <3>1. RegisteredOK(l) /\ load[l].version \in Nat
      BY DEF IInv, TypeOK, InFlightInv, Loads
    <3>2. CASE load[l].rule = r
      <4>1. load[l].version < versions'[r]
        BY <3>1, <3>2, <1>1, <1>2 DEF RegisteredOK
      <4>2. versions'[r] \in Nat
        BY <1>1, <1>2
      <4> QED BY <3>1, <3>2, <4>1, <4>2, <1>1 DEF RegisteredOK
    <3>3. CASE load[l].rule # r
      BY <3>1, <3>3, <1>1, <1>2 DEF RegisteredOK, Fresh
    <3> QED BY <3>2, <3>3
  <2> QED BY <2>1, <1>1 DEF IInv, InFlightInv, SameKey
<1>7. LoadsInv' /\ RequestsInv'
  BY <1>1 DEF IInv, LoadsInv, LoadOK, Reading, Matches, RequestsInv, RequestOK
<1> QED BY <1>3, <1>4, <1>5, <1>6, <1>7 DEF IInv

\* After clear every running load is of an older epoch.
LEMMA clearStep ==
  ASSUME IInv, clear
  PROVE  IInv'
<1>1. /\ entries' = << >> /\ inFlight' = {} /\ totalBytes' = 0
      /\ activeDescriptors' = [r \in Rules |-> None]
      /\ versions' = [r \in Rules |-> 0]
      /\ epoch' = epoch + 1
      /\ since' = [r \in Rules |-> disk]
      /\ UNCHANGED <<disk, load, request>>
  BY DEF clear
<1>2. TypeOK'
  BY <1>1 DEF IInv, TypeOK
<1>3. EntriesInv'
  BY <1>1, BoundsAssumption DEF EntriesInv, UniqueRules
<1>4. SinceInv'
  BY <1>1 DEF IInv, TypeOK, SinceInv, Versions
<1>5. LoadsInv'
  <2> SUFFICES ASSUME NEW l \in Requests PROVE LoadOK(l)'
    BY DEF LoadsInv
  <2>1. LoadOK(l) /\ load[l] \in Loads /\ epoch \in Nat
    BY DEF IInv, LoadsInv, TypeOK
  <2>2. load[l].epoch \in Nat
    BY <2>1 DEF Loads
  <2>3. Reading(l) => load[l].epoch <= epoch' /\ load[l].epoch # epoch'
    BY <2>1, <2>2, <1>1 DEF LoadOK
  <2> QED BY <2>1, <2>3, <1>1 DEF LoadOK, Reading, Matches
<1>6. InFlightInv' /\ RequestsInv'
  BY <1>1 DEF IInv, InFlightInv, RequestsInv, RequestOK
<1> QED BY <1>2, <1>3, <1>4, <1>5, <1>6 DEF IInv
-----------------------------------------------------------------------------
(* The theorems *)

\* Every step keeps the invariant.
LEMMA NextIInv == IInv /\ [Next]_vars => IInv'
<1> SUFFICES ASSUME IInv, [Next]_vars PROVE IInv'
  OBVIOUS
<1>1. ASSUME NEW p \in Paths, Edit(p) PROVE IInv'
  BY <1>1, EditStep
<1>2. ASSUME NEW q \in Requests, resolve(q) PROVE IInv'
  BY <1>2, ResolveHitStep, ResolveMissStep DEF resolve
<1>3. ASSUME NEW l \in Requests, NEW k \in Kinds, ReadSource(l, k) PROVE IInv'
  BY <1>3, ReadSourceStep
<1>4. ASSUME NEW l \in Requests, Publish(l) PROVE IInv'
  BY <1>4, PublishStep
<1>5. ASSUME NEW l \in Requests, Reject(l) PROVE IInv'
  BY <1>5, RejectStep
<1>6. ASSUME NEW l \in Requests, Finally(l) PROVE IInv'
  BY <1>6, FinallyStep
<1>7. ASSUME NEW q \in Requests, Return(q) PROVE IInv'
  BY <1>7, ReturnStep
<1>8. ASSUME NEW r \in Rules, invalidate(r) PROVE IInv'
  BY <1>8, invalidateStep
<1>9. CASE clear
  BY <1>9, clearStep
<1>10. CASE UNCHANGED vars
  BY <1>10 DEF vars, IInv, TypeOK, SinceInv, EntriesInv, UniqueRules, EntryOK, Fresh,
     Matches, LoadsInv, LoadOK, Reading, InFlightInv, RegisteredOK, SameKey,
     RequestsInv, RequestOK
<1> QED BY <1>1, <1>2, <1>3, <1>4, <1>5, <1>6, <1>7, <1>8, <1>9, <1>10 DEF Next

\* IInv holds in every reachable state.
THEOREM Invariance == Spec => []IInv
BY InitIInv, NextIInv, PTL DEF Spec

\* The state of the cache is well typed: in particular the byte counter stays an
\* integer through every removal and eviction of background/injection-source-cache.ts.
THEOREM TypeCorrect == Spec => []TypeOK
<1>1. IInv => TypeOK
  BY DEF IInv
<1> QED BY <1>1, Invariance, PTL

\* Whatever the interleaving of refreshes, invalidations and clears, the cache only
\* retains content of the active descriptor read since the rule's last invalidation.
THEOREM NothingStaleIsCached == Spec => []EntriesCurrent
<1>1. IInv => EntriesCurrent
  <2> SUFFICES ASSUME IInv, NEW i \in DOMAIN entries
               PROVE  /\ activeDescriptors[entries[i].rule] = entries[i].src
                      /\ \A k \in Kinds : entries[i].src[k] # None =>
                            entries[i].content[k] >= since[entries[i].rule][entries[i].src[k]]
    BY DEF EntriesCurrent
  <2>1. entries[i] \in Entries /\ EntryOK(entries[i])
    BY LenProperties, ElementOfSeq DEF IInv, TypeOK, EntriesInv
  <2>2. ASSUME NEW k \in Kinds, entries[i].src[k] # None
        PROVE  entries[i].content[k] >= since[entries[i].rule][entries[i].src[k]]
    <3>1. entries[i].content[k] \in Versions
      BY <2>1, <2>2 DEF EntryOK, Matches, Entries, Contents
    <3>2. since[entries[i].rule][entries[i].src[k]] <= entries[i].content[k]
      BY <2>1, <2>2, <3>1 DEF EntryOK, Fresh
    <3> QED BY <3>2
  <2> QED BY <2>1, <2>2 DEF EntryOK
<1> QED BY <1>1, Invariance, PTL

\* No generation of a descriptor is ever read by two loads at a time.
THEOREM RefreshesAreShared == Spec => []NoDuplicateRefresh
<1>1. IInv => NoDuplicateRefresh
  <2> SUFFICES ASSUME IInv, NEW l \in Requests, NEW m \in Requests,
                      Outstanding(l), Outstanding(m),
                      load[l].rule = load[m].rule, load[l].src = load[m].src
               PROVE  l = m
    BY DEF NoDuplicateRefresh
  <2>1. l \in inFlight /\ m \in inFlight
    BY DEF IInv, LoadsInv, LoadOK, Outstanding
  <2>2. SameKey(l, m)
    BY DEF SameKey, Outstanding
  <2> QED BY <2>1, <2>2 DEF IInv, InFlightInv
<1> QED BY <1>1, Invariance, PTL
-----------------------------------------------------------------------------
(* The bytes of the Map *)

\* One entry more is its bytes more.
LEMMA OldestBytesStep ==
  ASSUME NEW es \in Seq(Entries), NEW n \in 1..Len(es)
  PROVE  /\ OldestBytes(es)[n] = OldestBytes(es)[n - 1] + es[n].byteLength
         /\ es[n].byteLength \in Nat
<1>1. Len(es) \in Nat /\ n \in 0..Len(es) /\ n # 0
  BY LenProperties
<1>2. es[n] \in Entries
  BY ElementOfSeq
<1>3. es[n].byteLength \in Nat
  BY <1>2 DEF Entries
<1> QED BY <1>1, <1>3, OldestBytesDef

\* From a to c in es, and from b to d in fs, are entries of the same lengths.
Alike(es, a, c, fs, b, d) ==
    /\ a <= c /\ c <= Len(es) /\ d <= Len(fs) /\ c - a = d - b
    /\ \A j \in 1..(c - a) : es[a + j].byteLength = fs[b + j].byteLength

\* Two stretches of entries of the same lengths hold the same bytes.
LEMMA SameStretch ==
  ASSUME NEW es \in Seq(Entries), NEW fs \in Seq(Entries),
         NEW a \in Nat, NEW b \in Nat, NEW c \in Nat, NEW d \in Nat,
         Alike(es, a, c, fs, b, d)
  PROVE  OldestBytes(es)[c] - OldestBytes(es)[a]
            = OldestBytes(fs)[d] - OldestBytes(fs)[b]
<1> USE DEF Alike
<1>0. PICK n \in Nat : n = c - a
  OBVIOUS
<1> DEFINE A(j) == OldestBytes(es)[a + j]
           B(j) == OldestBytes(fs)[b + j]
           Bad == {j \in 0..n : A(j) - A(0) # B(j) - B(0)}
<1>1. Len(es) \in Nat /\ Len(fs) \in Nat /\ a + n = c /\ b + n = d
  BY <1>0, LenProperties
<1>2. \A j \in 0..n : A(j) \in Nat /\ B(j) \in Nat
  <2>1. \A j \in 0..n : a + j \in 0..Len(es) /\ b + j \in 0..Len(fs)
    BY <1>1
  <2> QED BY <2>1, OldestBytesType
<1>3. ASSUME NEW j \in 1..n
      PROVE  /\ A(j) = A(j - 1) + es[a + j].byteLength
             /\ B(j) = B(j - 1) + es[a + j].byteLength
             /\ es[a + j].byteLength \in Nat
  <2>1. /\ a + j \in 1..Len(es) /\ (a + j) - 1 = a + (j - 1) /\ j \in 1..(c - a)
        /\ b + j \in 1..Len(fs) /\ (b + j) - 1 = b + (j - 1)
    BY <1>0, <1>1
  <2>2. PICK k \in 1..Len(es) : k = a + j
    BY <2>1
  <2>3. PICK l \in 1..Len(fs) : l = b + j
    BY <2>1
  <2>4. /\ OldestBytes(es)[k] = OldestBytes(es)[k - 1] + es[k].byteLength
        /\ es[k].byteLength \in Nat
        /\ OldestBytes(fs)[l] = OldestBytes(fs)[l - 1] + fs[l].byteLength
    BY OldestBytesStep
  <2>5. es[k].byteLength = fs[l].byteLength
    BY <2>1, <2>2, <2>3
  <2> QED BY <2>1, <2>2, <2>3, <2>4, <2>5
<1>4. /\ A(0) = OldestBytes(es)[a] /\ B(0) = OldestBytes(fs)[b]
      /\ A(n) = OldestBytes(es)[c] /\ B(n) = OldestBytes(fs)[d]
  BY <1>1
<1> HIDE DEF A, B
<1>5. CASE Bad = {}
  <2>1. A(n) - A(0) = B(n) - B(0)
    BY <1>5
  <2> QED BY <2>1, <1>4
<1>6. CASE Bad # {}
  <2>1. PICK j \in Bad : \A k \in Bad : j <= k
    <3>1. Bad \subseteq Nat
      OBVIOUS
    <3> HIDE DEF Bad
    <3> QED BY <3>1, <1>6, LeastNat
  <2>2. j \in 0..n /\ A(j) - A(0) # B(j) - B(0)
    OBVIOUS
  <2>3. j # 0 /\ j \in 1..n /\ j - 1 \in 0..n /\ ~(j <= j - 1)
    BY <2>2, <1>2
  <2>4. A(j - 1) - A(0) = B(j - 1) - B(0)
    BY <2>1, <2>3
  <2>5. /\ A(j) = A(j - 1) + es[a + j].byteLength
        /\ B(j) = B(j - 1) + es[a + j].byteLength
        /\ es[a + j].byteLength \in Nat
    BY <2>3, <1>3
  <2>6. A(j - 1) \in Nat /\ B(j - 1) \in Nat /\ A(0) \in Nat /\ B(0) \in Nat
    BY <2>3, <1>2
  <2>7. A(j) \in Nat /\ B(j) \in Nat
    BY <2>2, <1>2
  <2> HIDE DEF Bad
  <2>8. PICK x \in Nat, y \in Nat, step \in Nat :
           x = A(j - 1) /\ y = B(j - 1) /\ step = es[a + j].byteLength
    BY <2>5, <2>6
  <2>9. /\ x - A(0) = y - B(0) /\ A(j) = x + step /\ B(j) = y + step
        /\ A(0) \in Nat /\ B(0) \in Nat
    BY <2>4, <2>5, <2>6, <2>8
  <2>10. A(j) - A(0) = B(j) - B(0)
    BY <2>9
  <2> QED BY <2>2, <2>10
<1> QED BY <1>5, <1>6

\* The bytes of all entries.
BytesIn(es) == OldestBytes(es)[Len(es)]

LEMMA BytesInType ==
  ASSUME NEW es \in Seq(Entries)
  PROVE  BytesIn(es) \in Nat
BY OldestBytesType, LenProperties DEF BytesIn

LEMMA NoBytes == BytesIn(<< >>) = 0 /\ << >> \in Seq(Entries) /\ OldestBytes(<< >>)[0] = 0
<1>1. << >> \in Seq(Entries) /\ Len(<< >>) = 0 /\ 0 \in 0..Len(<< >>)
  BY EmptySeq
<1> QED BY <1>1, OldestBytesDef DEF BytesIn

LEMMA NoneOldest ==
  ASSUME NEW es \in Seq(Entries)
  PROVE  OldestBytes(es)[0] = 0
BY OldestBytesDef, LenProperties

LEMMA AppendBytes ==
  ASSUME NEW es \in Seq(Entries), NEW e \in Entries
  PROVE  BytesIn(Append(es, e)) = BytesIn(es) + e.byteLength
<1> DEFINE more == Append(es, e)
           n == Len(es)
<1>1. /\ more \in Seq(Entries) /\ Len(more) = n + 1 /\ n \in Nat
      /\ \A i \in 1..n : more[i] = es[i]
      /\ more[n + 1] = e
  BY AppendProperties, LenProperties
<1> HIDE DEF more, n
<1>2. /\ 0 \in Nat /\ 0 <= n /\ n <= Len(more) /\ n <= Len(es) /\ n - 0 = n - 0
      /\ \A j \in 1..(n - 0) : more[0 + j].byteLength = es[0 + j].byteLength
  BY <1>1 DEF n
<1>3. OldestBytes(more)[n] - OldestBytes(more)[0] = OldestBytes(es)[n] - OldestBytes(es)[0]
  <2> HIDE DEF n
  <2>1. Alike(more, 0, n, es, 0, n)
    BY <1>1, <1>2 DEF Alike
  <2>2. more \in Seq(Entries) /\ n \in Nat /\ 0 \in Nat
    BY <1>1
  <2> QED BY <2>1, <2>2, SameStretch
<1>4. /\ OldestBytes(more)[0] = 0 /\ OldestBytes(es)[0] = 0
      /\ OldestBytes(more)[n] \in Nat /\ OldestBytes(es)[n] \in Nat
  BY <1>1, NoneOldest, OldestBytesType DEF n
<1>5. OldestBytes(more)[n] = OldestBytes(es)[n]
  BY <1>1, <1>3, <1>4
<1>6. OldestBytes(more)[n + 1] = OldestBytes(more)[n] + e.byteLength
  <2>1. n + 1 \in 0..Len(more) /\ n + 1 # 0 /\ (n + 1) - 1 = n
    BY <1>1
  <2> QED BY <2>1, <1>1, OldestBytesDef
<1> QED BY <1>1, <1>5, <1>6 DEF BytesIn, more, n

LEMMA RemoveAtBytes ==
  ASSUME NEW es \in Seq(Entries), UniqueRules(es), NEW i \in DOMAIN es
  PROVE  BytesIn(RemoveAt(es, i)) = BytesIn(es) - es[i].byteLength /\ es[i].byteLength \in Nat
<1> DEFINE rest == RemoveAt(es, i)
           n == Len(es)
<1>1. n \in Nat /\ i \in 1..n /\ es[i] \in Entries /\ es[i].byteLength \in Nat
  <2>1. n \in Nat /\ i \in 1..n
    BY LenProperties
  <2>2. es[i] \in Entries
    BY <2>1, ElementOfSeq
  <2> QED BY <2>1, <2>2 DEF Entries
<1>2. /\ rest \in Seq(Entries) /\ Len(rest) = n - 1
      /\ \A j \in 1..(n - 1) : rest[j] = IF j < i THEN es[j] ELSE es[j + 1]
  BY RemoveAtMap
<1> HIDE DEF rest
<1>3. OldestBytes(rest)[i - 1] = OldestBytes(es)[i - 1]
  <2>1. /\ i - 1 \in Nat /\ 0 \in Nat /\ 0 <= i - 1
        /\ i - 1 <= Len(rest) /\ i - 1 <= Len(es)
    BY <1>1, <1>2
  <2>2. \A j \in 1..((i - 1) - 0) : rest[0 + j].byteLength = es[0 + j].byteLength
    <3> SUFFICES ASSUME NEW j \in 1..((i - 1) - 0)
                 PROVE  rest[0 + j].byteLength = es[0 + j].byteLength
      OBVIOUS
    <3>1. 0 + j = j /\ j \in 1..(n - 1) /\ j < i
      BY <1>1
    <3> QED BY <3>1, <1>2
  <2>3. OldestBytes(rest)[i - 1] - OldestBytes(rest)[0]
           = OldestBytes(es)[i - 1] - OldestBytes(es)[0]
    <3>1. PICK c \in Nat : c = i - 1
      BY <2>1
    <3>2. Alike(rest, 0, c, es, 0, c)
      BY <3>1, <2>1, <2>2 DEF Alike
    <3>3. OldestBytes(rest)[c] - OldestBytes(rest)[0]
             = OldestBytes(es)[c] - OldestBytes(es)[0]
      <4>1. rest \in Seq(Entries) /\ 0 \in Nat
        BY <1>2
      <4> QED BY <4>1, <3>2, SameStretch
    <3> QED BY <3>1, <3>3
  <2>4. i - 1 \in 0..Len(rest) /\ i - 1 \in 0..Len(es)
    BY <1>1, <1>2
  <2>5. /\ OldestBytes(rest)[0] = 0 /\ OldestBytes(es)[0] = 0
        /\ OldestBytes(rest)[i - 1] \in Nat /\ OldestBytes(es)[i - 1] \in Nat
    BY <2>4, <1>2, NoneOldest, OldestBytesType
  <2> QED BY <2>1, <2>3, <2>5
<1>4. OldestBytes(es)[i] = OldestBytes(es)[i - 1] + es[i].byteLength
  <2>1. i \in 0..Len(es) /\ i # 0
    BY <1>1
  <2> QED BY <2>1, OldestBytesDef
<1>5. OldestBytes(rest)[n - 1] - OldestBytes(rest)[i - 1] = OldestBytes(es)[n] - OldestBytes(es)[i]
  <2>1. /\ n - i \in Nat /\ i - 1 \in Nat /\ i \in Nat
        /\ n \in Nat /\ n - 1 \in Nat /\ i - 1 <= n - 1 /\ (n - 1) - (i - 1) = n - i
        /\ n - 1 <= Len(rest) /\ n <= Len(es)
    BY <1>1, <1>2
  <2>2. ASSUME NEW j \in 1..(n - i)
        PROVE  rest[(i - 1) + j].byteLength = es[i + j].byteLength
    <3>1. (i - 1) + j \in 1..(n - 1) /\ ~((i - 1) + j < i) /\ ((i - 1) + j) + 1 = i + j
      BY <1>1
    <3>2. PICK k \in 1..(n - 1) : k = (i - 1) + j
      BY <3>1
    <3>3. rest[k] = es[k + 1]
      BY <3>1, <3>2, <1>2
    <3> QED BY <3>1, <3>2, <3>3
  <2>3. PICK a \in Nat, c \in Nat : a = i - 1 /\ c = n - 1
    <3>1. i - 1 \in Nat /\ n - 1 \in Nat
      BY <2>1
    <3> QED BY <3>1
  <2>4. \A j \in 1..(c - a) : rest[a + j].byteLength = es[i + j].byteLength
    BY <2>1, <2>2, <2>3
  <2>5. a <= c /\ c <= Len(rest) /\ n <= Len(es) /\ c - a = n - i
    BY <2>1, <2>3
  <2>6. OldestBytes(rest)[c] - OldestBytes(rest)[a] = OldestBytes(es)[n] - OldestBytes(es)[i]
    <3> HIDE DEF n
    <3>1. Alike(rest, a, c, es, i, n)
      BY <2>4, <2>5 DEF Alike
    <3>2. rest \in Seq(Entries) /\ i \in Nat /\ n \in Nat
      BY <2>1, <1>2
    <3> QED BY <3>1, <3>2, SameStretch
  <2> QED BY <2>3, <2>6
<1>6. /\ OldestBytes(rest)[n - 1] \in Nat /\ OldestBytes(rest)[i - 1] \in Nat
      /\ OldestBytes(es)[n] \in Nat /\ OldestBytes(es)[i] \in Nat /\ OldestBytes(es)[i - 1] \in Nat
  <2>1. /\ n - 1 \in 0..Len(rest) /\ i - 1 \in 0..Len(rest)
        /\ n \in 0..Len(es) /\ i \in 0..Len(es) /\ i - 1 \in 0..Len(es)
    BY <1>1, <1>2
  <2> QED BY <2>1, <1>2, OldestBytesType
<1>7. OldestBytes(rest)[n - 1] = OldestBytes(es)[n] - es[i].byteLength
  BY <1>1, <1>3, <1>4, <1>5, <1>6
<1> QED BY <1>1, <1>2, <1>7 DEF BytesIn, rest

LEMMA DropOldestBytes ==
  ASSUME NEW es \in Seq(Entries), UniqueRules(es), NEW n \in 0..Len(es)
  PROVE  BytesIn(SubSeq(es, n + 1, Len(es))) = BytesIn(es) - OldestBytes(es)[n]
<1> DEFINE rest == SubSeq(es, n + 1, Len(es))
<1>1. /\ rest \in Seq(Entries) /\ Len(rest) = Len(es) - n
      /\ \A j \in 1..(Len(es) - n) : rest[j] = es[n + j]
      /\ Len(es) \in Nat
  BY DropOldestMap, LenProperties
<1> HIDE DEF rest
<1>2. PICK c \in Nat, d \in Nat : c = Len(rest) /\ d = Len(es)
  <2>1. Len(rest) \in Nat /\ Len(es) \in Nat
    BY <1>1, LenProperties
  <2> QED BY <2>1
<1>3. OldestBytes(rest)[c] - OldestBytes(rest)[0] = OldestBytes(es)[d] - OldestBytes(es)[n]
  <2>1. 0 \in Nat /\ n \in Nat /\ 0 <= c /\ c <= Len(rest) /\ d <= Len(es) /\ c - 0 = d - n
    BY <1>1, <1>2
  <2>2. \A j \in 1..(c - 0) : rest[0 + j].byteLength = es[n + j].byteLength
    <3> SUFFICES ASSUME NEW j \in 1..(c - 0)
                 PROVE  rest[0 + j].byteLength = es[n + j].byteLength
      OBVIOUS
    <3>1. 0 + j = j /\ j \in 1..(Len(es) - n)
      BY <1>1, <1>2
    <3> QED BY <3>1, <1>1
  <2>3. Alike(rest, 0, c, es, n, d)
    BY <2>1, <2>2 DEF Alike
  <2>4. rest \in Seq(Entries) /\ 0 \in Nat /\ n \in Nat
    BY <1>1, <2>1
  <2> QED BY <2>3, <2>4, SameStretch
<1>4. OldestBytes(rest)[0] = 0 /\ OldestBytes(rest)[Len(rest)] \in Nat
      /\ OldestBytes(es)[Len(es)] \in Nat /\ OldestBytes(es)[n] \in Nat
  <2>1. Len(rest) \in 0..Len(rest) /\ Len(es) \in 0..Len(es)
    BY <1>1
  <2> QED BY <2>1, <1>1, NoneOldest, OldestBytesType
<1>5. OldestBytes(rest)[Len(rest)] = OldestBytes(es)[Len(es)] - OldestBytes(es)[n]
  BY <1>1, <1>2, <1>3, <1>4
<1> QED BY <1>5 DEF BytesIn, rest

LEMMA WithoutBytes ==
  ASSUME NEW es \in Seq(Entries), UniqueRules(es), NEW r
  PROVE  BytesIn(Without(es, r)) = BytesIn(es) - BytesOf(es, r) /\ BytesOf(es, r) \in Nat
<1>1. BytesIn(es) \in Nat
  BY BytesInType
<1>2. CASE RuleAt(es, r) = {}
  BY <1>1, <1>2 DEF Without, BytesOf
<1>3. CASE RuleAt(es, r) # {}
  <2>1. PICK i \in DOMAIN es :
           Without(es, r) = RemoveAt(es, i) /\ BytesOf(es, r) = es[i].byteLength
    BY <1>3 DEF Without, BytesOf, RuleAt
  <2> QED BY <2>1, RemoveAtBytes
<1> QED BY <1>2, <1>3

\* What the eviction loop leaves is within the limit of bytes.
LEMMA EvictedBytes ==
  ASSUME NEW es \in Seq(Entries)
  PROVE  BytesIn(es) - OldestBytes(es)[Evicted(es, BytesIn(es))] <= MaximumBytes
<1> DEFINE n == Evicted(es, BytesIn(es))
<1>1. BytesIn(es) \in Nat
  BY BytesInType
<1>2. n = Len(es) \/ BytesIn(es) - OldestBytes(es)[n] <= MaximumBytes
  <2>1. PICK bytes \in Int : bytes = BytesIn(es)
    BY <1>1
  <2>2. \/ Evicted(es, bytes) = Len(es)
        \/ bytes - OldestBytes(es)[Evicted(es, bytes)] <= MaximumBytes
    BY EvictedProperties
  <2> QED BY <2>1, <2>2
<1>3. CASE n = Len(es)
  <2>1. OldestBytes(es)[n] = BytesIn(es)
    BY <1>3 DEF BytesIn
  <2> HIDE DEF n
  <2> QED BY <2>1, <1>1, BoundsAssumption DEF n
<1> QED BY <1>2, <1>3

\* The counter of the Map is exact and within the limit.
BytesInv == totalBytes = BytesIn(entries) /\ totalBytes <= MaximumBytes

LEMMA RemoveBytes ==
  ASSUME IInv, BytesInv, NEW r, RemoveEntry(r)
  PROVE  BytesInv'
<1>1. /\ entries \in Seq(Entries) /\ UniqueRules(entries)
      /\ entries' = Without(entries, r) /\ totalBytes' = totalBytes - BytesOf(entries, r)
  BY DEF IInv, TypeOK, EntriesInv, RemoveEntry
<1>2. BytesIn(Without(entries, r)) = BytesIn(entries) - BytesOf(entries, r)
      /\ BytesOf(entries, r) \in Nat /\ BytesIn(entries) \in Nat
  BY <1>1, WithoutBytes, BytesInType
<1>3. totalBytes' = BytesIn(entries') /\ totalBytes' <= MaximumBytes
  BY <1>1, <1>2, BoundsAssumption DEF BytesInv
<1> QED BY <1>3 DEF BytesInv, BytesIn, OldestBytes

LEMMA StoreBytes ==
  ASSUME IInv, BytesInv, NEW r \in Rules, NEW src \in Descriptors, NEW content \in Contents,
         Matches(src, content), Store(r, src, content)
  PROVE  BytesInv'
<1>1. entries \in Seq(Entries) /\ UniqueRules(entries)
  BY DEF IInv, TypeOK, EntriesInv
<1>2. snapshotByteLength(src, content) \in Nat
  <2>1. ASSUME NEW k \in Kinds PROVE KindBytes(src, content, k) \in Nat
    <3>1. src[k] # None => src[k] \in Paths /\ content[k] \in Versions
      BY DescriptorAssumption DEF Contents, Matches
    <3> QED BY <3>1, DescriptorAssumption DEF KindBytes
  <2> QED BY <2>1 DEF snapshotByteLength, Kinds
<1>3. PICK bytes \in Nat : bytes = snapshotByteLength(src, content)
  BY <1>2
<1>4. PICK new \in Entries :
         /\ new = [rule |-> r, src |-> src, content |-> content, byteLength |-> bytes]
         /\ new.rule = r /\ new.byteLength = bytes
  <2> DEFINE e == [rule |-> r, src |-> src, content |-> content, byteLength |-> bytes]
  <2>1. e \in Entries /\ e.rule = r /\ e.byteLength = bytes
    BY DEF Entries
  <2> QED BY <2>1
<1>5. PICK others \in Seq(Entries) : others = Without(entries, r)
  BY <1>1, WithoutMap
<1>6. /\ UniqueRules(others) /\ \A i \in DOMAIN others : others[i].rule # r
      /\ BytesIn(others) = totalBytes - BytesOf(entries, r) /\ BytesIn(others) \in Nat
      /\ BytesOf(entries, r) \in Nat /\ totalBytes \in Nat
  BY <1>1, <1>5, WithoutMap, WithoutBytes, BytesInType DEF BytesInv
<1>7. PICK added \in Seq(Entries) : added = Append(others, new)
  BY AppendProperties
<1>8. /\ UniqueRules(added) /\ BytesIn(added) = BytesIn(others) + bytes
  BY <1>4, <1>6, <1>7, AppendMap, AppendBytes
<1>9. PICK n \in 0..Len(added) : n = Evicted(added, BytesIn(added))
  <2>1. PICK all \in Int : all = BytesIn(added)
    BY BytesInType
  <2>2. Evicted(added, all) \in 0..Len(added)
    BY EvictedProperties
  <2> QED BY <2>1, <2>2
<1>10. /\ BytesIn(SubSeq(added, n + 1, Len(added))) = BytesIn(added) - OldestBytes(added)[n]
       /\ BytesIn(added) - OldestBytes(added)[n] <= MaximumBytes
  BY <1>8, <1>9, DropOldestBytes, EvictedBytes
<1>11. \/ entries' = others /\ totalBytes' = totalBytes - BytesOf(entries, r)
       \/ /\ entries' = SubSeq(added, n + 1, Len(added))
          /\ totalBytes' = totalBytes - BytesOf(entries, r) + bytes - OldestBytes(added)[n]
  BY <1>3, <1>4, <1>5, <1>6, <1>7, <1>8, <1>9 DEF Store
<1>12. totalBytes' = BytesIn(entries') /\ totalBytes' <= MaximumBytes
  <2>1. CASE entries' = others /\ totalBytes' = totalBytes - BytesOf(entries, r)
    BY <2>1, <1>6, BoundsAssumption DEF BytesInv
  <2>2. CASE /\ entries' = SubSeq(added, n + 1, Len(added))
             /\ totalBytes' = totalBytes - BytesOf(entries, r) + bytes - OldestBytes(added)[n]
    <3>1. OldestBytes(added)[n] \in Nat
      BY <1>9, OldestBytesType
    <3>2. totalBytes' = BytesIn(added) - OldestBytes(added)[n]
      BY <2>2, <3>1, <1>3, <1>6, <1>8
    <3> QED BY <2>2, <3>2, <1>10
  <2> QED BY <2>1, <2>2, <1>11
<1> QED BY <1>12 DEF BytesInv, BytesIn, OldestBytes

LEMMA NextBytes == IInv /\ BytesInv /\ [Next]_vars => BytesInv'
<1> SUFFICES ASSUME IInv, BytesInv, [Next]_vars PROVE BytesInv'
  OBVIOUS
<1>1. ASSUME UNCHANGED <<entries, totalBytes>> PROVE BytesInv'
  BY <1>1 DEF BytesInv, BytesIn, OldestBytes
<1>2. entries \in Seq(Entries) /\ UniqueRules(entries)
  BY DEF IInv, TypeOK, EntriesInv
<1>3. ASSUME NEW p \in Paths, Edit(p) PROVE BytesInv'
  BY <1>1, <1>3 DEF Edit
<1>4. ASSUME NEW q \in Requests, NEW r \in Rules, NEW d \in Descriptors, ResolveHit(q, r, d)
      PROVE  BytesInv'
  <2>1. PICK i \in DOMAIN entries : entries' = Append(RemoveAt(entries, i), entries[i])
    BY <1>4 DEF ResolveHit, RuleAt
  <2>2. /\ RemoveAt(entries, i) \in Seq(Entries) /\ entries[i] \in Entries
        /\ BytesIn(RemoveAt(entries, i)) = BytesIn(entries) - entries[i].byteLength
        /\ entries[i].byteLength \in Nat /\ BytesIn(entries) \in Nat
    <3>1. entries[i] \in Entries
      BY <1>2, ElementOfSeq, LenProperties
    <3> QED BY <3>1, <1>2, RemoveAtMap, RemoveAtBytes, BytesInType
  <2>3. BytesIn(entries') = BytesIn(entries)
    BY <2>1, <2>2, AppendBytes
  <2>4. totalBytes' = totalBytes
    BY <1>4 DEF ResolveHit
  <2> QED BY <2>3, <2>4 DEF BytesInv, BytesIn, OldestBytes
<1>5. ASSUME NEW q \in Requests, NEW r \in Rules, NEW d \in Descriptors, ResolveMiss(q, r, d)
      PROVE  BytesInv'
  BY <1>5, RemoveBytes DEF ResolveMiss
<1>6. ASSUME NEW l \in Requests, NEW k \in Kinds, ReadSource(l, k) PROVE BytesInv'
  BY <1>1, <1>6 DEF ReadSource
<1>7. ASSUME NEW l \in Requests, Publish(l) PROVE BytesInv'
  <2>1. Reading(l) /\ ReadComplete(l) /\ LoadOK(l) /\ load[l] \in Loads
    BY <1>7 DEF Publish, IInv, LoadsInv, TypeOK
  <2>2. CASE UNCHANGED <<entries, totalBytes>>
    BY <2>2, <1>1
  <2>3. CASE RemoveEntry(load[l].rule)
    BY <2>3, RemoveBytes
  <2>4. CASE ~ReadFailed(l) /\ Store(load[l].rule, load[l].src, load[l].content)
    <3>1. load[l].content \in Contents
      BY <2>1, <2>4 DEF ReadComplete, ReadFailed, Loads, Readings, Contents
    <3> QED BY <3>1, <2>1, <2>4, StoreBytes DEF LoadOK, Reading
  <2> QED BY <2>2, <2>3, <2>4, <1>7 DEF Publish
<1>8. ASSUME NEW l \in Requests, Reject(l) PROVE BytesInv'
  BY <1>1, <1>8, RemoveBytes DEF Reject
<1>9. ASSUME NEW l \in Requests, Finally(l) PROVE BytesInv'
  BY <1>1, <1>9 DEF Finally
<1>10. ASSUME NEW q \in Requests, Return(q) PROVE BytesInv'
  BY <1>1, <1>10 DEF Return
<1>11. ASSUME NEW r \in Rules, invalidate(r) PROVE BytesInv'
  BY <1>11, RemoveBytes DEF invalidate
<1>12. ASSUME clear PROVE BytesInv'
  <2>1. entries' = << >> /\ totalBytes' = 0
    BY <1>12 DEF clear
  <2>2. totalBytes' = BytesIn(entries') /\ totalBytes' <= MaximumBytes
    BY <2>1, NoBytes, BoundsAssumption
  <2> QED BY <2>2 DEF BytesInv, BytesIn, OldestBytes
<1>13. CASE UNCHANGED vars
  BY <1>1, <1>13 DEF vars
<1> QED BY <1>3, <1>4, <1>5, <1>6, <1>7, <1>8, <1>9, <1>10, <1>11, <1>12, <1>13
        DEF Next, resolve

\* The Map holds one entry per rule, stays within both limits, and its counter
\* is the bytes of what it holds, for any limits and lengths of files.
THEOREM TheCounterIsExact == Spec => []CacheBounded
<1>1. Init => BytesInv
  BY NoBytes, BoundsAssumption DEF Init, BytesInv
<1>2. IInv /\ BytesInv /\ [Next]_vars => BytesInv'
  BY NextBytes
<1>3. IInv /\ BytesInv => CacheBounded
  BY DEF IInv, BytesInv, BytesIn, EntriesInv, UniqueRules, CacheBounded
<1> QED BY <1>1, <1>2, <1>3, Invariance, PTL DEF Spec
-----------------------------------------------------------------------------
(* Entries only move forward *)

\* A registered load of the present version of its rule, still reading.
Live(l) ==
    /\ l \in inFlight
    /\ Reading(l)
    /\ load[l].version = versions[load[l].rule]

\* What the load has read is no older than the entry it is going to replace.
Behind(e, l) ==
    e.rule = load[l].rule /\ e.src = load[l].src =>
       \A k \in Kinds : e.src[k] # None /\ load[l].content[k] \in Versions =>
          e.content[k] <= load[l].content[k]

BackInv == \A l \in Requests, i \in DOMAIN entries : Live(l) => Behind(entries[i], l)

Onward ==
    \A i \in DOMAIN entries, j \in DOMAIN entries' :
       /\ entries[i].rule = entries'[j].rule
       /\ entries[i].src = entries'[j].src
       => \A k \in Kinds : entries[i].src[k] # None =>
            entries'[j].content[k] >= entries[i].content[k]

LEMMA CachedVersion ==
  ASSUME IInv, NEW i \in DOMAIN entries, NEW k \in Kinds, entries[i].src[k] # None
  PROVE  /\ entries[i].rule \in Rules /\ entries[i].src[k] \in Paths
         /\ entries[i].content[k] \in Versions /\ entries[i].content[k] \in Nat
         /\ entries[i].content[k] <= disk[entries[i].src[k]]
<1>1. entries[i] \in Entries /\ EntryOK(entries[i])
  <2>1. entries \in Seq(Entries)
    BY DEF IInv, TypeOK
  <2> QED BY <2>1, ElementOfSeq, LenProperties DEF IInv, EntriesInv
<1>2. entries[i].content[k] \in Versions
  BY <1>1, DescriptorAssumption DEF EntryOK, Matches, Entries, Contents
<1> QED BY <1>1, <1>2, DescriptorAssumption, BoundsAssumption
        DEF EntryOK, Fresh, Entries, Versions

\* A step that adds no entry replaces none by an older one.
LEMMA NoneAdded ==
  ASSUME IInv, Among(entries', entries)
  PROVE  Onward
<1> SUFFICES ASSUME NEW i \in DOMAIN entries, NEW j \in DOMAIN entries', NEW k \in Kinds,
                    entries[i].rule = entries'[j].rule, entries[i].src[k] # None
             PROVE  entries'[j].content[k] >= entries[i].content[k]
  BY DEF Onward
<1>1. PICK n \in DOMAIN entries : entries'[j] = entries[n]
  BY DEF Among
<1>2. n = i
  BY <1>1 DEF IInv, EntriesInv, UniqueRules
<1> QED BY <1>1, <1>2, CachedVersion

\* Loads that were there keep what they read, others have read nothing.
LEMMA KeepBack ==
  ASSUME BackInv, Among(entries', entries),
         \A l \in Requests : Live(l)' =>
            \/ /\ Live(l)
               /\ load'[l].rule = load[l].rule /\ load'[l].src = load[l].src
               /\ load'[l].content = load[l].content
            \/ \A k \in Kinds : load'[l].content[k] \notin Versions
  PROVE  BackInv'
<1> SUFFICES ASSUME NEW l \in Requests, NEW i \in DOMAIN entries', Live(l)'
             PROVE  Behind(entries[i], l)'
  BY DEF BackInv
<1>1. PICK n \in DOMAIN entries : entries'[i] = entries[n]
  BY DEF Among
<1>2. CASE \A k \in Kinds : load'[l].content[k] \notin Versions
  BY <1>2 DEF Behind
<1>3. CASE /\ Live(l)
           /\ load'[l].rule = load[l].rule /\ load'[l].src = load[l].src
           /\ load'[l].content = load[l].content
  <2>1. Behind(entries[n], l)
    BY <1>3 DEF BackInv
  <2> QED BY <2>1, <1>1, <1>3 DEF Behind
<1> QED BY <1>2, <1>3

LEMMA SameAmong ==
  ASSUME UNCHANGED entries PROVE Among(entries', entries)
BY DEF Among

LEMMA RemoveAmong ==
  ASSUME IInv, NEW r, RemoveEntry(r) PROVE Among(entries', entries)
<1>1. entries \in Seq(Entries) /\ UniqueRules(entries) /\ entries' = Without(entries, r)
  BY DEF IInv, TypeOK, EntriesInv, RemoveEntry
<1> QED BY <1>1, WithoutMap

\* Joining a refresh or starting one.
LEMMA RefreshBack ==
  ASSUME IInv, NEW q \in Requests, NEW r \in Rules, NEW d \in Descriptors,
         Refresh(q, r, d), UNCHANGED versions, NEW l \in Requests, Live(l)'
  PROVE  \/ /\ Live(l)
            /\ load'[l].rule = load[l].rule /\ load'[l].src = load[l].src
            /\ load'[l].content = load[l].content
         \/ \A k \in Kinds : load'[l].content[k] \notin Versions
<1>1. load \in [Requests -> Loads]
  BY DEF IInv, TypeOK
<1>2. CASE UNCHANGED <<load, inFlight>>
  BY <1>2 DEF Live, Reading
<1>3. CASE StartLoad(q, r, d)
  <2>1. CASE l = q
    <3>1. load'[q].content = [k \in Kinds |-> IF d[k] = None THEN None ELSE Pending]
      BY <1>1, <1>3 DEF StartLoad
    <3> QED BY <3>1, <2>1, ReadingAssumption
  <2>2. CASE l # q
    <3>1. load'[l] = load[l] /\ (l \in inFlight' => l \in inFlight)
      BY <1>1, <1>3, <2>2 DEF StartLoad
    <3> QED BY <3>1 DEF Live, Reading
  <2> QED BY <2>1, <2>2
<1> QED BY <1>2, <1>3 DEF Refresh

LEMMA HitBack ==
  ASSUME IInv, BackInv, NEW q \in Requests, NEW r \in Rules, NEW d \in Descriptors,
         ResolveHit(q, r, d)
  PROVE  BackInv' /\ Onward
<1>1. entries \in Seq(Entries) /\ UniqueRules(entries)
  BY DEF IInv, TypeOK, EntriesInv
<1>2. PICK i \in DOMAIN entries : entries' = Append(RemoveAt(entries, i), entries[i])
  BY DEF ResolveHit, RuleAt
<1>3. /\ RemoveAt(entries, i) \in Seq(Entries) /\ UniqueRules(RemoveAt(entries, i))
      /\ Among(RemoveAt(entries, i), entries)
      /\ \A j \in DOMAIN RemoveAt(entries, i) : RemoveAt(entries, i)[j].rule # entries[i].rule
      /\ entries[i] \in Entries
  BY <1>1, RemoveAtMap, ElementOfSeq, LenProperties
<1>4. \A j \in DOMAIN entries' :
         entries'[j] = entries[i]
         \/ \E n \in DOMAIN RemoveAt(entries, i) : entries'[j] = RemoveAt(entries, i)[n]
  BY <1>2, <1>3, AppendMap
<1>5. Among(entries', entries)
  BY <1>3, <1>4 DEF Among
<1>6. Refresh(q, r, d) /\ UNCHANGED versions
  BY DEF ResolveHit
<1> QED BY <1>5, <1>6, RefreshBack, KeepBack, NoneAdded

LEMMA MissBack ==
  ASSUME IInv, BackInv, NEW q \in Requests, NEW r \in Rules, NEW d \in Descriptors,
         ResolveMiss(q, r, d)
  PROVE  BackInv' /\ Onward
<1>1. Refresh(q, r, d) /\ UNCHANGED versions /\ RemoveEntry(r)
  BY DEF ResolveMiss
<1>2. Among(entries', entries)
  BY <1>1, RemoveAmong
<1> QED BY <1>1, <1>2, RefreshBack, KeepBack, NoneAdded

\* A file read now is as new as the disk, so no older than any entry.
LEMMA ReadSourceBack ==
  ASSUME IInv, BackInv, NEW l \in Requests, NEW k \in Kinds, ReadSource(l, k)
  PROVE  BackInv' /\ Onward
<1>1. /\ load[l].state = "reading" /\ load[l].content[k] = Pending
      /\ UNCHANGED <<entries, inFlight, versions>>
      /\ load \in [Requests -> Loads] /\ load[l] \in Loads
  BY DEF ReadSource, Reading, IInv, TypeOK
<1>2. PICK c \in {disk[load[l].src[k]], Failed} : load' = [load EXCEPT ![l].content[k] = c]
  BY DEF ReadSource
<1>3. \A m \in Requests \ {l} : load'[m] = load[m]
  BY <1>1, <1>2
<1>4. /\ load'[l].rule = load[l].rule /\ load'[l].src = load[l].src
      /\ load'[l].version = load[l].version /\ load'[l].state = load[l].state
      /\ \A j \in Kinds : load'[l].content[j] = IF j = k THEN c ELSE load[l].content[j]
  BY <1>1, <1>2 DEF Loads
<1>5. BackInv'
  <2> SUFFICES ASSUME NEW m \in Requests, NEW i \in DOMAIN entries', Live(m)'
               PROVE  Behind(entries[i], m)'
    BY DEF BackInv
  <2>1. i \in DOMAIN entries /\ entries'[i] = entries[i]
    BY <1>1
  <2>2. CASE m # l
    <3>1. Live(m) /\ load'[m] = load[m]
      BY <2>2, <1>1, <1>3 DEF Live, Reading
    <3>2. Behind(entries[i], m)
      BY <3>1, <2>1 DEF BackInv
    <3> QED BY <3>1, <3>2, <2>1 DEF Behind
  <2>3. CASE m = l
    <3>1. Live(l)
      BY <2>3, <1>1, <1>4 DEF Live, Reading
    <3>2. Behind(entries[i], l)
      BY <3>1, <2>1 DEF BackInv
    <3> SUFFICES ASSUME entries[i].rule = load[l].rule, entries[i].src = load[l].src,
                        NEW j \in Kinds, entries[i].src[j] # None,
                        load'[l].content[j] \in Versions
                 PROVE  entries[i].content[j] <= load'[l].content[j]
      BY <2>1, <2>3, <1>4 DEF Behind
    <3>3. CASE j = k
      <4>1. load'[l].content[j] = disk[load[l].src[k]]
        BY <3>3, <1>4, ReadingAssumption
      <4> QED BY <4>1, <3>3, <2>1, CachedVersion
    <3>4. CASE j # k
      BY <3>2, <3>4, <1>4 DEF Behind
    <3> QED BY <3>3, <3>4
  <2> QED BY <2>2, <2>3
<1> QED BY <1>1, <1>5, SameAmong, NoneAdded

\* Loads that settle are not live, and the others are as they were.
LEMMA SettleBack ==
  ASSUME IInv, NEW l \in Requests, UNCHANGED <<inFlight, versions>>,
         SettleNull(l) \/ load' = [load EXCEPT ![l].state = "snapshot"],
         NEW m \in Requests, Live(m)'
  PROVE  Live(m) /\ load'[m] = load[m] /\ m # l
<1>1. load \in [Requests -> Loads] /\ load[l] \in Loads
  BY DEF IInv, TypeOK
<1>2. load'[l].state # "reading" /\ (m # l => load'[m] = load[m])
  BY <1>1 DEF SettleNull, Loads
<1> QED BY <1>2 DEF Live, Reading

\* A snapshot is stored only by the one live load of its key.
LEMMA PublishBack ==
  ASSUME IInv, BackInv, NEW l \in Requests, Publish(l)
  PROVE  BackInv' /\ Onward
<1>1. /\ Reading(l) /\ ReadComplete(l) /\ LoadOK(l) /\ load[l] \in Loads
      /\ UNCHANGED <<disk, since, activeDescriptors, inFlight, versions>>
  BY DEF Publish, IInv, LoadsInv, TypeOK
<1>2. CASE Among(entries', entries) /\ SettleNull(l)
  BY <1>1, <1>2, SettleBack, KeepBack, NoneAdded
<1>3. CASE /\ isCurrent(l) /\ ~ReadFailed(l)
           /\ Store(load[l].rule, load[l].src, load[l].content)
           /\ load' = [load EXCEPT ![l].state = "snapshot"]
  <2>1. /\ load[l].rule \in Rules /\ load[l].src \in Descriptors
        /\ Matches(load[l].src, load[l].content)
        /\ l \in inFlight /\ load[l].version = versions[load[l].rule]
        /\ activeDescriptors[load[l].rule] = load[l].src
    BY <1>1, <1>3 DEF LoadOK, Reading, isCurrent
  <2>2. Fresh(load[l].rule, load[l].src, load[l].content) /\ Live(l)
    BY <2>1, <1>1 DEF IInv, InFlightInv, RegisteredOK, Live
  <2>3. load[l].content \in Contents
    BY <1>1, <1>3 DEF ReadComplete, ReadFailed, Loads, Readings, Contents
  <2>4. \A i \in DOMAIN entries' :
           \/ /\ entries'[i].rule = load[l].rule /\ entries'[i].src = load[l].src
              /\ entries'[i].content = load[l].content
           \/ \E j \in DOMAIN entries : entries'[i] = entries[j]
    <3>1. PICK r \in Rules, src \in Descriptors, content \in Contents :
             r = load[l].rule /\ src = load[l].src /\ content = load[l].content
      BY <2>1, <2>3
    <3> QED BY <3>1, <2>1, <2>2, <1>1, <1>3, StoreKeeps
  <2>5. ASSUME NEW m \in Requests, NEW i \in DOMAIN entries', Live(m)'
        PROVE  Behind(entries[i], m)'
    <3>1. Live(m) /\ load'[m] = load[m] /\ m # l
      BY <2>5, <1>1, <1>3, SettleBack
    <3>2. ~SameKey(m, l)
      BY <3>1, <2>1 DEF Live, IInv, InFlightInv
    <3>3. ~(load[m].rule = load[l].rule /\ load[m].src = load[l].src)
      BY <3>1, <3>2, <2>1 DEF Live, SameKey
    <3>4. CASE entries'[i].rule = load[l].rule /\ entries'[i].src = load[l].src
      BY <3>1, <3>3, <3>4 DEF Behind
    <3>5. ASSUME NEW j \in DOMAIN entries, entries'[i] = entries[j]
          PROVE  Behind(entries[i], m)'
      <4>1. Behind(entries[j], m)
        BY <3>1 DEF BackInv
      <4> QED BY <4>1, <3>1, <3>5 DEF Behind
    <3> QED BY <2>4, <3>4, <3>5
  <2>6. Onward
    <3> SUFFICES ASSUME NEW i \in DOMAIN entries, NEW j \in DOMAIN entries', NEW k \in Kinds,
                        entries[i].rule = entries'[j].rule, entries[i].src = entries'[j].src,
                        entries[i].src[k] # None
                 PROVE  entries'[j].content[k] >= entries[i].content[k]
      BY DEF Onward
    <3>1. CASE /\ entries'[j].rule = load[l].rule /\ entries'[j].src = load[l].src
               /\ entries'[j].content = load[l].content
      <4>1. load[l].content[k] \in Versions
        BY <3>1, <2>1, <2>3 DEF Matches, Contents
      <4>2. Behind(entries[i], l)
        BY <2>2 DEF BackInv
      <4>3. entries[i].content[k] <= load[l].content[k]
        BY <4>1, <4>2, <3>1 DEF Behind
      <4> QED BY <4>1, <4>3, <3>1, CachedVersion DEF Versions
    <3>2. ASSUME NEW n \in DOMAIN entries, entries'[j] = entries[n]
          PROVE  entries'[j].content[k] >= entries[i].content[k]
      <4>1. n = i
        BY <3>2 DEF IInv, EntriesInv, UniqueRules
      <4> QED BY <4>1, <3>2, CachedVersion
    <3> QED BY <2>4, <3>1, <3>2
  <2> QED BY <2>5, <2>6 DEF BackInv
<1>4. \/ Among(entries', entries) /\ SettleNull(l)
      \/ /\ isCurrent(l) /\ ~ReadFailed(l)
         /\ Store(load[l].rule, load[l].src, load[l].content)
         /\ load' = [load EXCEPT ![l].state = "snapshot"]
  BY SameAmong, RemoveAmong DEF Publish
<1> QED BY <1>2, <1>3, <1>4

LEMMA FinallyBack ==
  ASSUME IInv, BackInv, NEW l \in Requests, Finally(l)
  PROVE  BackInv' /\ Onward
<1>1. /\ load \in [Requests -> Loads] /\ load[l] \in Loads /\ Settled(l)
      /\ UNCHANGED <<entries, versions>> /\ inFlight' = inFlight \ {l}
      /\ \A m \in Requests \ {l} : load'[m] = load[m]
  BY DEF Finally, IInv, TypeOK
<1>2. \A m \in Requests : Live(m)' => Live(m) /\ load'[m] = load[m]
  BY <1>1 DEF Live, Reading
<1> QED BY <1>1, <1>2, SameAmong, KeepBack, NoneAdded

\* A load of an invalidated rule is of an older version from then on.
LEMMA invalidateBack ==
  ASSUME IInv, BackInv, NEW r \in Rules, invalidate(r)
  PROVE  BackInv' /\ Onward
<1>1. /\ RemoveEntry(r) /\ versions' = [versions EXCEPT ![r] = @ + 1]
      /\ UNCHANGED <<inFlight, load>> /\ versions \in [Rules -> Nat]
  BY DEF invalidate, IInv, TypeOK
<1>2. ASSUME NEW m \in Requests, Live(m)' PROVE Live(m)
  <2>1. m \in inFlight /\ Reading(m) /\ load[m].version = versions'[load[m].rule]
    BY <1>1, <1>2 DEF Live, Reading
  <2>2. load[m].rule \in Rules /\ load[m].version <= versions[load[m].rule]
        /\ load[m].version \in Nat
    BY <2>1 DEF IInv, InFlightInv, RegisteredOK, TypeOK, Loads
  <2>3. versions'[load[m].rule] = versions[load[m].rule]
    BY <2>1, <2>2, <1>1
  <2> QED BY <2>1, <2>3 DEF Live
<1>3. Among(entries', entries)
  BY <1>1, RemoveAmong
<1> QED BY <1>1, <1>2, <1>3, KeepBack, NoneAdded

LEMMA clearBack ==
  ASSUME IInv, BackInv, clear
  PROVE  BackInv' /\ Onward
<1>1. entries' = << >>
  BY DEF clear
<1>2. DOMAIN entries' = {}
  BY <1>1
<1> QED BY <1>2 DEF BackInv, Onward

LEMMA NextBack == IInv /\ BackInv /\ [Next]_vars => BackInv' /\ Onward
<1> SUFFICES ASSUME IInv, BackInv, [Next]_vars PROVE BackInv' /\ Onward
  OBVIOUS
<1>1. ASSUME UNCHANGED <<entries, inFlight, versions, load>> PROVE BackInv' /\ Onward
  <2>1. \A m \in Requests : Live(m)' => Live(m) /\ load'[m] = load[m]
    BY <1>1 DEF Live, Reading
  <2> QED BY <2>1, <1>1, SameAmong, KeepBack, NoneAdded
<1>2. ASSUME NEW p \in Paths, Edit(p) PROVE BackInv' /\ Onward
  BY <1>1, <1>2 DEF Edit
<1>3. ASSUME NEW q \in Requests, resolve(q) PROVE BackInv' /\ Onward
  BY <1>3, HitBack, MissBack DEF resolve
<1>4. ASSUME NEW l \in Requests, NEW k \in Kinds, ReadSource(l, k) PROVE BackInv' /\ Onward
  BY <1>4, ReadSourceBack
<1>5. ASSUME NEW l \in Requests, Publish(l) PROVE BackInv' /\ Onward
  BY <1>5, PublishBack
<1>6. ASSUME NEW l \in Requests, Reject(l) PROVE BackInv' /\ Onward
  <2>1. Among(entries', entries) /\ SettleNull(l) /\ UNCHANGED <<inFlight, versions>>
    BY <1>6, SameAmong, RemoveAmong DEF Reject
  <2> QED BY <2>1, SettleBack, KeepBack, NoneAdded
<1>7. ASSUME NEW l \in Requests, Finally(l) PROVE BackInv' /\ Onward
  BY <1>7, FinallyBack
<1>8. ASSUME NEW q \in Requests, Return(q) PROVE BackInv' /\ Onward
  BY <1>1, <1>8 DEF Return
<1>9. ASSUME NEW r \in Rules, invalidate(r) PROVE BackInv' /\ Onward
  BY <1>9, invalidateBack
<1>10. ASSUME clear PROVE BackInv' /\ Onward
  BY <1>10, clearBack
<1>11. CASE UNCHANGED vars
  BY <1>1, <1>11 DEF vars
<1> QED BY <1>2, <1>3, <1>4, <1>5, <1>6, <1>7, <1>8, <1>9, <1>10, <1>11 DEF Next

\* A cached snapshot is never replaced by an older reading of the same files,
\* however many loads, edits and invalidations interleave.
THEOREM EntriesMoveForward == Spec => NeverBackwards
<1>1. Init => BackInv
  BY DEF Init, BackInv
<1>2. IInv /\ BackInv /\ [Next]_vars => BackInv' /\ Onward
  BY NextBack
<1>3. Onward => [Onward]_vars
  OBVIOUS
<1> QED BY <1>1, <1>2, <1>3, Invariance, PTL DEF Spec, NeverBackwards, Onward
-----------------------------------------------------------------------------
(* SourceCache implements FreshSources *)

Answers == [q \in Requests |-> Answered(q)]

\* The answer of a request, case by case.
LEMMA AnsweredCases ==
  \A q \in Requests :
     /\ request[q].state # "waiting" => Answered(q) = request[q].answer
     /\ request[q].state = "waiting" /\ Settled(request[q].load) =>
           Answered(q) = ResultOf(request[q].load)
     /\ request[q].state = "waiting" /\ ~Settled(request[q].load) =>
           Answered(q) = NoAnswer
BY DEF Answered

\* A fresh, complete snapshot is a good answer of the abstract specification.
LEMMA FreshAnswer ==
  ASSUME NEW a \in Snapshots, Fresh(a.rule, a.src, a.content), Matches(a.src, a.content)
  PROVE  a # NoAnswer /\ a # Refused /\ Promise!FreshEnough(a)
<1>1. a # NoAnswer /\ a # Refused
  BY AnswerAssumption DEF Snapshots, Contents
<1>2. ASSUME NEW k \in Kinds, a.src[k] # None
      PROVE  since[a.rule][a.src[k]] <= a.content[k] /\ a.content[k] <= disk[a.src[k]]
  <2>1. a.content[k] \in Versions
    BY <1>2 DEF Matches, Snapshots, Contents
  <2> QED BY <2>1, <1>2 DEF Fresh
<1> QED BY <1>1, <1>2 DEF Promise!FreshEnough

\* The steps after which exactly the requests of qs are newly answered.
LEMMA AnswerStep ==
  ASSUME NEW qs \in SUBSET Requests, UNCHANGED <<disk, since>>,
         \A q \in qs : /\ Answered(q) = NoAnswer
                       /\ Answered(q)' # NoAnswer
                       /\ Answered(q)' # Refused => Promise!FreshEnough(Answered(q)'),
         \A q \in Requests \ qs : Answered(q)' = Answered(q)
  PROVE  Promise!Next
<1>1. Promise!Answer(qs)
  BY DEF Promise!Answer, Promise!vars
<1> QED BY <1>1 DEF Promise!Next

\* The answers of the next state, case by case.
LEMMA AnsweredNext ==
  \A q \in Requests :
     /\ request'[q].state # "waiting" => Answered(q)' = request'[q].answer
     /\ request'[q].state = "waiting" /\ Settled(request[q].load)' =>
           Answered(q)' = ResultOf(request[q].load)'
     /\ request'[q].state = "waiting" /\ ~Settled(request[q].load)' =>
           Answered(q)' = NoAnswer
BY DEF Answered

\* A request whose progress is unchanged, and whose load is, keeps its answer.
LEMMA SameAnswer ==
  ASSUME NEW q \in Requests, request'[q] = request[q],
         request[q].state = "waiting" =>
            load'[request[q].load] = load[request[q].load]
  PROVE  Answered(q)' = Answered(q)
BY DEF Answered, Settled, ResultOf, Snapshot

\* The result of a settled load registered for the present generation is either
\* nothing or fresh.
LEMMA SettledResult ==
  ASSUME IInv, NEW l \in inFlight, Settled(l),
         load[l].version = versions[load[l].rule]
  PROVE  /\ ResultOf(l) # NoAnswer
         /\ ResultOf(l) # Refused => Promise!FreshEnough(ResultOf(l))
<1>1. LoadOK(l) /\ RegisteredOK(l)
  BY DEF IInv, LoadsInv, InFlightInv, TypeOK
<1>2. CASE load[l].state = "snapshot"
  <2>1. Snapshot(l) \in Snapshots
    BY <1>1, <1>2 DEF Snapshot, Snapshots, LoadOK
  <2>2. /\ Fresh(Snapshot(l).rule, Snapshot(l).src, Snapshot(l).content)
        /\ Matches(Snapshot(l).src, Snapshot(l).content)
    BY <1>1, <1>2 DEF Snapshot, LoadOK, RegisteredOK
  <2> QED BY <2>1, <2>2, <1>2, FreshAnswer DEF ResultOf
<1>3. CASE load[l].state # "snapshot"
  BY <1>3, AnswerAssumption DEF ResultOf
<1> QED BY <1>2, <1>3

\* Settling a load answers exactly the requests that wait for it.
LEMMA SettleAnswers ==
  ASSUME IInv, NEW l \in Requests, Reading(l),
         UNCHANGED <<disk, since, request>>,
         \A m \in Requests \ {l} : load'[m] = load[m],
         \/ load'[l].state = "null"
         \/ /\ load'[l].state = "snapshot"
            /\ Snapshot(l)' = Snapshot(l)
            /\ load[l].content \in Contents
            /\ Fresh(load[l].rule, load[l].src, load[l].content)
  PROVE  Promise!Next
<1> DEFINE qs == {q \in Requests : request[q].state = "waiting" /\ request[q].load = l}
<1>1. /\ Settled(l)'
      /\ ResultOf(l)' # NoAnswer
      /\ ResultOf(l)' # Refused => Promise!FreshEnough(ResultOf(l)')
  <2>1. CASE load'[l].state = "null"
    BY <2>1, AnswerAssumption DEF Settled, ResultOf
  <2>2. CASE /\ load'[l].state = "snapshot"
             /\ Snapshot(l)' = Snapshot(l)
             /\ load[l].content \in Contents
             /\ Fresh(load[l].rule, load[l].src, load[l].content)
    <3>1. LoadOK(l)
      BY DEF IInv, LoadsInv
    <3>2. /\ Snapshot(l) \in Snapshots
          /\ Fresh(Snapshot(l).rule, Snapshot(l).src, Snapshot(l).content)
          /\ Matches(Snapshot(l).src, Snapshot(l).content)
      BY <2>2, <3>1 DEF Snapshot, Snapshots, LoadOK, Reading
    <3>3. ResultOf(l)' = Snapshot(l)
      BY <2>2 DEF ResultOf
    <3> QED BY <2>2, <3>2, <3>3, FreshAnswer DEF Settled
  <2> QED BY <2>1, <2>2
<1>2. ASSUME NEW q \in qs
      PROVE  /\ Answered(q) = NoAnswer
             /\ Answered(q)' # NoAnswer
             /\ Answered(q)' # Refused => Promise!FreshEnough(Answered(q)')
  <2>1. q \in Requests /\ request[q].state = "waiting" /\ request[q].load = l
    OBVIOUS
  <2>2. Answered(q) = NoAnswer
    BY <2>1, AnsweredCases DEF Reading, Settled
  <2>3. Answered(q)' = ResultOf(l)'
    BY <2>1, <1>1, AnsweredNext
  <2> QED BY <2>2, <2>3, <1>1
<1>3. ASSUME NEW q \in Requests \ qs
      PROVE  Answered(q)' = Answered(q)
  <2>1. request[q].state = "waiting" => request[q].load \in Requests \ {l}
    BY DEF IInv, RequestsInv, RequestOK
  <2> QED BY <2>1, SameAnswer
<1>4. qs \in SUBSET Requests
  OBVIOUS
<1> HIDE DEF qs
<1> QED BY <1>2, <1>3, <1>4, AnswerStep

\* A hit answers the asking page with a fresh entry.
LEMMA HitAnswers ==
  ASSUME IInv, NEW q \in Requests, NEW r \in Rules, NEW d \in Descriptors,
         ResolveHit(q, r, d)
  PROVE  Promise!Next
<1>1. request[q].state = "idle" /\ Refresh(q, r, d)
      /\ UNCHANGED <<disk, since, versions, epoch>>
  BY DEF ResolveHit
<1>2. PICK i \in RuleAt(entries, r) :
         /\ entries[i].src = d
         /\ request' = [request EXCEPT ![q] =
                [state |-> "answered", load |-> None,
                 answer |-> [rule |-> r, src |-> d, content |-> entries[i].content]]]
  BY DEF ResolveHit
<1>3. entries[i] \in Entries /\ EntryOK(entries[i]) /\ entries[i].rule = r
  BY LenProperties, ElementOfSeq DEF IInv, TypeOK, EntriesInv, RuleAt
<1> DEFINE a == [rule |-> r, src |-> d, content |-> entries[i].content]
<1>4. a \in Snapshots /\ Fresh(a.rule, a.src, a.content) /\ Matches(a.src, a.content)
  BY <1>2, <1>3 DEF Entries, Snapshots, EntryOK
<1>5. a # NoAnswer /\ Promise!FreshEnough(a)
  BY <1>4, FreshAnswer
<1>6. request'[q].state = "answered" /\ request'[q].answer = a
      /\ \A p \in Requests \ {q} : request'[p] = request[p]
  BY <1>2 DEF IInv, TypeOK
<1> HIDE DEF a
<1>7. Answered(q) = NoAnswer /\ Answered(q)' = a
  BY <1>1, <1>6, AnsweredCases, AnsweredNext DEF IInv, RequestsInv, RequestOK
<1>8. ASSUME NEW p \in Requests \ {q} PROVE Answered(p)' = Answered(p)
  <2>1. request[p].state = "waiting" => request[p].load \in Requests \ {q}
    BY <1>1 DEF IInv, RequestsInv, RequestOK
  <2>2. \A l \in Requests \ {q} : load'[l] = load[l]
    BY <1>1, RefreshKeeps
  <2> QED BY <2>1, <2>2, <1>6, SameAnswer
<1> QED BY <1>1, <1>5, <1>7, <1>8, AnswerStep

\* A miss leaves the page waiting, unless the load it joins has just settled.
LEMMA MissAnswers ==
  ASSUME IInv, NEW q \in Requests, NEW r \in Rules, NEW d \in Descriptors,
         ResolveMiss(q, r, d)
  PROVE  Promise!Next
<1>1. request[q].state = "idle" /\ Refresh(q, r, d)
      /\ UNCHANGED <<disk, since, versions, epoch>>
  BY DEF ResolveMiss
<1>2. PICK l \in (IF Existing(r, d) # {} THEN Existing(r, d) ELSE {q}) :
         request' = [request EXCEPT ![q] =
                       [state |-> "waiting", load |-> l, answer |-> NoAnswer]]
  BY DEF ResolveMiss
<1>3. request'[q].state = "waiting" /\ request'[q].load = l
      /\ \A p \in Requests \ {q} : request'[p] = request[p]
  BY <1>2 DEF IInv, TypeOK
<1>4. Answered(q) = NoAnswer
  BY <1>1, AnsweredCases DEF IInv, RequestsInv, RequestOK
<1>5. ASSUME NEW p \in Requests \ {q} PROVE Answered(p)' = Answered(p)
  <2>1. request[p].state = "waiting" => request[p].load \in Requests \ {q}
    BY <1>1 DEF IInv, RequestsInv, RequestOK
  <2>2. \A m \in Requests \ {q} : load'[m] = load[m]
    BY <1>1, RefreshKeeps
  <2> QED BY <2>1, <2>2, <1>3, SameAnswer
<1>6. CASE Settled(l)'
  <2>1. l \in Existing(r, d) /\ UNCHANGED load
    <3>1. CASE Existing(r, d) # {}
      BY <3>1, <1>1 DEF Refresh
    <3>2. CASE Existing(r, d) = {}
      <4>1. l = q /\ load'[q].state = "reading"
        BY <3>2, <1>1 DEF Refresh, StartLoad, IInv, TypeOK
      <4> QED BY <4>1, <1>6 DEF Settled
    <3> QED BY <3>1, <3>2
  <2>2. Settled(l) /\ l \in inFlight /\ load[l].version = versions[load[l].rule]
    BY <2>1, <1>6 DEF Existing, Settled
  <2>3. ResultOf(l)' = ResultOf(l)
    BY <2>1 DEF ResultOf, Snapshot
  <2>4. Answered(q)' = ResultOf(l)
    BY <2>3, <1>3, <1>6, AnsweredNext
  <2>5. /\ Answered(q)' # NoAnswer
        /\ Answered(q)' # Refused => Promise!FreshEnough(Answered(q)')
    BY <2>2, <2>4, SettledResult
  <2> QED BY <1>1, <1>4, <1>5, <2>5, AnswerStep
<1>7. CASE ~Settled(l)'
  <2>1. Answered(q)' = NoAnswer
    BY <1>3, <1>7, AnsweredNext
  <2>2. \A p \in Requests : Answered(p)' = Answered(p)
    BY <1>4, <1>5, <2>1
  <2>3. Promise!Answer({})
    BY <1>1, <2>2 DEF Promise!Answer
  <2> QED BY <2>3 DEF Promise!Next
<1> QED BY <1>6, <1>7

\* The then and catch callbacks answer whoever waits for the load.
LEMMA PublishAnswers ==
  ASSUME IInv, NEW l \in Requests, Publish(l) \/ Reject(l)
  PROVE  Promise!Next
<1>1. Reading(l) /\ UNCHANGED <<disk, since, request>>
  BY DEF Publish, Reject
<1>2. load \in [Requests -> Loads] /\ load[l] \in Loads /\ LoadOK(l)
  BY DEF IInv, TypeOK, LoadsInv
<1>3. CASE SettleNull(l)
  <2>1. load'[l].state = "null" /\ \A m \in Requests \ {l} : load'[m] = load[m]
    BY <1>2, <1>3 DEF SettleNull, Loads
  <2> QED BY <2>1, <1>1, SettleAnswers
<1>4. CASE ~SettleNull(l)
  <2>1. /\ isCurrent(l) /\ ~ReadFailed(l) /\ ReadComplete(l)
        /\ load' = [load EXCEPT ![l].state = "snapshot"]
    BY <1>4 DEF Publish, Reject
  <2>2. /\ load'[l].state = "snapshot" /\ Snapshot(l)' = Snapshot(l)
        /\ \A m \in Requests \ {l} : load'[m] = load[m]
    BY <2>1, <1>2 DEF Loads, Snapshot
  <2>3. load[l].content \in Contents
    BY <2>1, <1>2 DEF ReadComplete, ReadFailed, Loads, Readings, Contents
  <2>4. Fresh(load[l].rule, load[l].src, load[l].content)
    <3>1. l \in inFlight
      BY <2>1, <1>1, <1>2 DEF LoadOK, isCurrent
    <3> QED BY <3>1, <2>1 DEF IInv, InFlightInv, RegisteredOK, isCurrent
  <2> QED BY <2>2, <2>3, <2>4, <1>1, SettleAnswers
<1> QED BY <1>3, <1>4

\* Steps that change no answer: a read, a finally callback, a continuation.
LEMMA NoNewAnswer ==
  ASSUME UNCHANGED <<disk, since>>,
         \A q \in Requests : Answered(q)' = Answered(q)
  PROVE  Promise!Next
<1>1. Promise!Answer({})
  BY DEF Promise!Answer
<1> QED BY <1>1 DEF Promise!Next

\* A read leaves the load unsettled.
LEMMA ReadSourceAnswers ==
  ASSUME IInv, NEW l \in Requests, NEW k \in Kinds, ReadSource(l, k)
  PROVE  Promise!Next
<1>1. Reading(l) /\ UNCHANGED <<disk, since, request>>
  BY DEF ReadSource
<1>2. load'[l].state = "reading" /\ \A m \in Requests \ {l} : load'[m] = load[m]
  BY <1>1 DEF ReadSource, IInv, TypeOK, Loads, Reading
<1>3. ASSUME NEW q \in Requests PROVE Answered(q)' = Answered(q)
  <2>1. CASE request[q].state = "waiting" /\ request[q].load = l
    <3>1. Answered(q) = NoAnswer
      BY <2>1, <1>1, AnsweredCases DEF Reading, Settled
    <3>2. Answered(q)' = NoAnswer
      BY <2>1, <1>1, <1>2, AnsweredNext DEF Settled
    <3> QED BY <3>1, <3>2
  <2>2. CASE ~(request[q].state = "waiting" /\ request[q].load = l)
    <3>1. request[q].state = "waiting" => request[q].load \in Requests \ {l}
      BY <2>2 DEF IInv, RequestsInv, RequestOK
    <3> QED BY <3>1, <1>1, <1>2, SameAnswer
  <2> QED BY <2>1, <2>2
<1> QED BY <1>1, <1>3, NoNewAnswer

\* The finally callback keeps the result of the promise.
LEMMA FinallyAnswers ==
  ASSUME IInv, NEW l \in Requests, Finally(l)
  PROVE  Promise!Next
<1>1. Settled(l) /\ UNCHANGED <<disk, since, request>>
  BY DEF Finally
<1>2. load \in [Requests -> Loads] /\ load[l] \in Loads
  BY DEF IInv, TypeOK
<1>3. \A m \in Requests \ {l} : load'[m] = load[m]
  BY <1>2 DEF Finally
<1>4. Settled(l)' /\ ResultOf(l)' = ResultOf(l)
  <2>1. CASE load[l].state = "null"
    <3>1. load'[l].state = "null"
      BY <2>1, <1>2 DEF Finally, NoLoad
    <3> QED BY <2>1, <3>1 DEF Settled, ResultOf
  <2>2. CASE load[l].state # "null"
    <3>1. load'[l] = [load[l] EXCEPT !.finished = TRUE]
      BY <2>2, <1>2 DEF Finally
    <3>2. /\ load'[l].state = load[l].state /\ load'[l].rule = load[l].rule
          /\ load'[l].src = load[l].src /\ load'[l].content = load[l].content
      BY <3>1, <1>2 DEF Loads
    <3> QED BY <3>2, <1>1 DEF Settled, ResultOf, Snapshot
  <2> QED BY <2>1, <2>2
<1>5. ASSUME NEW q \in Requests PROVE Answered(q)' = Answered(q)
  <2>1. CASE request[q].state = "waiting" /\ request[q].load = l
    <3>1. Answered(q) = ResultOf(l)
      BY <2>1, <1>1, AnsweredCases
    <3>2. Answered(q)' = ResultOf(l)'
      BY <2>1, <1>1, <1>4, AnsweredNext
    <3> QED BY <3>1, <3>2, <1>4
  <2>2. CASE ~(request[q].state = "waiting" /\ request[q].load = l)
    <3>1. request[q].state = "waiting" => request[q].load \in Requests \ {l}
      BY <2>2 DEF IInv, RequestsInv, RequestOK
    <3> QED BY <3>1, <1>1, <1>3, SameAnswer
  <2> QED BY <2>1, <2>2
<1> QED BY <1>1, <1>5, NoNewAnswer

\* Every step of the cache is a step of the promise or changes nothing of it.
LEMMA Refinement ==
  IInv /\ IInv' /\ [Next]_vars => [Promise!Next]_(Promise!vars)
<1> SUFFICES ASSUME IInv, IInv', [Next]_vars
             PROVE  Promise!Next \/ UNCHANGED Promise!vars
  OBVIOUS
<1>1. ASSUME NEW p \in Paths, Edit(p) PROVE Promise!Next
  <2>1. \A q \in Requests : Answered(q)' = Answered(q)
    BY <1>1, SameAnswer DEF Edit
  <2>2. Promise!Edit(p)
    BY <1>1, <2>1 DEF Edit, Promise!Edit
  <2> QED BY <2>2 DEF Promise!Next
<1>2. ASSUME NEW q \in Requests, resolve(q) PROVE Promise!Next
  BY <1>2, HitAnswers, MissAnswers DEF resolve
<1>3. ASSUME NEW l \in Requests, NEW k \in Kinds, ReadSource(l, k) PROVE Promise!Next
  BY <1>3, ReadSourceAnswers
<1>4. ASSUME NEW l \in Requests, Publish(l) \/ Reject(l) PROVE Promise!Next
  BY <1>4, PublishAnswers
<1>5. ASSUME NEW l \in Requests, Finally(l) PROVE Promise!Next
  BY <1>5, FinallyAnswers
<1>6. ASSUME NEW q \in Requests, Return(q) PROVE Promise!Next
  <2>1. /\ request[q].state = "waiting" /\ load[request[q].load].finished
        /\ UNCHANGED <<disk, since, load>>
        /\ request' = [request EXCEPT ![q].state = "answered",
                                      ![q].answer = ResultOf(request[q].load)]
    BY <1>6 DEF Return
  <2>2. LoadOK(request[q].load) /\ load[request[q].load] \in Loads
        /\ load[request[q].load].state # "none"
    BY <2>1 DEF IInv, TypeOK, LoadsInv, RequestsInv, RequestOK
  <2>3. Settled(request[q].load)
    BY <2>1, <2>2 DEF LoadOK, Loads, Reading, Settled
  <2>4. /\ request'[q].state = "answered" /\ request'[q].answer = ResultOf(request[q].load)
        /\ \A p \in Requests \ {q} : request'[p] = request[p]
    BY <2>1 DEF IInv, TypeOK
  <2>5. Answered(q)' = Answered(q)
    BY <2>1, <2>3, <2>4, AnsweredCases, AnsweredNext
  <2>6. \A p \in Requests : Answered(p)' = Answered(p)
    BY <2>1, <2>4, <2>5, SameAnswer
  <2> QED BY <2>1, <2>6, NoNewAnswer
<1>7. ASSUME NEW r \in Rules, invalidate(r) PROVE Promise!Next
  <2>1. since \in [Rules -> [Paths -> Versions]]
    BY DEF IInv, TypeOK
  <2>2. \A q \in Requests : Answered(q)' = Answered(q)
    BY <1>7, SameAnswer DEF invalidate
  <2>3. Promise!Invalidate({r})
    BY <1>7, <2>1, <2>2 DEF invalidate, Promise!Invalidate
  <2> QED BY <2>3 DEF Promise!Next
<1>8. ASSUME clear PROVE Promise!Next
  <2>1. \A q \in Requests : Answered(q)' = Answered(q)
    BY <1>8, SameAnswer DEF clear
  <2>2. Promise!Invalidate(Rules)
    BY <1>8, <2>1 DEF clear, Promise!Invalidate
  <2> QED BY <2>2 DEF Promise!Next
<1>9. CASE UNCHANGED vars
  <2>1. \A q \in Requests : Answered(q)' = Answered(q)
    BY <1>9, SameAnswer DEF vars
  <2> QED BY <1>9, <2>1 DEF vars, Promise!vars
<1> QED BY <1>1, <1>2, <1>3, <1>4, <1>5, <1>6, <1>7, <1>8, <1>9 DEF Next

\* Every answer a page gets holds what the files had since the rule's last
\* invalidation, for any number of pages, rules and files.
THEOREM Implements == Spec => AnswersFresh
<1>1. Init => Promise!Init
  BY DEF Init, Promise!Init, Answered
<1>2. IInv /\ IInv' /\ [Next]_vars => [Promise!Next]_(Promise!vars)
  BY Refinement
<1> QED BY <1>1, <1>2, Invariance, PTL DEF Spec, AnswersFresh, Promise!Spec
=============================================================================
