--------------------------- MODULE RuleStoreProofs ---------------------------
(***************************************************************************)
(* Proofs about RuleStore, for any rules, hosts, drafts and earlier data,  *)
(* and for every value of the bounds: what is stored is always a state the *)
(* rules were in as a whole (DurableState), a background at rest has saved *)
(* its state, no rule keeps the flag of a file it has not, and what is     *)
(* cached was read for the rule as it is.                                  *)
(*                                                                         *)
(* The argument goes through the history log.  Everything that is stored,  *)
(* or on its way to storage, is the state log held at its rev, the revs    *)
(* never decrease from the stored state through the queue of writes to the *)
(* end of log, and while the background runs log ends with its memory.     *)
(***************************************************************************)
EXTENDS RuleStore, SequenceTheorems, TLAPS

-----------------------------------------------------------------------------
(* The inductive invariant *)

\* States in which no rule keeps the flag of a file it has not.
GoodStates ==
    {st \in States : \A r \in Rules, k \in Kinds :
        st.rules[r] # None /\ ~st.rules[r].flag[k] => st.rules[r].path[k]}

\* What this version gives to storage.set.
SavedStates == [schema : {CurrentSchema}, state : GoodStates, rev : Nat]

LogInv == log \in Seq(GoodStates) /\ Len(log) >= 1

StoredInv ==
    /\ stored \in StoredStates
    /\ stored.rev \in 1..Len(log)
    /\ log[stored.rev] = Loaded(stored)

WritesInv ==
    /\ writes \in Seq(SavedStates)
    /\ \A i \in 1..Len(writes) :
          /\ stored.rev <= writes[i].rev
          /\ writes[i].rev <= Len(log)
          /\ writes[i].state = log[writes[i].rev]
    /\ \A i, j \in 1..Len(writes) : i <= j => writes[i].rev <= writes[j].rev

\* The memory of a background that runs ...
ReadyInv ==
    phase = "ready" =>
        /\ Content = log[Len(log)]
        /\ window = "open" => ~again
        /\ ~again /\ writes # << >> => writes[Len(writes)].state = Content
        /\ ~again /\ writes = << >> /\ ~failed => Loaded(stored) = Content /\ ~Repaired(stored)

\* ... and of one that does not, where log ends with the last state that is
\* saved or still to be.
StoppedInv ==
    phase # "ready" =>
        /\ rules = NoRules /\ blocklist = {}
        /\ window = "open" /\ ~again
        /\ Len(log) = IF writes = << >> THEN stored.rev ELSE writes[Len(writes)].rev

IInv ==
    /\ TypeOK
    /\ LogInv
    /\ StoredInv
    /\ WritesInv
    /\ ReadyInv
    /\ StoppedInv
    /\ CachedAsTheRuleIs

-----------------------------------------------------------------------------
(* Rules as they are stored and loaded *)

\* A rule of this version is loaded as it was saved.
LEMMA RuleLoads ==
  ASSUME NEW rule \in RuleRecords
  PROVE  rule \in StoredRules /\ NormalRule(rule) = rule /\ Flagged(rule) = rule
         /\ rule # None /\ rule # Malformed
<1>1. rule \in StoredRules
  BY DEF RuleRecords, StoredRules, Sites
<1>2. rule # None /\ rule # Malformed
  BY <1>1, DraftsAssumption
<1>3. [k \in Kinds |-> IF rule.flag[k] = None THEN TRUE ELSE rule.flag[k]] = rule.flag
  BY DraftsAssumption DEF RuleRecords
<1>4. Flagged(rule) = rule
  BY <1>3 DEF Flagged, RuleRecords
<1>5. NormalSite(rule.site) = rule.site
  BY DraftsAssumption DEF NormalSite, RuleRecords
<1>6. NormalRule(rule) = rule
  BY <1>1, <1>4, <1>5 DEF NormalRule, RuleRecords
<1> QED BY <1>1, <1>2, <1>4, <1>6

\* What is no rule is left out.
LEMMA NoRuleLoads == NormalRule(None) = None /\ NormalRule(Malformed) = None
BY DraftsAssumption DEF NormalRule

\* What this version saves is read as it is, and needs no repair.
LEMMA SavedLoads ==
  ASSUME NEW x \in SavedStates
  PROVE  x \in StoredStates /\ Loaded(x) = x.state /\ ~Repaired(x)
<1>1. x.schema = 2 /\ x.state \in States /\ x.rev \in Nat
  BY DEF SavedStates, GoodStates, CurrentSchema
<1>2. \A r \in Rules : x.state.rules[r] \in RuleRecords \/ x.state.rules[r] = None
  BY <1>1 DEF States
<1>3. \A r \in Rules : NormalRule(x.state.rules[r]) = x.state.rules[r]
  BY <1>2, RuleLoads, NoRuleLoads
<1>4. Loaded(x) = x.state
  <2>1. Loaded(x) = [rules |-> [r \in Rules |-> NormalRule(x.state.rules[r])],
                     blocklist |-> x.state.blocklist]
    BY <1>1 DEF Loaded
  <2>2. [r \in Rules |-> NormalRule(x.state.rules[r])] = x.state.rules
    BY <1>1, <1>3 DEF States
  <2> QED BY <1>1, <2>1, <2>2 DEF States
<1>5. ~Repaired(x)
  <2>1. ASSUME NEW r \in Rules, x.state.rules[r] \in StoredRules
        PROVE  x.state.rules[r].site \notin RawSites
    <3>1. x.state.rules[r] \in RuleRecords
      BY <2>1, <1>2, DraftsAssumption
    <3> QED BY <3>1, DraftsAssumption DEF RuleRecords
  <2> QED BY <1>1, <2>1 DEF Repaired
<1>6. x \in StoredStates
  <2>1. x.state.rules \in [Rules -> StoredRules \cup {None, Malformed}]
    BY <1>1, <1>2, RuleLoads DEF States
  <2>2. x.state \in [rules : [Rules -> StoredRules \cup {None, Malformed}], blocklist : SUBSET Hosts]
    BY <1>1, <2>1 DEF States
  <2> QED BY <1>1, <2>2 DEF SavedStates, StoredStates
<1> QED BY <1>4, <1>5, <1>6

\* What an earlier version left is loaded as a good state.
LEMMA EarlierLoads ==
  ASSUME NEW x \in StoredStates,
         \A r \in Rules, k \in Kinds :
            x.state.rules[r] \in StoredRules /\ x.state.rules[r].flag[k] = FALSE
                => x.state.rules[r].path[k]
  PROVE  Loaded(x) \in GoodStates
<1> DEFINE old == x.state.rules
           current == IF x.schema = 1 THEN migrateV1ToV2(old) ELSE old
           new == [r \in Rules |-> NormalRule(current[r])]
<1>1. old \in [Rules -> StoredRules \cup {None, Malformed}] /\ x.state.blocklist \in SUBSET Hosts
  BY DEF StoredStates
<1>2. ASSUME NEW rule \in StoredRules
      PROVE  /\ Flagged(rule) \in StoredRules
             /\ Flagged(rule).path = rule.path
             /\ \A k \in Kinds : /\ Flagged(rule).flag[k] \in BOOLEAN
                                 /\ ~Flagged(rule).flag[k] => rule.flag[k] = FALSE
  <2>1. [k \in Kinds |-> IF rule.flag[k] = None THEN TRUE ELSE rule.flag[k]] \in [Kinds -> BOOLEAN]
    BY DEF StoredRules
  <2> DEFINE flags == [k \in Kinds |-> IF rule.flag[k] = None THEN TRUE ELSE rule.flag[k]]
  <2>2. Flagged(rule) = [rule EXCEPT !.flag = flags]
    BY DEF Flagged, StoredRules
  <2>3. \A k \in Kinds : flags[k] \in BOOLEAN /\ (~flags[k] => rule.flag[k] = FALSE)
    BY <2>1
  <2> HIDE DEF flags
  <2>4. flags \in [Kinds -> BOOLEAN \cup {None}]
    BY <2>1 DEF flags
  <2> QED BY <2>2, <2>3, <2>4 DEF StoredRules
<1>3. ASSUME NEW r \in Rules
      PROVE  /\ new[r] \in RuleRecords \cup {None}
             /\ new[r] # None => \A k \in Kinds : ~new[r].flag[k] => new[r].path[k]
  <2>1. CASE old[r] \in StoredRules
    <3>1. current[r] \in StoredRules /\ current[r].path = old[r].path
          /\ \A k \in Kinds : current[r].flag[k] = FALSE => old[r].flag[k] = FALSE
      BY <2>1, <1>2 DEF migrateV1ToV2
    <3>2. new[r] = [Flagged(current[r]) EXCEPT !.site = NormalSite(@)]
      BY <3>1 DEF NormalRule
    <3>3. /\ Flagged(current[r]) \in StoredRules
          /\ Flagged(current[r]).path = old[r].path
          /\ \A k \in Kinds : /\ Flagged(current[r]).flag[k] \in BOOLEAN
                              /\ ~Flagged(current[r]).flag[k] => old[r].flag[k] = FALSE
      BY <3>1, <1>2
    <3>4. NormalSite(Flagged(current[r]).site) \in Hosts
      BY <3>3, DraftsAssumption DEF NormalSite, StoredRules, Sites
    <3> DEFINE f == Flagged(current[r])
    <3> HIDE DEF f
    <3>5. new[r] \in RuleRecords /\ new[r].flag = f.flag /\ new[r].path = f.path
      <4>1. f \in StoredRules /\ NormalSite(f.site) \in Hosts
            /\ new[r] = [f EXCEPT !.site = NormalSite(@)]
            /\ \A k \in Kinds : f.flag[k] \in BOOLEAN
        BY <3>2, <3>3, <3>4 DEF f
      <4>2. f.flag \in [Kinds -> BOOLEAN]
        BY <4>1 DEF StoredRules
      <4> HIDE DEF new
      <4> QED BY <4>1, <4>2 DEF StoredRules, RuleRecords
    <3> HIDE DEF new, current
    <3> QED BY <3>3, <3>5, <2>1 DEF f
  <2>2. CASE old[r] \notin StoredRules
    <3>1. current[r] = old[r]
      BY <2>2 DEF migrateV1ToV2
    <3> QED BY <2>2, <3>1 DEF NormalRule
  <2> QED BY <2>1, <2>2
<1>4. Loaded(x) = [rules |-> new, blocklist |-> x.state.blocklist]
  BY DEF Loaded
<1>5. new \in [Rules -> RuleRecords \cup {None}]
  BY <1>3
<1> HIDE DEF new
<1> QED BY <1>1, <1>3, <1>4, <1>5 DEF GoodStates, States

-----------------------------------------------------------------------------
(* What keeps the history, storage and the queue together *)

\* Everything on its way to storage is in the history.
LEMMA RevsInLog ==
  ASSUME IInv
  PROVE  /\ log \in Seq(GoodStates) /\ Len(log) \in Nat \ {0}
         /\ stored.rev \in 1..Len(log)
         /\ writes \in Seq(SavedStates) /\ Len(writes) \in Nat
         /\ \A i \in 1..Len(writes) : writes[i] \in SavedStates /\ writes[i].rev \in 1..Len(log)
         /\ \A i \in 1..Len(log) : log[i] \in GoodStates
<1>1. log \in Seq(GoodStates) /\ Len(log) \in Nat \ {0} /\ stored.rev \in 1..Len(log)
  BY LenProperties DEF IInv, LogInv, StoredInv
<1>2. writes \in Seq(SavedStates) /\ Len(writes) \in Nat
  BY LenProperties DEF IInv, WritesInv
<1>3. \A i \in 1..Len(writes) : writes[i] \in SavedStates
  BY <1>2, ElementOfSeq
<1>4. \A i \in 1..Len(writes) : writes[i].rev \in Nat
  BY <1>3 DEF SavedStates
<1>5. \A i \in 1..Len(writes) : writes[i].rev \in 1..Len(log)
  BY <1>1, <1>4 DEF IInv, WritesInv
<1>6. \A i \in 1..Len(log) : log[i] \in GoodStates
  BY <1>1, ElementOfSeq
<1> QED BY <1>1, <1>2, <1>3, <1>5, <1>6

\* Persisting the newest state, or nothing, while the history goes on.
LEMMA PersistKeeps ==
  ASSUME IInv, UNCHANGED stored, LogInv',
         Len(log') >= Len(log), \A i \in 1..Len(log) : log'[i] = log[i],
         \/ writes' = writes
         \/ writes' = Append(writes, [schema |-> CurrentSchema, state |-> log'[Len(log')],
                                     rev |-> Len(log')])
  PROVE  StoredInv' /\ WritesInv'
<1>1. Len(log) \in Nat \ {0} /\ Len(log') \in Nat \ {0}
  BY LenProperties DEF IInv, LogInv
<1>2. StoredInv'
  BY <1>1 DEF IInv, StoredInv, Loaded
<1>3. CASE writes' = writes
  BY <1>1, <1>2, <1>3, RevsInLog DEF IInv, WritesInv
<1> DEFINE w == [schema |-> CurrentSchema, state |-> log'[Len(log')], rev |-> Len(log')]
<1>4. CASE writes' = Append(writes, w)
  <2>1. log'[Len(log')] \in GoodStates
    BY <1>1, ElementOfSeq DEF LogInv
  <2>2. w \in SavedStates
    BY <1>1, <2>1 DEF SavedStates
  <2>3. w.rev = Len(log') /\ w.state = log'[Len(log')]
    OBVIOUS
  <2> HIDE DEF w
  <2>4. writes \in Seq(SavedStates) /\ Len(writes) \in Nat
    BY LenProperties DEF IInv, WritesInv
  <2>5. /\ writes' \in Seq(SavedStates)
        /\ Len(writes') = Len(writes) + 1
        /\ \A i \in 1..Len(writes) : writes'[i] = writes[i]
        /\ writes'[Len(writes) + 1] = w
    BY <1>4, <2>2, <2>4, AppendProperties
  <2>6. ASSUME NEW i \in 1..Len(writes')
        PROVE  /\ stored'.rev <= writes'[i].rev
               /\ writes'[i].rev <= Len(log')
               /\ writes'[i].state = log'[writes'[i].rev]
    <3>1. CASE i = Len(writes) + 1
      BY <3>1, <2>3, <2>5, <1>1 DEF IInv, StoredInv
    <3>2. CASE i \in 1..Len(writes)
      <4>1. writes[i].rev \in 1..Len(log) /\ stored.rev \in 1..Len(log)
        BY <3>2, RevsInLog
      <4> QED BY <3>2, <4>1, <2>5, <1>1 DEF IInv, WritesInv
    <3> QED BY <3>1, <3>2, <2>4, <2>5
  <2>7. ASSUME NEW i \in 1..Len(writes'), NEW j \in 1..Len(writes'), i <= j
        PROVE  writes'[i].rev <= writes'[j].rev
    <3>1. CASE j = Len(writes) + 1
      BY <3>1, <2>3, <2>5, <2>6
    <3>2. CASE j # Len(writes) + 1
      <4>1. i \in 1..Len(writes) /\ j \in 1..Len(writes)
        BY <3>2, <2>7, <2>4, <2>5
      <4> QED BY <4>1, <2>5, <2>7 DEF IInv, WritesInv
    <3> QED BY <3>1, <3>2
  <2>8. writes' \in Seq(SavedStates)
    BY <2>5
  <2> QED BY <1>2, <2>6, <2>7, <2>8 DEF WritesInv
<1> QED BY <1>2, <1>3, <1>4

\* Where the history of a stopped background ends.
LastRev(w) == IF w = << >> THEN stored.rev ELSE w[Len(w)].rev

\* A part of the queue is left, and the history, should it be cut, ends there.
LEMMA PartKeeps ==
  ASSUME IInv, UNCHANGED stored,
         NEW d \in Nat, writes' \in Seq(SavedStates),
         \A i \in 1..Len(writes') : i + d \in 1..Len(writes) /\ writes'[i] = writes[i + d],
         log' = log \/ log' = SubSeq(log, 1, LastRev(writes'))
  PROVE  /\ LogInv' /\ StoredInv' /\ WritesInv'
         /\ LastRev(writes') \in stored.rev..Len(log)
         /\ log' = SubSeq(log, 1, LastRev(writes')) => Len(log') = LastRev(writes')
<1> DEFINE n == LastRev(writes')
<1>1. /\ Len(log) \in Nat \ {0} /\ Len(writes) \in Nat /\ Len(writes') \in Nat
      /\ stored.rev \in 1..Len(log) /\ log \in Seq(GoodStates)
      /\ writes' # << >> => Len(writes') \in 1..Len(writes')
      /\ Len(<< >>) = 0
  BY LenProperties, EmptySeq DEF IInv, LogInv, WritesInv, StoredInv
<1>2. \A i \in 1..Len(writes') : writes'[i].rev \in Nat
  <2>1. \A i \in 1..Len(writes') : writes'[i] \in SavedStates
    BY ElementOfSeq
  <2> QED BY <2>1 DEF SavedStates
<1>3. ASSUME NEW i \in 1..Len(writes')
      PROVE  /\ stored.rev <= writes'[i].rev
             /\ writes'[i].rev <= Len(log)
             /\ writes'[i].state = log[writes'[i].rev]
  BY DEF IInv, WritesInv
<1>4. \A i, j \in 1..Len(writes') : i <= j => writes'[i].rev <= writes'[j].rev
  <2>1. SUFFICES ASSUME NEW i \in 1..Len(writes'), NEW j \in 1..Len(writes'), i <= j
                 PROVE  writes[i + d].rev <= writes[j + d].rev
    OBVIOUS
  <2>2. i + d \in 1..Len(writes) /\ j + d \in 1..Len(writes) /\ i + d <= j + d
    BY <2>1
  <2> QED BY <2>2 DEF IInv, WritesInv
<1>5. /\ n \in stored.rev..Len(log)
      /\ \A i \in 1..Len(writes') : writes'[i].rev <= n
  <2>1. CASE writes' = << >>
    BY <2>1, <1>1 DEF LastRev
  <2>2. CASE writes' # << >>
    <3>1. n = writes'[Len(writes')].rev /\ n \in Nat /\ Len(writes') \in 1..Len(writes')
      BY <2>2, <1>1, <1>2 DEF LastRev
    <3>2. stored.rev <= n /\ n <= Len(log)
      BY <3>1, <1>3
    <3>3. \A i \in 1..Len(writes') : i <= Len(writes')
      BY <1>1
    <3>4. \A i \in 1..Len(writes') : writes'[i].rev <= n
      BY <3>1, <3>3, <1>4
    <3> QED BY <3>1, <3>2, <3>4, <1>1
  <2> QED BY <2>1, <2>2
<1> HIDE DEF n
<1>6. CASE log' = log
  <2>1. Len(SubSeq(log, 1, n)) = n
    BY <1>1, <1>5, ElementOfSeq, SubSeqProperties
  <2> QED BY <2>1, <1>1, <1>3, <1>4, <1>5, <1>6 DEF IInv, LogInv, StoredInv, WritesInv, n, Loaded
<1>7. CASE log' = SubSeq(log, 1, n)
  <2>1. n \in 1..Len(log)
    BY <1>1, <1>5
  <2>2. \A i \in 1..n : log[i] \in GoodStates
    BY <2>1, <1>1, ElementOfSeq
  <2>3. /\ log' \in Seq(GoodStates)
        /\ Len(log') = n
        /\ \A i \in 1..n : log'[i] = log[i]
    BY <1>7, <2>1, <2>2, <1>1, SubSeqProperties
  <2>4. LogInv'
    BY <2>1, <2>3 DEF LogInv
  <2>5. StoredInv'
    BY <2>1, <2>3, <1>5, <1>1 DEF IInv, StoredInv, Loaded
  <2>6. \A i \in 1..Len(writes') : writes'[i].rev \in 1..n
    BY <1>1, <1>2, <1>3, <1>5
  <2>7. ASSUME NEW i \in 1..Len(writes')
        PROVE  /\ stored.rev <= writes'[i].rev
               /\ writes'[i].rev <= Len(log')
               /\ writes'[i].state = log'[writes'[i].rev]
    <3>1. writes'[i].rev \in 1..n /\ stored.rev <= writes'[i].rev
      BY <2>6, <1>3
    <3>2. writes'[i].state = log[writes'[i].rev] /\ log'[writes'[i].rev] = log[writes'[i].rev]
      BY <3>1, <2>3, <1>3
    <3> QED BY <3>1, <3>2, <2>3
  <2>8. WritesInv'
    BY <2>7, <1>4 DEF WritesInv
  <2> QED BY <2>3, <2>4, <2>5, <2>8, <1>5 DEF n
<1> QED BY <1>6, <1>7 DEF n

LEMMA TypeKeeps ==
  ASSUME phase' \in {"loading", "ready", "broken"}, Content' \in States,
         cached' \in [Rules -> RuleRecords \cup {None}], window' \in {"open", "closed"},
         again' \in BOOLEAN, failed' \in BOOLEAN, LogInv', StoredInv', WritesInv'
  PROVE  TypeOK'
<1>1. log' \in Seq(States)
  <2>1. log' \in Seq(GoodStates) /\ GoodStates \subseteq States
    BY DEF LogInv, GoodStates
  <2> QED BY <2>1
<1>2. writes' \in Seq(StoredStates)
  <2>1. writes' \in Seq(SavedStates) /\ SavedStates \subseteq StoredStates
    BY SavedLoads DEF WritesInv
  <2> QED BY <2>1
<1> QED BY <1>1, <1>2 DEF TypeOK, StoredInv

-----------------------------------------------------------------------------
(* The handlers *)

\* What a handler makes of the memory is remembered and persisted.
LEMMA BecomeKeeps ==
  ASSUME IInv, phase = "ready",
         NEW nr, NEW nb, [rules |-> nr, blocklist |-> nb] \in GoodStates,
         Become(nr, nb),
         cached' \in [Rules -> RuleRecords \cup {None}], CachedAsTheRuleIs'
  PROVE  IInv'
<1> DEFINE new == [rules |-> nr, blocklist |-> nb]
<1>1. /\ Content' = new /\ new \in GoodStates
      /\ log' = IF new = Content THEN log ELSE Append(log, new)
      /\ updateStorage(new, Len(log'))
      /\ UNCHANGED <<phase, stored, failed>>
  BY DEF Become, Content
<1>2. Content \in States /\ Content = log[Len(log)] /\ failed \in BOOLEAN /\ again \in BOOLEAN
      /\ window \in {"open", "closed"}
  BY DEF IInv, TypeOK, ReadyInv
<1> HIDE DEF new
<1>3. /\ log' \in Seq(GoodStates) /\ Len(log') \in Nat /\ Len(log') >= Len(log)
      /\ \A i \in 1..Len(log) : log'[i] = log[i]
      /\ log'[Len(log')] = new
      /\ LogInv'
  <2>1. log \in Seq(GoodStates) /\ Len(log) \in Nat \ {0}
    BY RevsInLog
  <2>2. CASE new = Content
    BY <2>1, <2>2, <1>1, <1>2 DEF LogInv
  <2>3. CASE new # Content
    <3>1. log' = Append(log, new)
      BY <2>3, <1>1
    <3>2. /\ log' \in Seq(GoodStates)
          /\ Len(log') = Len(log) + 1
          /\ \A i \in 1..Len(log) : log'[i] = log[i]
          /\ log'[Len(log) + 1] = new
      <4>1. new \in GoodStates
        BY <1>1
      <4> QED BY <3>1, <2>1, <4>1, AppendProperties
    <3> QED BY <3>2, <2>1 DEF LogInv
  <2> QED BY <2>2, <2>3
<1> DEFINE w == [schema |-> CurrentSchema, state |-> new, rev |-> Len(log')]
<1>4. \/ window = "open" /\ writes' = Append(writes, w) /\ window' = "closed" /\ ~again'
      \/ window' = "closed" /\ again' = TRUE /\ writes' = writes
  BY <1>1, <1>2 DEF updateStorage, Write
<1>5. StoredInv' /\ WritesInv'
  <2>1. writes' = writes \/ writes' = Append(writes, [schema |-> CurrentSchema, state |-> log'[Len(log')],
                                     rev |-> Len(log')])
    BY <1>3, <1>4
  <2> QED BY <1>1, <1>3, <2>1, PersistKeeps
<1>6. ASSUME ~again'
      PROVE  writes' # << >> /\ writes'[Len(writes')].state = new
  <2>1. writes' = Append(writes, w) /\ writes \in Seq(SavedStates)
    BY <1>4, <1>6, RevsInLog
  <2>2. w \in SavedStates /\ w.state = new
    BY <1>1, <1>3 DEF SavedStates
  <2> HIDE DEF w
  <2>3. Len(writes') = Len(writes) + 1 /\ writes'[Len(writes) + 1] = w /\ Len(writes) \in Nat
    BY <2>1, <2>2, AppendProperties, LenProperties
  <2> QED BY <2>2, <2>3, EmptySeq
<1>7. ReadyInv'
  BY <1>1, <1>3, <1>4, <1>6 DEF ReadyInv
<1>8. TypeOK'
  <2>1. new \in States
    BY <1>1 DEF GoodStates
  <2>2. phase' \in {"loading", "ready", "broken"} /\ failed' \in BOOLEAN
    BY <1>1, <1>2
  <2>3. window' \in {"open", "closed"} /\ again' \in BOOLEAN
    BY <1>1, <1>2 DEF updateStorage
  <2> QED BY <1>1, <1>3, <1>5, <2>1, <2>2, <2>3, TypeKeeps
<1>9. StoppedInv'
  BY <1>1 DEF StoppedInv
<1> QED BY <1>3, <1>5, <1>7, <1>8, <1>9 DEF IInv

\* What the rule editor may save.
LEMMA InputsAreClean ==
  ASSUME NEW input \in Inputs
  PROVE  input.site \in Hosts /\ input.path \in [Kinds -> BOOLEAN]
<1>1. PICK d \in {e \in {Normalized(draft) : draft \in Drafts} : validateInjectionInput(e) = {}} :
        input = [site |-> d.site, path |-> [k \in Kinds |-> d.path[k] = "url"]]
  BY DEF Inputs
<1>2. d.site \in Hosts
  <2>1. "site" \notin validateInjectionInput(d)
    BY <1>1
  <2> QED BY <2>1 DEF validateInjectionInput
<1> QED BY <1>1, <1>2

\* A rule of the memory.
LEMMA RulesAre ==
  ASSUME IInv, phase = "ready"
  PROVE  /\ rules \in [Rules -> RuleRecords \cup {None}] /\ blocklist \in SUBSET Hosts
         /\ cached \in [Rules -> RuleRecords \cup {None}]
         /\ \A r \in Rules, k \in Kinds : rules[r] # None /\ ~rules[r].flag[k] => rules[r].path[k]
<1>1. Content \in GoodStates
  BY RevsInLog DEF IInv, ReadyInv
<1>2. Content.rules = rules /\ Content.blocklist = blocklist
  BY DEF Content
<1> QED BY <1>1, <1>2 DEF IInv, TypeOK, GoodStates, States

\* One rule changes, its entry of the cache is dropped, and nothing is blocked.
LEMMA RuleKeeps ==
  ASSUME IInv, phase = "ready",
         NEW r \in Rules, NEW new \in RuleRecords \cup {None}, NEW nb \in SUBSET blocklist,
         new # None => \A k \in Kinds : ~new.flag[k] => new.path[k],
         Become([rules EXCEPT ![r] = new], nb),
         invalidate({r})
  PROVE  IInv'
<1> DEFINE nr == [rules EXCEPT ![r] = new]
<1>1. /\ nr \in [Rules -> RuleRecords \cup {None}] /\ nb \in SUBSET Hosts
      /\ nr[r] = new /\ \A q \in Rules \ {r} : nr[q] = rules[q]
  BY RulesAre
<1>2. rules' = nr /\ blocklist' = nb
  BY DEF Become
<1>3. \A q \in Rules : cached'[q] = IF q = r THEN None ELSE cached[q]
  BY DEF invalidate
<1>4. cached' \in [Rules -> RuleRecords \cup {None}]
  <2>1. cached' = [q \in Rules |-> IF q \in {r} THEN None ELSE cached[q]]
    BY DEF invalidate
  <2> QED BY <2>1, RulesAre
<1>5. \A q \in Rules, k \in Kinds : nr[q] # None /\ ~nr[q].flag[k] => nr[q].path[k]
  BY <1>1, RulesAre
<1>6. Become(nr, nb)
  OBVIOUS
<1> HIDE DEF nr
<1>7. [rules |-> nr, blocklist |-> nb] \in GoodStates
  BY <1>1, <1>5 DEF GoodStates, States
<1>8. CachedAsTheRuleIs'
  BY <1>1, <1>2, <1>3 DEF CachedAsTheRuleIs, IInv
<1> QED BY <1>4, <1>6, <1>7, <1>8, BecomeKeeps

LEMMA AddKeeps ==
  ASSUME IInv, NEW r \in Rules, NEW input \in Inputs, NEW enabled \in BOOLEAN,
         addInjection(r, input, enabled)
  PROVE  IInv'
<1> DEFINE new == [site |-> input.site, path |-> input.path,
                   flag |-> [k \in Kinds |-> TRUE], enabled |-> enabled]
           nr == [rules EXCEPT ![r] = new]
<1>1. phase = "ready" /\ rules[r] = None /\ Become(nr, blocklist) /\ cached' = cached
  BY DEF addInjection
<1>2. new \in RuleRecords /\ \A k \in Kinds : new.flag[k]
  BY InputsAreClean DEF RuleRecords
<1> HIDE DEF new
<1>3. /\ nr \in [Rules -> RuleRecords \cup {None}]
      /\ nr[r] = new /\ \A q \in Rules \ {r} : nr[q] = rules[q]
  BY <1>1, <1>2, RulesAre
<1>4. \A q \in Rules, k \in Kinds : nr[q] # None /\ ~nr[q].flag[k] => nr[q].path[k]
  BY <1>1, <1>2, <1>3, RulesAre
<1>5. rules' = nr /\ blocklist' = blocklist /\ cached[r] = None
  BY <1>1, DraftsAssumption DEF Become, CachedAsTheRuleIs, IInv, TypeOK
<1> HIDE DEF nr
<1>6. [rules |-> nr, blocklist |-> blocklist] \in GoodStates
  BY <1>1, <1>3, <1>4, RulesAre DEF GoodStates, States
<1>7. CachedAsTheRuleIs'
  BY <1>1, <1>3, <1>5 DEF CachedAsTheRuleIs, IInv
<1>8. cached' \in [Rules -> RuleRecords \cup {None}]
  BY <1>1, RulesAre
<1> QED BY <1>1, <1>6, <1>7, <1>8, BecomeKeeps

LEMMA UpdateKeeps ==
  ASSUME IInv, NEW r \in Rules, NEW input \in Inputs, updateInjection(r, input)
  PROVE  IInv'
<1> DEFINE new == Edited(rules[r], input)
<1>1. /\ phase = "ready" /\ rules[r] # None
      /\ Become([rules EXCEPT ![r] = new], blocklist) /\ invalidate({r})
  BY RulesAre DEF updateInjection
<1>2. rules[r] \in RuleRecords
  BY <1>1, RulesAre
<1> DEFINE flags == [k \in Kinds |-> IF input.path[k] THEN rules[r].flag[k] ELSE TRUE]
<1>3. new = [rules[r] EXCEPT !.site = input.site, !.path = input.path, !.flag = flags]
  BY <1>2 DEF Edited, RuleRecords
<1>4. flags \in [Kinds -> BOOLEAN] /\ \A k \in Kinds : ~flags[k] => input.path[k]
  BY <1>2 DEF RuleRecords
<1> HIDE DEF flags, new
<1>5. new \in RuleRecords /\ new.flag = flags /\ new.path = input.path
  BY <1>2, <1>3, <1>4, InputsAreClean DEF RuleRecords
<1> QED BY <1>1, <1>4, <1>5, RuleKeeps

LEMMA FileEnabledKeeps ==
  ASSUME IInv, NEW r \in Rules, NEW k \in Kinds, NEW enabled \in BOOLEAN,
         setInjectionFileEnabled(r, k, enabled)
  PROVE  IInv'
<1> DEFINE flags == [rules[r].flag EXCEPT ![k] = enabled]
           new == [rules[r] EXCEPT !.flag = flags]
<1>1. phase = "ready" /\ rules[r] # None /\ rules[r].path[k] /\ invalidate({r})
  BY DEF setInjectionFileEnabled
<1>2. rules[r] \in RuleRecords /\ rules \in [Rules -> RuleRecords \cup {None}]
  BY <1>1, RulesAre
<1>3. Become([rules EXCEPT ![r] = new], blocklist)
  BY <1>2 DEF setInjectionFileEnabled, RuleRecords
<1>4. flags \in [Kinds -> BOOLEAN] /\ \A j \in Kinds : flags[j] = rules[r].flag[j] \/ j = k
  BY <1>2 DEF RuleRecords
<1> HIDE DEF flags
<1>5. new \in RuleRecords /\ new.flag = flags /\ new.path = rules[r].path
  BY <1>2, <1>4 DEF RuleRecords
<1>6. \A j \in Kinds : ~flags[j] => new.path[j]
  BY <1>1, <1>4, <1>5, RulesAre
<1> HIDE DEF new
<1> QED BY <1>1, <1>3, <1>5, <1>6, RuleKeeps

LEMMA RemoveKeeps ==
  ASSUME IInv, NEW r \in Rules, removeInjection(r)
  PROVE  IInv'
<1>1. phase = "ready" /\ invalidate({r})
  BY DEF removeInjection
<1>2. PICK freed : Become([rules EXCEPT ![r] = None], blocklist \ freed)
  BY DEF removeInjection
<1> QED BY <1>1, <1>2, RuleKeeps

LEMMA SetEnabledKeeps ==
  ASSUME IInv, NEW r \in Rules, NEW enabled \in BOOLEAN, setInjectionEnabled(r, enabled)
  PROVE  IInv'
<1> DEFINE new == [rules[r] EXCEPT !.enabled = enabled]
<1>1. phase = "ready" /\ rules[r] # None /\ invalidate({r})
  BY DEF setInjectionEnabled
<1>2. rules[r] \in RuleRecords /\ rules \in [Rules -> RuleRecords \cup {None}]
  BY <1>1, RulesAre
<1>3. Become([rules EXCEPT ![r] = new], blocklist)
  BY <1>2 DEF setInjectionEnabled
<1>4. new \in RuleRecords /\ new.flag = rules[r].flag /\ new.path = rules[r].path
  BY <1>2 DEF RuleRecords
<1>5. \A k \in Kinds : ~new.flag[k] => new.path[k]
  BY <1>1, <1>4, RulesAre
<1> HIDE DEF new
<1> QED BY <1>1, <1>3, <1>4, <1>5, RuleKeeps

\* A site is switched on, or off with what its rules have cached.
LEMMA SiteKeeps ==
  ASSUME IInv, phase = "ready", NEW h \in Hosts, NEW nb \in SUBSET (blocklist \cup {h}),
         Become(rules, nb), invalidate(RulesOf(h))
  PROVE  IInv'
<1>1. rules \in [Rules -> RuleRecords \cup {None}] /\ nb \in SUBSET Hosts
      /\ rules' = rules /\ blocklist' = nb
  BY RulesAre DEF Become
<1>2. [rules |-> rules, blocklist |-> nb] \in GoodStates
  BY <1>1, RulesAre DEF GoodStates, States
<1>3. cached' = [r \in Rules |-> IF r \in RulesOf(h) THEN None ELSE cached[r]]
  BY DEF invalidate
<1>4. cached' \in [Rules -> RuleRecords \cup {None}]
  BY <1>3, RulesAre
<1>5. CachedAsTheRuleIs'
  <2>1. SUFFICES ASSUME NEW r \in Rules, cached'[r] # None
                 PROVE  cached'[r] = rules[r] /\ rules[r].site \notin nb
    BY <1>1 DEF CachedAsTheRuleIs
  <2>2. r \notin RulesOf(h) /\ cached'[r] = cached[r]
    BY <1>3, <2>1
  <2>3. cached[r] = rules[r] /\ rules[r].site \notin blocklist /\ rules[r] # None
    BY <2>1, <2>2 DEF IInv, CachedAsTheRuleIs
  <2> QED BY <2>2, <2>3 DEF RulesOf
<1> QED BY <1>2, <1>4, <1>5, BecomeKeeps

LEMMA EnableSiteKeeps ==
  ASSUME IInv, NEW h \in Hosts, enableInjectionsForSite(h)
  PROVE  IInv'
<1>1. phase = "ready" /\ Become(rules, blocklist \ {h}) /\ invalidate(RulesOf(h))
  BY DEF enableInjectionsForSite
<1> QED BY <1>1, SiteKeeps

LEMMA DisableSiteKeeps ==
  ASSUME IInv, NEW h \in Hosts, disableInjectionsForSite(h)
  PROVE  IInv'
<1>1. phase = "ready" /\ Become(rules, blocklist \cup {h}) /\ invalidate(RulesOf(h))
  BY DEF disableInjectionsForSite
<1> QED BY <1>1, SiteKeeps

\* Steps that concern the cache alone.
LEMMA CacheKeeps ==
  ASSUME IInv,
         UNCHANGED <<phase, rules, blocklist, throttled, writes, stored, failed, log>>,
         cached' \in [Rules -> RuleRecords \cup {None}], CachedAsTheRuleIs'
  PROVE  IInv'
<1>1. LogInv' /\ StoredInv' /\ WritesInv'
  BY DEF IInv, LogInv, StoredInv, WritesInv, Loaded
<1>2. ReadyInv' /\ StoppedInv'
  BY DEF IInv, ReadyInv, StoppedInv, Content, Loaded, Repaired, throttled
<1>3. TypeOK'
  BY DEF IInv, TypeOK, Content, throttled
<1> QED BY <1>1, <1>2, <1>3 DEF IInv

LEMMA PageKeeps ==
  ASSUME IInv, NEW h \in Hosts, getPageInjections(h)
  PROVE  IInv'
<1>1. /\ phase = "ready" /\ h \notin blocklist
      /\ UNCHANGED <<phase, rules, blocklist, throttled, writes, stored, failed, log>>
  BY DEF getPageInjections
<1>2. PICK r \in RulesOf(h) : cached' = [cached EXCEPT ![r] = rules[r]]
  BY DEF getPageInjections
<1>3. r \in Rules /\ rules[r] # None /\ rules[r].site = h
  BY DEF RulesOf
<1>4. cached' \in [Rules -> RuleRecords \cup {None}]
  BY <1>1, <1>2, <1>3, RulesAre
<1>5. CachedAsTheRuleIs'
  BY <1>1, <1>2, <1>3, RulesAre DEF IInv, CachedAsTheRuleIs
<1> QED BY <1>1, <1>4, <1>5, CacheKeeps

LEMMA ClearKeeps ==
  ASSUME IInv, clearSourceCache
  PROVE  IInv'
<1>1. UNCHANGED <<phase, rules, blocklist, throttled, writes, stored, failed, log>>
      /\ cached' = NoRules
  BY DEF clearSourceCache
<1>2. CachedAsTheRuleIs' /\ cached' \in [Rules -> RuleRecords \cup {None}]
  BY <1>1 DEF CachedAsTheRuleIs, NoRules
<1> QED BY <1>1, <1>2, CacheKeeps

-----------------------------------------------------------------------------
(* The throttle, the browser, start and stop *)

LEMMA TimerKeeps ==
  ASSUME IInv, Timer
  PROVE  IInv'
<1>1. /\ window = "closed" /\ ~again'
      /\ UNCHANGED <<phase, rules, blocklist, cached, stored, failed, log>>
      /\ \/ again /\ Write(Content, Len(log)) /\ window' = "closed"
         \/ ~again /\ writes' = writes /\ window' = "open"
  BY DEF Timer, memory
<1>2. phase = "ready" /\ Content = log[Len(log)] /\ Content' = Content
  BY <1>1 DEF IInv, StoppedInv, ReadyInv, TypeOK, Content
<1> DEFINE w == [schema |-> CurrentSchema, state |-> log[Len(log)], rev |-> Len(log)]
<1>3. again => writes' = Append(writes, w)
  BY <1>1, <1>2 DEF Write
<1>4. LogInv'
  BY <1>1 DEF LogInv, IInv
<1>5. StoredInv' /\ WritesInv'
  <2>1. Len(log) \in Nat /\ log' = log /\ Len(log') >= Len(log)
    BY <1>1, RevsInLog
  <2> QED BY <1>1, <1>3, <1>4, <2>1, PersistKeeps
<1>6. ReadyInv'
  <2>1. CASE again
    <3>1. w \in SavedStates /\ w.state = Content
      BY <1>2, RevsInLog DEF SavedStates
    <3> HIDE DEF w
    <3>2. Len(writes') = Len(writes) + 1 /\ writes'[Len(writes) + 1] = w /\ Len(writes) \in Nat
      BY <1>3, <2>1, <3>1, RevsInLog, AppendProperties
    <3>3. writes' # << >> /\ writes'[Len(writes')].state = Content
      BY <3>1, <3>2, EmptySeq
    <3> QED BY <1>1, <1>2, <2>1, <3>3 DEF ReadyInv
  <2>2. CASE ~again
    BY <1>1, <1>2, <2>2 DEF ReadyInv, IInv, Loaded, Repaired
  <2> QED BY <2>1, <2>2
<1>7. TypeOK'
  <2>1. Content' \in States /\ cached' \in [Rules -> RuleRecords \cup {None}]
        /\ phase' \in {"loading", "ready", "broken"} /\ failed' \in BOOLEAN
    BY <1>1, <1>2 DEF IInv, TypeOK
  <2>2. window' \in {"open", "closed"} /\ again' \in BOOLEAN
    BY <1>1 DEF Timer
  <2> QED BY <2>1, <2>2, <1>4, <1>5, TypeKeeps
<1>8. StoppedInv'
  BY <1>1, <1>2 DEF StoppedInv
<1>9. CachedAsTheRuleIs'
  BY <1>1 DEF CachedAsTheRuleIs, IInv
<1> QED BY <1>4, <1>5, <1>6, <1>7, <1>8, <1>9 DEF IInv

\* What a cut of the queue leaves.
LEMMA TailIs ==
  ASSUME IInv, writes # << >>
  PROVE  /\ Head(writes) = writes[1] /\ Len(writes) \in Nat \ {0}
         /\ Tail(writes) \in Seq(SavedStates) /\ Len(Tail(writes)) = Len(writes) - 1
         /\ \A i \in 1..Len(Tail(writes)) : Tail(writes)[i] = writes[i + 1]
         /\ Tail(writes) # << >> => Tail(writes)[Len(Tail(writes))] = writes[Len(writes)]
<1>1. writes \in Seq(SavedStates)
  BY RevsInLog
<1>2. /\ Head(writes) = writes[1]
      /\ Tail(writes) \in Seq(SavedStates) /\ Len(Tail(writes)) = Len(writes) - 1
      /\ \A i \in 1..Len(Tail(writes)) : Tail(writes)[i] = writes[i + 1]
  BY <1>1, HeadTailProperties
<1>3. Len(writes) \in Nat \ {0} /\ Len(Tail(writes)) \in Nat
  BY <1>1, <1>2, EmptySeq, LenProperties
<1>4. Tail(writes) # << >> => Len(Tail(writes)) \in 1..Len(Tail(writes))
  BY <1>2, <1>3, EmptySeq
<1> QED BY <1>2, <1>3, <1>4

LEMMA WriteDoneKeeps ==
  ASSUME IInv, WriteDone
  PROVE  IInv'
<1>1. /\ writes # << >> /\ stored' = Head(writes) /\ ~failed' /\ failed' \in BOOLEAN
      /\ writes' = Tail(writes)
      /\ UNCHANGED <<phase, rules, blocklist, cached, window, again, log>>
  BY DEF WriteDone, memory, throttled
<1>2. /\ stored' = writes[1] /\ Len(writes) \in Nat \ {0}
      /\ writes' \in Seq(SavedStates) /\ Len(writes') = Len(writes) - 1
      /\ \A i \in 1..Len(writes') : writes'[i] = writes[i + 1]
      /\ writes' # << >> => writes'[Len(writes')] = writes[Len(writes)]
  BY <1>1, TailIs
<1>3. /\ stored' \in SavedStates /\ stored' \in StoredStates
      /\ Loaded(stored') = stored'.state /\ ~Repaired(stored')
  <2>1. writes[1] \in SavedStates
    BY <1>2, RevsInLog
  <2> QED BY <2>1, <1>2, SavedLoads
<1>4. StoredInv'
  <2>1. stored'.rev \in 1..Len(log) /\ stored'.state = log[stored'.rev]
    BY <1>2, RevsInLog DEF IInv, WritesInv
  <2> QED BY <1>1, <1>3, <2>1 DEF StoredInv, Loaded
<1>5. WritesInv'
  <2>1. ASSUME NEW i \in 1..Len(writes')
        PROVE  /\ stored'.rev <= writes'[i].rev
               /\ writes'[i].rev <= Len(log)
               /\ writes'[i].state = log[writes'[i].rev]
    <3>1. i + 1 \in 1..Len(writes) /\ 1 \in 1..Len(writes) /\ 1 <= i + 1
          /\ writes'[i] = writes[i + 1]
      BY <1>2
    <3>2. writes[1].rev <= writes[i + 1].rev
      BY <3>1 DEF IInv, WritesInv
    <3> QED BY <1>2, <3>1, <3>2 DEF IInv, WritesInv
  <2>2. ASSUME NEW i \in 1..Len(writes'), NEW j \in 1..Len(writes'), i <= j
        PROVE  writes'[i].rev <= writes'[j].rev
    <3>1. i + 1 \in 1..Len(writes) /\ j + 1 \in 1..Len(writes) /\ i + 1 <= j + 1
          /\ writes'[i] = writes[i + 1] /\ writes'[j] = writes[j + 1]
      BY <1>2, <2>2
    <3> QED BY <3>1 DEF IInv, WritesInv
  <2> QED BY <1>1, <1>2, <2>1, <2>2 DEF WritesInv
<1>6. writes' = << >> => Len(writes) = 1
  BY <1>2, EmptySeq
<1>7. ReadyInv'
  <2>1. SUFFICES ASSUME phase = "ready"
                 PROVE  /\ Content = log[Len(log)]
                        /\ window = "open" => ~again
                        /\ ~again /\ writes' # << >> => writes'[Len(writes')].state = Content
                        /\ ~again /\ writes' = << >> => Loaded(stored') = Content
    BY <1>1, <1>3 DEF ReadyInv, Content, Loaded, Repaired
  <2> QED BY <1>1, <1>2, <1>3, <1>6, <2>1 DEF IInv, ReadyInv
<1>8. StoppedInv'
  BY <1>1, <1>2, <1>6 DEF StoppedInv, IInv
<1>9. TypeOK'
  BY <1>1, <1>4, <1>5, TypeKeeps DEF IInv, TypeOK, LogInv, Content
<1>10. CachedAsTheRuleIs' /\ LogInv'
  BY <1>1 DEF CachedAsTheRuleIs, LogInv, IInv
<1> QED BY <1>4, <1>5, <1>7, <1>8, <1>9, <1>10 DEF IInv

LEMMA WriteFailedKeeps ==
  ASSUME IInv, WriteFailed
  PROVE  IInv'
<1>1. /\ writes # << >> /\ failed' = TRUE /\ writes' = Tail(writes)
      /\ log' = IF phase = "ready" THEN log ELSE SubSeq(log, 1, LastRev(writes'))
      /\ UNCHANGED <<phase, rules, blocklist, cached, window, again, stored>>
  BY DEF WriteFailed, memory, throttled, Remembered, LastRev, Last
<1>2. /\ Len(writes) \in Nat \ {0}
      /\ writes' \in Seq(SavedStates) /\ Len(writes') = Len(writes) - 1
      /\ \A i \in 1..Len(writes') : writes'[i] = writes[i + 1]
      /\ writes' # << >> => writes'[Len(writes')] = writes[Len(writes)]
  BY <1>1, TailIs
<1>3. /\ LogInv' /\ StoredInv' /\ WritesInv'
      /\ log' = SubSeq(log, 1, LastRev(writes')) => Len(log') = LastRev(writes')
  <2>1. \A i \in 1..Len(writes') : i + 1 \in 1..Len(writes) /\ writes'[i] = writes[i + 1]
    BY <1>2
  <2> QED BY <1>1, <1>2, <2>1, PartKeeps
<1>4. ReadyInv'
  BY <1>1, <1>2 DEF ReadyInv, IInv, Content
<1>5. StoppedInv'
  <2>1. stored'.rev = stored.rev
    BY <1>1
  <2> QED BY <1>1, <1>3, <2>1 DEF StoppedInv, IInv, LastRev
<1>6. TypeOK'
  BY <1>1, <1>3, TypeKeeps DEF IInv, TypeOK, Content
<1>7. CachedAsTheRuleIs'
  BY <1>1 DEF CachedAsTheRuleIs, IInv
<1> QED BY <1>3, <1>4, <1>5, <1>6, <1>7 DEF IInv

LEMMA LoadKeeps ==
  ASSUME IInv, load
  PROVE  IInv'
<1> DEFINE new == Loaded(stored)
           w == [schema |-> CurrentSchema, state |-> new, rev |-> Len(log)]
<1>1. /\ phase # "ready" /\ phase' = "ready" /\ writes = << >> /\ window = "open" /\ ~again
      /\ rules' = new.rules /\ blocklist' = new.blocklist /\ cached' = NoRules
      /\ ~failed' /\ failed' \in BOOLEAN /\ stored' = stored /\ log' = log
      /\ Len(log) = stored.rev
  BY DEF load, IInv, StoppedInv
<1>2. /\ new = log[Len(log)] /\ new \in GoodStates /\ Len(log) \in Nat \ {0}
  BY <1>1, RevsInLog DEF IInv, StoredInv
<1> HIDE DEF new
<1>3. new \in States /\ Content' = new
  BY <1>1, <1>2 DEF GoodStates, States, Content
<1>4. \/ Repaired(stored) /\ writes' = Append(writes, w) /\ window' = "closed" /\ again' = FALSE
      \/ ~Repaired(stored) /\ writes' = writes /\ window' = window /\ again' = again
  BY <1>1 DEF load, updateStorage, Write, throttled, new
<1>5. LogInv'
  BY <1>1 DEF LogInv, IInv
<1>6. StoredInv' /\ WritesInv'
  BY <1>1, <1>2, <1>4, <1>5, PersistKeeps
<1>7. ReadyInv'
  <2>1. CASE Repaired(stored)
    <3>1. w \in SavedStates /\ w.state = new
      BY <1>2 DEF SavedStates
    <3>2. writes' = Append(writes, w) /\ window' = "closed"
      BY <2>1, <1>4
    <3> HIDE DEF w
    <3>3. Len(writes') = Len(writes) + 1 /\ writes'[Len(writes) + 1] = w /\ Len(writes) \in Nat
      BY <3>1, <3>2, RevsInLog, AppendProperties
    <3>4. writes' # << >> /\ writes'[Len(writes')].state = new
      BY <3>1, <3>3, EmptySeq
    <3> QED BY <1>1, <1>2, <1>3, <3>2, <3>4 DEF ReadyInv
  <2>2. CASE ~Repaired(stored)
    BY <1>1, <1>2, <1>3, <1>4, <2>2 DEF ReadyInv, new, Loaded, Repaired
  <2> QED BY <2>1, <2>2
<1>8. CachedAsTheRuleIs' /\ cached' \in [Rules -> RuleRecords \cup {None}]
  BY <1>1 DEF CachedAsTheRuleIs, NoRules
<1>9. TypeOK'
  <2>1. window' \in {"open", "closed"} /\ again' \in BOOLEAN
    BY <1>1, <1>4 DEF IInv, TypeOK
  <2> QED BY <1>1, <1>3, <1>5, <1>6, <1>8, <2>1, TypeKeeps
<1>10. StoppedInv'
  BY <1>1 DEF StoppedInv
<1> QED BY <1>5, <1>6, <1>7, <1>8, <1>9, <1>10 DEF IInv

LEMMA LoadFailsKeeps ==
  ASSUME IInv, loadFails
  PROVE  IInv'
<1>1. /\ phase = "loading" /\ phase' = "broken"
      /\ UNCHANGED <<rules, blocklist, cached, window, again, writes, stored, failed, log>>
  BY DEF loadFails, memory, throttled
<1>2. LogInv' /\ StoredInv' /\ WritesInv' /\ CachedAsTheRuleIs'
  BY <1>1 DEF IInv, LogInv, StoredInv, WritesInv, CachedAsTheRuleIs, Loaded
<1>3. ReadyInv' /\ StoppedInv'
  BY <1>1 DEF IInv, ReadyInv, StoppedInv
<1>4. TypeOK'
  BY <1>1 DEF IInv, TypeOK, Content
<1> QED BY <1>2, <1>3, <1>4 DEF IInv

LEMMA StopKeeps ==
  ASSUME IInv, Stop
  PROVE  IInv'
<1>1. /\ log' = SubSeq(log, 1, LastRev(writes'))
      /\ phase' = "loading" /\ rules' = NoRules /\ blocklist' = {} /\ cached' = NoRules
      /\ window' = "open" /\ again' = FALSE /\ stored' = stored /\ failed' = failed
  BY DEF Stop, Remembered, LastRev, Last
<1>2. PICK n \in 0..Len(writes) : writes' = SubSeq(writes, 1, n)
  BY DEF Stop
<1>3. /\ writes \in Seq(SavedStates) /\ Len(writes) \in Nat
      /\ \A i \in 1..Len(writes) : writes[i] \in SavedStates
  BY RevsInLog
<1>4. /\ writes' \in Seq(SavedStates) /\ Len(writes') = n
      /\ \A i \in 1..n : writes'[i] = writes[i]
  BY <1>2, <1>3, SubSeqProperties
<1>5. /\ LogInv' /\ StoredInv' /\ WritesInv'
      /\ Len(log') = LastRev(writes')
  <2>1. \A i \in 1..Len(writes') : i + 0 \in 1..Len(writes) /\ writes'[i] = writes[i + 0]
    BY <1>3, <1>4
  <2> QED BY <1>1, <1>4, <2>1, PartKeeps
<1>6. StoppedInv'
  <2>1. stored'.rev = stored.rev
    BY <1>1
  <2> QED BY <1>1, <1>5, <2>1 DEF StoppedInv, LastRev
<1>7. ReadyInv'
  BY <1>1 DEF ReadyInv
<1>8. CachedAsTheRuleIs' /\ cached' \in [Rules -> RuleRecords \cup {None}]
  BY <1>1 DEF CachedAsTheRuleIs, NoRules
<1>9. TypeOK'
  <2>1. Content' \in States
    BY <1>1 DEF Content, States, NoRules
  <2>2. failed' \in BOOLEAN
    BY <1>1 DEF IInv, TypeOK
  <2> QED BY <1>1, <1>5, <1>8, <2>1, <2>2, TypeKeeps
<1> QED BY <1>5, <1>6, <1>7, <1>8, <1>9 DEF IInv

-----------------------------------------------------------------------------
(* The invariant holds *)

LEMMA InitIInv == Init => IInv
<1> SUFFICES ASSUME Init PROVE IInv
  OBVIOUS
<1>1. PICK s \in InitialStates : stored = [schema |-> s.schema, state |-> s.state, rev |-> 1]
  BY DEF Init
<1>2. /\ stored \in StoredStates
      /\ \A r \in Rules, k \in Kinds :
            stored.state.rules[r] \in StoredRules /\ stored.state.rules[r].flag[k] = FALSE
                => stored.state.rules[r].path[k]
      /\ stored.rev = 1
  BY <1>1, StorageAssumption
<1>3. Loaded(stored) \in GoodStates
  BY <1>2, EarlierLoads
<1>4. log = <<Loaded(stored)>> /\ writes = << >> /\ phase = "loading"
      /\ rules = NoRules /\ blocklist = {} /\ cached = NoRules
      /\ window = "open" /\ again = FALSE /\ failed = FALSE
  BY DEF Init
<1>5. log \in Seq(GoodStates) /\ Len(log) = 1 /\ log[1] = Loaded(stored)
      /\ writes \in Seq(SavedStates) /\ Len(writes) = 0
  BY <1>3, <1>4
<1>6. LogInv /\ StoredInv
  BY <1>2, <1>5 DEF LogInv, StoredInv
<1>7. WritesInv
  BY <1>5 DEF WritesInv
<1>8. ReadyInv /\ StoppedInv
  BY <1>2, <1>4, <1>5 DEF ReadyInv, StoppedInv
<1>9. CachedAsTheRuleIs
  BY <1>4 DEF CachedAsTheRuleIs, NoRules
<1>10. TypeOK
  <2>1. Content \in States
    BY <1>4 DEF Content, States, NoRules
  <2>2. cached \in [Rules -> RuleRecords \cup {None}]
    BY <1>4 DEF NoRules
  <2>3. log \in Seq(States)
    BY <1>5 DEF GoodStates
  <2>4. writes \in Seq(StoredStates)
    BY <1>4
  <2> QED BY <1>2, <1>4, <2>1, <2>2, <2>3, <2>4 DEF TypeOK
<1> QED BY <1>6, <1>7, <1>8, <1>9, <1>10 DEF IInv

LEMMA HandlersKeep == IInv /\ Handlers => IInv'
BY AddKeeps, UpdateKeeps, FileEnabledKeeps, RemoveKeeps, SetEnabledKeeps, EnableSiteKeeps,
   DisableSiteKeeps, PageKeeps, ClearKeeps DEF Handlers

LEMMA NextIInv == IInv /\ [Next]_vars => IInv'
<1> SUFFICES ASSUME IInv, [Next]_vars PROVE IInv'
  OBVIOUS
<1>1. CASE UNCHANGED vars
  <2>1. cached' \in [Rules -> RuleRecords \cup {None}] /\ CachedAsTheRuleIs'
    BY <1>1 DEF vars, memory, IInv, TypeOK, CachedAsTheRuleIs
  <2> QED BY <1>1, <2>1, CacheKeeps DEF vars, memory, throttled
<1> QED
  BY <1>1, HandlersKeep, TimerKeeps, WriteDoneKeeps, WriteFailedKeeps, LoadKeeps, LoadFailsKeeps,
     StopKeeps DEF Next

\* The inductive invariant holds in every reachable state: what is stored or on
\* its way to storage is in the history, in order, and the history of a running
\* background ends with its memory (updateStorage, init and the handlers of
\* Injections).
THEOREM Invariance == Spec => []IInv
BY InitIInv, NextIInv, PTL DEF Spec

\* The rules, the throttle, the queue and storage stay well typed, for any rules,
\* drafts and earlier data.
THEOREM TypeCorrect == Spec => []TypeOK
<1>1. IInv => TypeOK
  BY DEF IInv
<1> QED BY <1>1, Invariance, PTL

\* However handlers, timers, failing writes and restarts interleave, a background
\* at rest has saved the whole of its latest state in the current form
\* (updateStorage and its throttle).
THEOREM RestIsSaved == Spec => []QuietIsSaved
<1>1. IInv => QuietIsSaved
  BY DEF IInv, ReadyInv, QuietIsSaved
<1> QED BY <1>1, Invariance, PTL

\* A file a rule does not have is never switched off, through any edits, saves
\* and restarts, if it was not in the data of earlier versions (updateInjection,
\* setInjectionFileEnabled, normalizeInjectionRule).
THEOREM FlagsFollowPaths == Spec => []NoStaleFlags
<1>1. IInv => NoStaleFlags
  <2> SUFFICES ASSUME IInv, phase = "ready" PROVE NoStaleFlags
    BY DEF NoStaleFlags
  <2> QED BY RulesAre DEF NoStaleFlags
<1> QED BY <1>1, Invariance, PTL

\* No handler that changes a rule or blocks a site leaves an entry of the cache
\* that was read for what the rule was (invalidate in the mutating handlers).
THEOREM CacheFollowsRules == Spec => []CachedAsTheRuleIs
<1>1. IInv => CachedAsTheRuleIs
  BY DEF IInv
<1> QED BY <1>1, Invariance, PTL

-----------------------------------------------------------------------------
(* Storage implements DurableState *)

LEMMA SameForPromise ==
  ASSUME UNCHANGED <<phase, rules, blocklist, stored, log>>
  PROVE  UNCHANGED Recoverable!vars
BY DEF Recoverable!vars, Content, Loaded

\* A handler changes the memory as a whole, or not at all.
LEMMA BecomeChanges ==
  ASSUME IInv, IInv', phase = "ready", NEW nr, NEW nb, Become(nr, nb)
  PROVE  Recoverable!Change \/ UNCHANGED Recoverable!vars
<1>1. /\ Content' = [rules |-> nr, blocklist |-> nb]
      /\ log' = IF Content' = Content THEN log ELSE Append(log, Content')
      /\ phase' = "ready" /\ stored' = stored
  BY DEF Become, Content
<1>2. Content' # Down /\ Content # Down
  BY DraftsAssumption DEF IInv, TypeOK
<1>3. Loaded(stored)' = Loaded(stored) /\ (stored.rev)' = stored.rev
  BY <1>1 DEF Loaded
<1>4. CASE Content' = Content
  BY <1>1, <1>3, <1>4 DEF Recoverable!vars
<1>5. CASE Content' # Content
  BY <1>1, <1>2, <1>3, <1>5 DEF Recoverable!Change
<1> QED BY <1>4, <1>5

LEMMA HandlersChange ==
  ASSUME IInv, IInv', Handlers
  PROVE  Recoverable!Change \/ UNCHANGED Recoverable!vars
<1>1. ASSUME NEW r \in Rules, NEW input \in Inputs, NEW enabled \in BOOLEAN,
             addInjection(r, input, enabled)
      PROVE  \E nr, nb : Become(nr, nb) /\ phase = "ready"
  BY <1>1 DEF addInjection
<1>2. ASSUME NEW r \in Rules, NEW input \in Inputs, updateInjection(r, input)
      PROVE  \E nr, nb : Become(nr, nb) /\ phase = "ready"
  BY <1>2 DEF updateInjection
<1>3. ASSUME NEW r \in Rules, NEW k \in Kinds, NEW enabled \in BOOLEAN,
             setInjectionFileEnabled(r, k, enabled)
      PROVE  \E nr, nb : Become(nr, nb) /\ phase = "ready"
  BY <1>3 DEF setInjectionFileEnabled
<1>4. ASSUME NEW r \in Rules, removeInjection(r)
      PROVE  \E nr, nb : Become(nr, nb) /\ phase = "ready"
  BY <1>4 DEF removeInjection
<1>5. ASSUME NEW r \in Rules, NEW enabled \in BOOLEAN, setInjectionEnabled(r, enabled)
      PROVE  \E nr, nb : Become(nr, nb) /\ phase = "ready"
  BY <1>5 DEF setInjectionEnabled
<1>6. ASSUME NEW h \in Hosts, enableInjectionsForSite(h) \/ disableInjectionsForSite(h)
      PROVE  \E nr, nb : Become(nr, nb) /\ phase = "ready"
  BY <1>6 DEF enableInjectionsForSite, disableInjectionsForSite
<1>7. ASSUME \/ \E h \in Hosts : getPageInjections(h)
             \/ clearSourceCache
      PROVE  UNCHANGED Recoverable!vars
  BY <1>7, SameForPromise DEF getPageInjections, clearSourceCache
<1>8. (\E nr, nb : Become(nr, nb) /\ phase = "ready") \/ UNCHANGED Recoverable!vars
  BY <1>1, <1>2, <1>3, <1>4, <1>5, <1>6, <1>7 DEF Handlers
<1> QED BY <1>8, BecomeChanges

\* The oldest write is done: a later state is saved, whole.
LEMMA WriteDoneSaves ==
  ASSUME IInv, WriteDone
  PROVE  Recoverable!Save
<1>1. writes # << >> /\ stored' = Head(writes)
      /\ UNCHANGED <<phase, rules, blocklist, log>>
  BY DEF WriteDone, memory
<1>2. stored' = writes[1] /\ 1 \in 1..Len(writes)
  BY <1>1, TailIs
<1>3. writes[1] \in SavedStates /\ writes[1].rev \in 1..Len(log)
  BY <1>2, RevsInLog
<1>4. Loaded(writes[1]) = log[writes[1].rev] /\ stored.rev <= writes[1].rev
  BY <1>2, <1>3, SavedLoads DEF IInv, WritesInv
<1>5. (stored.rev)' = writes[1].rev /\ Loaded(stored)' = log[writes[1].rev]
  BY <1>2, <1>4 DEF Loaded
<1>6. writes[1].rev \in stored.rev..Len(log)
  BY <1>3, <1>4, RevsInLog
<1> QED BY <1>1, <1>5, <1>6 DEF Recoverable!Save, Content

\* The background stops with a part of its writes, or one fails after it: the
\* newest changes are lost.
LEMMA StopCrashes ==
  ASSUME IInv, Stop \/ (WriteFailed /\ phase # "ready")
  PROVE  Recoverable!Crash
<1>1. /\ phase' # "ready" /\ stored' = stored
      /\ log' = SubSeq(log, 1, LastRev(writes'))
  BY DEF Stop, WriteFailed, Remembered, LastRev, Last
<1>2. LastRev(writes') \in stored.rev..Len(log)
  <2>1. /\ writes \in Seq(SavedStates) /\ Len(writes) \in Nat
        /\ \A i \in 1..Len(writes) : writes[i] \in SavedStates
    BY RevsInLog
  <2>2. CASE Stop
    <3>1. PICK n \in 0..Len(writes) : writes' = SubSeq(writes, 1, n)
      BY <2>2 DEF Stop
    <3>2. /\ writes' \in Seq(SavedStates) /\ Len(writes') = n
          /\ \A i \in 1..n : writes'[i] = writes[i]
      BY <3>1, <2>1, SubSeqProperties
    <3>3. \A i \in 1..Len(writes') : i + 0 \in 1..Len(writes) /\ writes'[i] = writes[i + 0]
      BY <2>1, <3>2
    <3> QED BY <1>1, <3>2, <3>3, PartKeeps
  <2>3. CASE WriteFailed
    <3>1. writes # << >> /\ writes' = Tail(writes)
      BY <2>3 DEF WriteFailed
    <3>2. /\ writes' \in Seq(SavedStates)
          /\ \A i \in 1..Len(writes') : i + 1 \in 1..Len(writes) /\ writes'[i] = writes[i + 1]
      BY <3>1, TailIs
    <3> QED BY <1>1, <3>2, PartKeeps
  <2> QED BY <2>2, <2>3
<1>3. Loaded(stored)' = Loaded(stored) /\ (stored.rev)' = stored.rev
  BY <1>1 DEF Loaded
<1> QED BY <1>1, <1>2, <1>3 DEF Recoverable!Crash

LEMMA LoadLoads ==
  ASSUME IInv, load
  PROVE  Recoverable!Load
<1>1. /\ phase # "ready" /\ phase' = "ready" /\ stored' = stored /\ log' = log
      /\ rules' = Loaded(stored).rules /\ blocklist' = Loaded(stored).blocklist
      /\ Len(log) = stored.rev
  BY DEF load, IInv, StoppedInv
<1>2. Loaded(stored) = log[Len(log)] /\ Loaded(stored) \in States
  BY <1>1, RevsInLog DEF IInv, StoredInv, GoodStates
<1>3. Content' = Loaded(stored)
  BY <1>1, <1>2 DEF Content, States
<1>4. Loaded(stored)' = Loaded(stored) /\ (stored.rev)' = stored.rev
  BY <1>1 DEF Loaded
<1> QED BY <1>1, <1>2, <1>3, <1>4 DEF Recoverable!Load

\* Storage implements DurableState: whatever fails and whenever the browser stops
\* the background, a restart comes back to a state the rules were in as a whole,
\* and never to one older than the last save.
THEOREM Implements == Spec => NeverTorn
<1>1. Init => Recoverable!Init
  <2> SUFFICES ASSUME Init PROVE Recoverable!Init
    OBVIOUS
  <2>1. phase = "loading" /\ stored.rev = 1 /\ log = <<Loaded(stored)>>
    BY DEF Init
  <2>2. Len(log) = 1 /\ log[1] = Loaded(stored)
    BY <2>1
  <2> QED BY <2>1, <2>2 DEF Recoverable!Init
<1>2. IInv /\ IInv' /\ [Next]_vars => [Recoverable!Next]_(Recoverable!vars)
  <2> SUFFICES ASSUME IInv, IInv', [Next]_vars
               PROVE  Recoverable!Next \/ UNCHANGED Recoverable!vars
    OBVIOUS
  <2>1. CASE Handlers
    BY <2>1, HandlersChange DEF Recoverable!Next
  <2>2. CASE WriteDone
    BY <2>2, WriteDoneSaves DEF Recoverable!Next
  <2>3. CASE load
    BY <2>3, LoadLoads DEF Recoverable!Next
  <2>4. CASE Stop
    BY <2>4, StopCrashes DEF Recoverable!Next
  <2>5. CASE WriteFailed
    <3>1. CASE phase = "ready"
      BY <2>5, <3>1, SameForPromise DEF WriteFailed, memory
    <3>2. CASE phase # "ready"
      BY <2>5, <3>2, StopCrashes DEF Recoverable!Next
    <3> QED BY <3>1, <3>2
  <2>6. CASE Timer
    BY <2>6, SameForPromise DEF Timer, memory
  <2>7. CASE loadFails
    <3>1. /\ phase # "ready" /\ phase' # "ready"
          /\ UNCHANGED <<stored, log>>
      BY <2>7 DEF loadFails
    <3> QED BY <3>1 DEF Recoverable!vars, Loaded
  <2>8. CASE UNCHANGED vars
    BY <2>8, SameForPromise DEF vars, memory
  <2> QED BY <2>1, <2>2, <2>3, <2>4, <2>5, <2>6, <2>7, <2>8 DEF Next
<1> QED BY <1>1, <1>2, Invariance, PTL DEF Spec, NeverTorn, Recoverable!Spec
=============================================================================
