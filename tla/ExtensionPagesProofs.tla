------------------------ MODULE ExtensionPagesProofs ------------------------
(***************************************************************************)
(* Proofs about ExtensionPages, for any rules, sites, locales and numbers  *)
(* of documents, scripts, runs and acts: every variable has its type, the  *)
(* demo card waits for exactly what will answer it and is as new behind a  *)
(* list of rules, what takes effect in a document was asked for by a       *)
(* script of that document, a tab that has settled has exactly the files   *)
(* its rules say, and a page whose calls are answered shows what the       *)
(* background holds.                                                       *)
(*                                                                         *)
(* The argument has five parts.  The writes of the settings chain and the  *)
(* calls of a page that are being written are in step, so that the oldest  *)
(* of these is the one the head of the chain belongs to (Lined).  The card *)
(* that runs has either one poll or one request of its own generation      *)
(* (CardMoves).  A page has its loads of catalogs for the language it was  *)
(* told (LocaleInv).  And the script that has marked the document of the   *)
(* tab is followed from its request to its last style: at each stage what  *)
(* is read, what is on its way and what has taken effect make up what the  *)
(* rules say, unless something it does not know of has happened since      *)
(* (~current) or the popup will have the tab reloaded (Pending).           *)
(*                                                                         *)
(* The fifth part is an invariant of its own beside IInv.  While answers   *)
(* are on their way a page need not show what the background holds, but    *)
(* the answers lead there: a function of the place in the line of calls    *)
(* says what the page will show when all those before it have come (Story).*)
(* It begins with what is shown and ends with what is held.                *)
(***************************************************************************)
EXTENDS ExtensionPages, SequenceTheorems, FiniteSetTheorems, WellFoundedInduction,
        TLAPS

-----------------------------------------------------------------------------
(* Sequences *)

\* A nonempty set of naturals has a least element.
LEMMA LeastNat ==
  ASSUME NEW T, T \subseteq Nat, T # {}
  PROVE  \E n \in T : \A k \in T : n <= k
<1> DEFINE R == {ss \in Nat \X Nat : ss[1] < ss[2]}
<1>1. IsWellFoundedOn(R, Nat)
  BY NatLessThanWellFounded DEF OpToRel
<1>2. PICK x \in T : \A y \in T : ~(<<y, x>> \in R)
  BY <1>1, WFMin
<1>3. \A a, b \in Nat : a < b => <<a, b>> \in R
  OBVIOUS
<1> HIDE DEF R
<1>4. \A y \in T : ~(y < x)
  BY <1>2, <1>3
<1> QED BY <1>4

\* The places of a sequence.
LEMMA Places ==
  ASSUME NEW S, NEW s \in Seq(S)
  PROVE  /\ Len(s) \in Nat /\ DOMAIN s = 1..Len(s)
         /\ \A j \in DOMAIN s : j \in Nat /\ 1 <= j /\ j <= Len(s) /\ s[j] \in S
<1>1. Len(s) \in Nat /\ DOMAIN s = 1..Len(s)
  BY LenProperties
<1>2. \A j \in 1..Len(s) : s[j] \in S
  BY ElementOfSeq
<1> QED BY <1>1, <1>2

\* An element less, the others in their order.
LEMMA RemovedAt ==
  ASSUME NEW S, NEW s \in Seq(S), NEW i \in DOMAIN s
  PROVE  /\ RemoveAt(s, i) \in Seq(S)
         /\ Len(RemoveAt(s, i)) = Len(s) - 1
         /\ \A j \in 1..(Len(s) - 1) : RemoveAt(s, i)[j] = IF j < i THEN s[j] ELSE s[j + 1]
<1>1. Len(s) \in Nat /\ DOMAIN s = 1..Len(s) /\ i \in 1..Len(s)
  BY LenProperties
<1>2. \A j \in 1..Len(s) : s[j] \in S
  BY ElementOfSeq
<1> DEFINE front == SubSeq(s, 1, i - 1)
           back == SubSeq(s, i + 1, Len(s))
           rest == RemoveAt(s, i)
<1>3. /\ front \in Seq(S)
      /\ Len(front) = i - 1
      /\ \A j \in 1..(i - 1) : front[j] = s[j]
  <2>1. \A j \in 1..(i - 1) : s[j] \in S
    BY <1>1, <1>2
  <2> QED BY <2>1, <1>1, SubSeqProperties
<1>4. /\ back \in Seq(S)
      /\ Len(back) = Len(s) - i
      /\ \A j \in 1..(Len(s) - i) : back[j] = s[i + j]
  <2>1. \A j \in (i + 1)..Len(s) : s[j] \in S
    BY <1>1, <1>2
  <2>2. /\ back \in Seq(S)
        /\ Len(back) = IF i + 1 <= Len(s) THEN Len(s) - (i + 1) + 1 ELSE 0
        /\ \A j \in 1..(Len(s) - (i + 1) + 1) : back[j] = s[(i + 1) + j - 1]
    BY <2>1, <1>1, SubSeqProperties
  <2> HIDE DEF back
  <2>3. Len(back) = Len(s) - i
    BY <2>2, <1>1
  <2>4. ASSUME NEW j \in 1..(Len(s) - i)
        PROVE  back[j] = s[i + j]
    <3>1. j \in 1..(Len(s) - (i + 1) + 1) /\ (i + 1) + j - 1 = i + j
      BY <1>1
    <3> QED BY <3>1, <2>2
  <2> QED BY <2>2, <2>3, <2>4
<1>5. rest = front \o back
  BY DEF RemoveAt
<1> HIDE DEF front, back
<1>6. /\ rest \in Seq(S)
      /\ Len(rest) = Len(front) + Len(back)
      /\ \A j \in 1..(Len(front) + Len(back)) :
            rest[j] = IF j <= Len(front) THEN front[j] ELSE back[j - Len(front)]
  <2>1. front \in Seq(S) /\ back \in Seq(S)
    BY <1>3, <1>4
  <2> HIDE DEF rest
  <2> QED BY <2>1, <1>5, ConcatProperties, Zenon
<1> HIDE DEF rest
<1>7. Len(rest) = Len(s) - 1
  BY <1>6, <1>1, <1>3, <1>4
<1>8. ASSUME NEW j \in 1..(Len(s) - 1)
      PROVE  rest[j] = IF j < i THEN s[j] ELSE s[j + 1]
  <2>1. j \in 1..(Len(front) + Len(back))
    BY <1>1, <1>3, <1>4
  <2>2. CASE j < i
    <3>1. j \in 1..(i - 1) /\ j <= Len(front)
      BY <2>2, <1>1, <1>3
    <3> QED BY <3>1, <2>1, <2>2, <1>6, <1>3
  <2>3. CASE ~(j < i)
    <3>1. /\ ~(j <= Len(front))
          /\ j - Len(front) \in 1..(Len(s) - i)
          /\ i + (j - Len(front)) = j + 1
      BY <2>3, <1>1, <1>3
    <3>2. rest[j] = back[j - Len(front)]
      BY <3>1, <2>1, <1>6
    <3> QED BY <3>1, <3>2, <2>3, <1>4
  <2> QED BY <2>2, <2>3
<1> QED BY <1>6, <1>7, <1>8 DEF rest

\* Another element in its place.
LEMMA ReplacedAt ==
  ASSUME NEW S, NEW s \in Seq(S), NEW i \in DOMAIN s, NEW c \in S
  PROVE  /\ [s EXCEPT ![i] = c] \in Seq(S)
         /\ Len([s EXCEPT ![i] = c]) = Len(s)
         /\ DOMAIN [s EXCEPT ![i] = c] = DOMAIN s
         /\ \A j \in DOMAIN s : [s EXCEPT ![i] = c][j] = IF j = i THEN c ELSE s[j]
<1>1. Len(s) \in Nat /\ s \in [1..Len(s) -> S] /\ DOMAIN s = 1..Len(s)
  BY LenProperties
<1> DEFINE t == [s EXCEPT ![i] = c]
<1>2. t \in [1..Len(s) -> S] /\ \A j \in DOMAIN s : t[j] = IF j = i THEN c ELSE s[j]
  BY <1>1
<1> HIDE DEF t
<1>3. t \in Seq(S)
  BY <1>1, <1>2
<1>4. Len(t) = Len(s)
  BY <1>1, <1>2, <1>3, LenProperties
<1>5. DOMAIN t = DOMAIN s
  BY <1>1, <1>2
<1> QED BY <1>2, <1>3, <1>4, <1>5 DEF t

\* One more element.
LEMMA Appended ==
  ASSUME NEW S, NEW s \in Seq(S), NEW c \in S
  PROVE  /\ Append(s, c) \in Seq(S)
         /\ Len(Append(s, c)) = Len(s) + 1
         /\ DOMAIN Append(s, c) = 1..(Len(s) + 1)
         /\ \A j \in DOMAIN s : Append(s, c)[j] = s[j]
         /\ Append(s, c)[Len(s) + 1] = c
<1>1. Len(s) \in Nat /\ DOMAIN s = 1..Len(s)
  BY LenProperties
<1>2. /\ Append(s, c) \in Seq(S)
      /\ Len(Append(s, c)) = Len(s) + 1
      /\ \A j \in 1..Len(s) : Append(s, c)[j] = s[j]
      /\ Append(s, c)[Len(s) + 1] = c
  BY AppendProperties
<1>3. DOMAIN Append(s, c) = 1..(Len(s) + 1)
  BY <1>2, LenProperties
<1> QED BY <1>1, <1>2, <1>3

-----------------------------------------------------------------------------
(* The card of the demo *)

\* The requests of the current run that are awaited.
Mine == {a \in awaited : ~Dropped(a)}

\* A running card has one poll or one request, any other card none.
CardMoves ==
    /\ status # "running" => poll = NoPoll /\ Mine = {}
    /\ status = "running" =>
          \/ poll = NoPoll /\ \E a \in awaited : Mine = {a}
          \/ poll # NoPoll /\ poll.generation = generation /\ Mine = {}

CardInv ==
    /\ CardTypeOK
    /\ CardMoves
    /\ \A a \in awaited : a.generation <= generation

LEMMA CardMovesOnIs ==
  ASSUME CardMoves
  PROVE  CardMovesOn
<1>1. CardMovesOn <=>
        Cardinality(Mine) + (IF poll # NoPoll THEN 1 ELSE 0) = (IF status = "running" THEN 1 ELSE 0)
  BY DEF CardMovesOn, Mine
<1>2. Cardinality({}) = 0
  BY FS_EmptySet
<1>3. \A a : Cardinality({a}) = 1
  BY FS_Singleton
<1>4. CASE status # "running"
  BY <1>1, <1>2, <1>4 DEF CardMoves
<1>5. CASE status = "running" /\ poll = NoPoll
  BY <1>1, <1>3, <1>5 DEF CardMoves
<1>6. CASE status = "running" /\ poll # NoPoll
  BY <1>1, <1>2, <1>6 DEF CardMoves
<1> QED BY <1>4, <1>5, <1>6

LEMMA CardStarts ==
  ASSUME CardInit
  PROVE  CardInv /\ status = "idle"
<1>1. Mine = {}
  BY DEF CardInit, Mine
<1> QED BY <1>1, CardAssumption DEF CardInit, CardInv, CardTypeOK, CardMoves

LEMMA CardStays ==
  ASSUME CardInv, UNCHANGED cardVars
  PROVE  CardInv'
BY DEF CardInv, CardTypeOK, CardMoves, Mine, Dropped, cardVars, NoPoll, Requests

LEMMA RunDemoKeeps ==
  ASSUME CardInv, RunDemo
  PROVE  CardInv'
<1> DEFINE a == [kind |-> "run", generation |-> generation + 1, polls |-> 0]
<1>1. /\ generation \in 0..MaxRuns /\ generation < MaxRuns /\ generation' = generation + 1
      /\ status' = "running" /\ poll' = NoPoll /\ awaited' = awaited \cup {a}
      /\ MaxRuns \in Nat /\ MaxPolls \in Nat \ {0}
  BY CardAssumption DEF CardInv, CardTypeOK, RunDemo
<1>2. a \in Requests /\ a.generation = generation + 1
  BY <1>1 DEF Requests
<1> HIDE DEF a
<1>3. \A b \in awaited : b.generation \in 1..MaxRuns /\ b.generation <= generation
  BY DEF CardInv, CardTypeOK, Requests
<1>4. Mine' = {a}
  <2>1. \A b \in awaited : b.generation # generation'
    BY <1>1, <1>3
  <2> QED BY <2>1, <1>1, <1>2 DEF Mine, Dropped
<1>5. CardMoves'
  BY <1>1, <1>4 DEF CardMoves
<1>6. \A b \in awaited' : b.generation <= generation'
  BY <1>1, <1>2, <1>3
<1>7. CardTypeOK'
  BY <1>1, <1>2 DEF CardInv, CardTypeOK, Requests
<1> QED BY <1>5, <1>6, <1>7 DEF CardInv

LEMMA ResetCardKeeps ==
  ASSUME CardInv, ResetCard
  PROVE  CardInv' /\ status' = "idle"
<1>1. /\ generation \in 0..MaxRuns /\ generation < MaxRuns /\ generation' = generation + 1
      /\ status' = "idle" /\ poll' = NoPoll /\ awaited' = awaited
      /\ MaxRuns \in Nat
  BY CardAssumption DEF CardInv, CardTypeOK, ResetCard
<1>2. \A b \in awaited : b.generation \in 1..MaxRuns /\ b.generation <= generation
  BY DEF CardInv, CardTypeOK, Requests
<1>3. Mine' = {}
  <2>1. \A b \in awaited : b.generation # generation'
    BY <1>1, <1>2
  <2> QED BY <2>1, <1>1 DEF Mine, Dropped
<1>4. \A b \in awaited' : b.generation <= generation'
  BY <1>1, <1>2
<1>5. CardTypeOK'
  BY <1>1 DEF CardInv, CardTypeOK
<1> QED BY <1>1, <1>3, <1>4, <1>5 DEF CardInv, CardMoves

LEMMA PollFiresKeeps ==
  ASSUME CardInv, PollFires
  PROVE  CardInv' /\ status' = status
<1> DEFINE a == [kind |-> "state", generation |-> poll.generation, polls |-> poll.polls]
<1>1. /\ poll # NoPoll /\ poll' = NoPoll /\ awaited' = awaited \cup {a}
      /\ UNCHANGED <<status, generation>>
  BY DEF PollFires
<1>2. poll \in [generation : 1..MaxRuns, polls : 0..(MaxPolls - 1)] /\ MaxPolls \in Nat \ {0}
  BY <1>1, CardAssumption DEF CardInv, CardTypeOK
<1>3. status = "running" /\ poll.generation = generation /\ Mine = {}
  BY <1>1 DEF CardInv, CardMoves
<1>4. a \in Requests /\ a.generation = generation
  BY <1>2, <1>3 DEF Requests
<1> HIDE DEF a
<1>5. Mine' = {a} /\ a \in awaited'
  BY <1>1, <1>3, <1>4 DEF Mine, Dropped
<1>6. CardMoves'
  BY <1>1, <1>3, <1>5 DEF CardMoves
<1>7. CardTypeOK'
  BY <1>1, <1>4 DEF CardInv, CardTypeOK
<1>8. generation <= generation
  BY <1>2, <1>3
<1>9. \A b \in awaited' : b.generation <= generation'
  BY <1>1, <1>4, <1>8 DEF CardInv
<1> QED BY <1>1, <1>6, <1>7, <1>9 DEF CardInv

\* An answer of an earlier generation changes nothing; one of the current
\* generation finds the card running, without a poll and with no other request.
LEMMA AnsweredCardKeeps ==
  ASSUME CardInv, NEW a \in awaited, RunAnswered(a) \/ StateAnswered(a)
  PROVE  CardInv' /\ (status = "idle" => status' = "idle")
<1>1. awaited' = awaited \ {a} /\ generation' = generation
  BY DEF RunAnswered, StateAnswered
<1>2. \A b \in awaited' : b.generation <= generation'
  BY <1>1 DEF CardInv
<1>3. CASE Dropped(a)
  <2>1. UNCHANGED <<status, poll>>
    BY <1>3 DEF RunAnswered, StateAnswered
  <2>2. Mine' = Mine
    BY <1>1, <1>3 DEF Mine, Dropped
  <2>3. \A b : Mine = {b} => b \in Mine
    OBVIOUS
  <2>4. CardMoves'
    BY <1>1, <2>1, <2>2, <2>3 DEF CardInv, CardMoves, Mine
  <2>5. CardTypeOK'
    BY <1>1, <2>1 DEF CardInv, CardTypeOK
  <2> QED BY <2>1, <2>4, <2>5, <1>2 DEF CardInv
<1>4. CASE ~Dropped(a)
  <2>1. a \in Mine /\ a.generation = generation
    BY <1>4 DEF Mine, Dropped
  <2>2. status = "running" /\ poll = NoPoll /\ Mine = {a}
    BY <2>1 DEF CardInv, CardMoves
  <2>3. Mine' = {}
    BY <1>1, <2>2 DEF Mine, Dropped
  <2>4. a \in Requests /\ MaxPolls \in Nat \ {0}
    BY CardAssumption DEF CardInv, CardTypeOK
  <2>5. a.generation \in 1..MaxRuns /\ a.polls \in 0..MaxPolls
    BY <2>4 DEF Requests
  <2>6. CASE UNCHANGED poll /\ status' \in {"applied", "failed"}
    <3>1. CardTypeOK'
      BY <1>1, <2>6 DEF CardInv, CardTypeOK
    <3> QED BY <2>2, <2>3, <2>6, <3>1, <1>2 DEF CardInv, CardMoves
  <2>7. ASSUME NEW n \in 0..(MaxPolls - 1), UNCHANGED status, Schedule(a.generation, n)
        PROVE  CardInv' /\ (status = "idle" => status' = "idle")
    <3>1. PICK q : q = [generation |-> a.generation, polls |-> n]
      OBVIOUS
    <3>2. poll' = q /\ q \in [generation : 1..MaxRuns, polls : 0..(MaxPolls - 1)]
          /\ q.generation = generation /\ q.generation # 0
      BY <2>1, <2>5, <2>7, <3>1 DEF Schedule
    <3>3. q # NoPoll
      BY <3>2 DEF NoPoll
    <3>4. CardTypeOK'
      BY <1>1, <2>7, <3>2 DEF CardInv, CardTypeOK
    <3>5. CardMoves'
      BY <1>1, <2>2, <2>3, <2>7, <3>2, <3>3 DEF CardMoves
    <3> QED BY <3>4, <3>5, <1>2, <2>7 DEF CardInv
  <2>8. CASE RunAnswered(a)
    <3>1. 0 \in 0..(MaxPolls - 1)
      BY <2>4
    <3> QED BY <2>6, <2>7, <2>8, <3>1, <1>4 DEF RunAnswered
  <2>9. CASE StateAnswered(a)
    <3>1. a.polls + 1 >= MaxPolls \/ a.polls + 1 \in 0..(MaxPolls - 1)
      BY <2>4, <2>5
    <3> QED BY <2>6, <2>7, <2>9, <3>1, <1>4 DEF StateAnswered
  <2> QED BY <2>8, <2>9
<1> QED BY <1>3, <1>4

LEMMA CardStepKeeps ==
  ASSUME CardInv, CardStep
  PROVE  CardInv' /\ (status = "idle" => status' = "idle")
BY PollFiresKeeps, AnsweredCardKeeps DEF CardStep

-----------------------------------------------------------------------------
(* The language of a page *)

\* Unless loads overlapped, all that is loaded is the locale the page was told.
LoadsAsTold(p) == ~crossed[p] => \A x \in loads[p] : x.locale = Resolve(ui[p].pref)

\* ... and it is rendered in that locale when no load is left.
Shows(p) == ~crossed[p] /\ loads[p] = {} => ui[p].locale = Resolve(ui[p].pref)

LocaleInv == LocaleTypeOK /\ \A p \in Contexts : LoadsAsTold(p)

\* checkLocale always finds one of the locales.
LEMMA CheckLocaleFinds ==
  ASSUME NEW parts
  PROVE  CheckLocale(parts) \in Locales
<1> DEFINE of(ps) == CHOOSE l \in Locales : Parts[l] = ps
           exists(ps) == \E l \in Locales : Parts[l] = ps
           cousins == {i \in DOMAIN AvailableLocales : Parts[AvailableLocales[i]][1] = parts[1]}
           least(i) == \A j \in cousins : i <= j
           first == CHOOSE i \in cousins : least(i)
<1>1. \A ps : exists(ps) => of(ps) \in Locales
  OBVIOUS
<1>2. BaseLocale \in Locales
  BY LocaleAssumption
<1>3. cousins # {} => AvailableLocales[first] \in Locales
  <2> SUFFICES ASSUME cousins # {} PROVE AvailableLocales[first] \in Locales
    OBVIOUS
  <2>1. cousins \subseteq Nat /\ \A i \in cousins : AvailableLocales[i] \in Locales
    BY LocaleAssumption, LenProperties, ElementOfSeq
  <2>2. PICK i \in cousins : \A j \in cousins : i <= j
    <3> HIDE DEF cousins
    <3> QED BY <2>1, LeastNat
  <2>3. least(i)
    BY <2>2
  <2>4. first \in cousins
    <3> HIDE DEF least, cousins
    <3> QED BY <2>3
  <2> QED BY <2>1, <2>4
<1>4. CheckLocale(parts) \in {of(parts), of(<<"zh", "cn">>), BaseLocale, of(<<parts[1]>>),
                              AvailableLocales[first]}
  BY DEF CheckLocale
<1>5. \/ exists(parts) /\ CheckLocale(parts) = of(parts)
      \/ exists(<<"zh", "cn">>) /\ CheckLocale(parts) = of(<<"zh", "cn">>)
      \/ exists(<<parts[1]>>) /\ CheckLocale(parts) = of(<<parts[1]>>)
      \/ cousins # {} /\ CheckLocale(parts) = AvailableLocales[first]
      \/ CheckLocale(parts) = BaseLocale
  BY DEF CheckLocale
<1> HIDE DEF of, exists, cousins, first
<1> QED BY <1>1, <1>2, <1>3, <1>5

LEMMA ResolvedLocale ==
  ASSUME NEW pref
  PROVE  Resolve(pref) \in Locales
BY CheckLocaleFinds DEF Resolve

LEMMA LocaleStarts ==
  ASSUME NEW there \in SUBSET Contexts, LocaleInit(there)
  PROVE  /\ LocaleInv
         /\ \A p \in Contexts : ui[p].pref = LanguageAuto
         /\ \A p \in there : Shows(p)
<1>1. Resolve(LanguageAuto) \in Locales /\ BaseLocale \in Locales /\ LanguageAuto \in Preferences
  BY ResolvedLocale, LocaleAssumption DEF Preferences
<1>2. FreshUI \in [pref : Preferences, locale : Locales, isLoading : BOOLEAN, initialized : BOOLEAN]
      /\ FreshUI.pref = LanguageAuto
  BY <1>1 DEF FreshUI
<1>3. PICK shown : shown = Rendered(FreshUI, Resolve(LanguageAuto))
  OBVIOUS
<1>4. shown \in [pref : Preferences, locale : Locales, isLoading : BOOLEAN, initialized : BOOLEAN]
      /\ shown.pref = LanguageAuto /\ shown.locale = Resolve(LanguageAuto)
  BY <1>1, <1>3 DEF FreshUI, Rendered
<1>5. ui = [p \in Contexts |-> IF p \in there THEN shown ELSE FreshUI]
  BY <1>3 DEF LocaleInit
<1>6. /\ cache = [p \in Contexts |-> IF p \in there THEN {BaseLocale, Resolve(LanguageAuto)} ELSE {}]
      /\ loads = [p \in Contexts |-> {}]
      /\ crossed = [p \in Contexts |-> FALSE]
  BY DEF LocaleInit
<1>7. LocaleTypeOK
  BY <1>1, <1>2, <1>4, <1>5, <1>6 DEF LocaleTypeOK
<1>8. \A p \in Contexts : LoadsAsTold(p)
  BY <1>6 DEF LoadsAsTold
<1>9. \A p \in Contexts : ui[p].pref = LanguageAuto
  BY <1>2, <1>4, <1>5
<1>10. \A p \in there : Shows(p)
  BY <1>4, <1>5, <1>9 DEF Shows
<1> QED BY <1>7, <1>8, <1>9, <1>10 DEF LocaleInv

LEMMA LocaleStays ==
  ASSUME LocaleInv, UNCHANGED localeVars
  PROVE  /\ LocaleInv'
         /\ \A p \in Contexts : ui'[p].pref = ui[p].pref /\ (Shows(p) => Shows(p)')
BY DEF LocaleInv, LocaleTypeOK, LoadsAsTold, Shows, localeVars

\* The page is told a language.
LEMMA SetPreferenceKeeps ==
  ASSUME LocaleInv, NEW p \in Contexts, NEW pref \in Preferences, NEW force \in BOOLEAN,
         SetPreference(p, pref, force)
  PROVE  /\ LocaleInv'
         /\ ui'[p].pref = pref
         /\ force \/ Shows(p) => Shows(p)'
         /\ \A q \in Contexts \ {p} : ui'[q].pref = ui[q].pref /\ (Shows(q) => Shows(q)')
<1> DEFINE Record == [pref : Preferences, locale : Locales, isLoading : BOOLEAN, initialized : BOOLEAN]
<1>1. /\ ui \in [Contexts -> Record]
      /\ cache \in [Contexts -> SUBSET Locales]
      /\ loads \in [Contexts -> SUBSET [locale : Locales, at : Locales]]
      /\ crossed \in [Contexts -> BOOLEAN]
  BY DEF LocaleInv, LocaleTypeOK
<1>2. CASE ~force /\ pref = ui[p].pref /\ UNCHANGED localeVars
  BY <1>2, LocaleStays
<1>3. CASE ~(~force /\ ui[p].initialized /\ ~ui[p].isLoading /\ pref = ui[p].pref)
  <2>1. PICK wanted \in Locales : wanted = Resolve(pref)
    BY ResolvedLocale
  <2>2. PICK asked : asked = [ui[p] EXCEPT !.pref = pref, !.isLoading = TRUE]
    OBVIOUS
  <2>3. PICK waits : waits = [locale |-> wanted,
                              at |-> IF BaseLocale \in cache[p] THEN wanted ELSE BaseLocale]
    OBVIOUS
  <2>4. asked \in Record /\ asked.pref = pref
    BY <1>1, <2>2
  <2>5. waits \in [locale : Locales, at : Locales] /\ waits.locale = wanted
    BY <2>3, LocaleAssumption
  <2>6. PICK shown : shown = Rendered(asked, wanted)
    OBVIOUS
  <2>7. shown \in Record /\ shown.pref = pref /\ shown.locale = wanted
    BY <2>4, <2>6 DEF Rendered
  <2>8. /\ crossed' = [crossed EXCEPT ![p] = \E x \in loads[p] : x.locale # wanted]
        /\ UNCHANGED cache
        /\ \/ ui' = [ui EXCEPT ![p] = shown] /\ UNCHANGED loads
           \/ ui' = [ui EXCEPT ![p] = asked] /\ loads' = [loads EXCEPT ![p] = @ \cup {waits}]
    BY <1>3, <2>1, <2>2, <2>3, <2>6 DEF SetPreference
  <2>9. ASSUME NEW q \in Contexts \ {p}
        PROVE  ui'[q] = ui[q] /\ loads'[q] = loads[q] /\ crossed'[q] = crossed[q]
    BY <1>1, <2>8
  <2>10. crossed'[p] = \E x \in loads[p] : x.locale # wanted
    BY <1>1, <2>8
  <2>11. LocaleTypeOK'
    <3>1. ui' \in [Contexts -> Record]
      BY <1>1, <2>4, <2>7, <2>8
    <3>2. loads' \in [Contexts -> SUBSET [locale : Locales, at : Locales]]
      BY <1>1, <2>5, <2>8
    <3>3. crossed' \in [Contexts -> BOOLEAN]
      BY <1>1, <2>8
    <3> QED BY <1>1, <2>8, <3>1, <3>2, <3>3 DEF LocaleTypeOK
  <2>12. ui'[p].pref = pref /\ LoadsAsTold(p)' /\ Shows(p)'
    <3>1. CASE ui' = [ui EXCEPT ![p] = shown] /\ UNCHANGED loads
      <4>1. ui'[p] = shown
        BY <1>1, <3>1
      <4> QED BY <2>1, <2>7, <2>10, <3>1, <4>1 DEF LoadsAsTold, Shows
    <3>2. CASE ui' = [ui EXCEPT ![p] = asked] /\ loads' = [loads EXCEPT ![p] = @ \cup {waits}]
      <4>1. ui'[p] = asked /\ loads'[p] = loads[p] \cup {waits}
        BY <1>1, <3>2
      <4> QED BY <2>1, <2>4, <2>5, <2>10, <4>1 DEF LoadsAsTold, Shows
    <3> QED BY <2>8, <3>1, <3>2
  <2>13. ASSUME NEW q \in Contexts \ {p} PROVE LoadsAsTold(q)' /\ (Shows(q) => Shows(q)')
    BY <2>9 DEF LocaleInv, LoadsAsTold, Shows
  <2>14. \A q \in Contexts : LoadsAsTold(q)'
    BY <2>12, <2>13
  <2> QED BY <2>9, <2>11, <2>12, <2>13, <2>14 DEF LocaleInv
<1>4. CASE ~force /\ ui[p].initialized /\ ~ui[p].isLoading /\ pref = ui[p].pref
  <2>1. UNCHANGED localeVars
    BY <1>4 DEF SetPreference
  <2> QED BY <1>2, <1>4, <2>1
<1> QED BY <1>3, <1>4

\* A catalog arrives, or fails to.
LEMMA CatalogKeeps ==
  ASSUME LocaleInv, NEW p \in Contexts, NEW catalog \in Locales,
         CatalogArrives(p, catalog) \/ CatalogFails(p, catalog)
  PROVE  /\ LocaleInv'
         /\ \A q \in Contexts : ui'[q].pref = ui[q].pref /\ (Shows(q) => Shows(q)')
<1> DEFINE Record == [pref : Preferences, locale : Locales, isLoading : BOOLEAN, initialized : BOOLEAN]
<1>1. /\ ui \in [Contexts -> Record]
      /\ cache \in [Contexts -> SUBSET Locales]
      /\ loads \in [Contexts -> SUBSET [locale : Locales, at : Locales]]
      /\ crossed \in [Contexts -> BOOLEAN]
      /\ LoadsAsTold(p)
  BY DEF LocaleInv, LocaleTypeOK
<1>2. \A l \in Locales : Rendered(ui[p], l) \in Record
        /\ Rendered(ui[p], l).pref = ui[p].pref /\ Rendered(ui[p], l).locale = l
  BY <1>1 DEF Rendered
<1>3. CASE CatalogFails(p, catalog)
  <2>1. PICK shown : shown = Rendered(ui[p], BaseLocale)
    OBVIOUS
  <2>2. shown \in Record /\ shown.pref = ui[p].pref
    BY <1>2, <2>1, LocaleAssumption
  <2>3. /\ loads' = [loads EXCEPT ![p] = @ \ Waiting(p, catalog)]
        /\ ui' = [ui EXCEPT ![p] = shown]
        /\ crossed' = [crossed EXCEPT ![p] = TRUE]
        /\ UNCHANGED cache
    BY <1>3, <2>1 DEF CatalogFails
  <2>4. LocaleTypeOK'
    BY <1>1, <2>2, <2>3 DEF LocaleTypeOK
  <2>5. crossed'[p] /\ ui'[p].pref = ui[p].pref
    BY <1>1, <2>2, <2>3
  <2>6. ASSUME NEW q \in Contexts, q # p
        PROVE  ui'[q] = ui[q] /\ loads'[q] = loads[q] /\ crossed'[q] = crossed[q]
    BY <1>1, <2>3, <2>6
  <2>7. ASSUME NEW q \in Contexts
        PROVE  LoadsAsTold(q)' /\ ui'[q].pref = ui[q].pref /\ (Shows(q) => Shows(q)')
    <3>1. CASE q = p
      BY <2>5, <3>1 DEF LoadsAsTold, Shows
    <3>2. CASE q # p
      BY <2>6, <3>2 DEF LocaleInv, LoadsAsTold, Shows
    <3> QED BY <3>1, <3>2
  <2> QED BY <2>4, <2>7 DEF LocaleInv
<1>4. CASE CatalogArrives(p, catalog)
  <2> DEFINE done == {x \in Waiting(p, catalog) : x.locale = catalog}
             on == Waiting(p, catalog) \ done
             next == {[locale |-> x.locale, at |-> x.locale] : x \in on}
  <2>1. Waiting(p, catalog) \subseteq loads[p]
    BY DEF Waiting
  <2>2. /\ loads' = [loads EXCEPT ![p] = (loads[p] \ Waiting(p, catalog)) \cup next]
        /\ ui' = IF done = {} THEN ui ELSE [ui EXCEPT ![p] = Rendered(ui[p], catalog)]
        /\ cache' = [cache EXCEPT ![p] = cache[p] \cup {catalog}]
        /\ UNCHANGED crossed
        /\ Waiting(p, catalog) # {}
    BY <1>4 DEF CatalogArrives
  <2>3. next \in SUBSET [locale : Locales, at : Locales]
        /\ \A x \in next : \E y \in loads[p] : x.locale = y.locale
    BY <1>1, <2>1
  <2>4. done = {} => next # {}
    BY <2>2
  <2>5. \A x \in done : x \in loads[p] /\ x.locale = catalog
    BY <2>1
  <2> HIDE DEF done, on, next
  <2>6. PICK shown \in Record : shown = Rendered(ui[p], catalog)
    BY <1>2
  <2>7. shown.pref = ui[p].pref /\ shown.locale = catalog
    BY <1>2, <2>6
  <2>8. ui' = IF done = {} THEN ui ELSE [ui EXCEPT ![p] = shown]
    BY <2>2, <2>6
  <2>9. LocaleTypeOK'
    <3>1. ui' \in [Contexts -> Record]
      BY <1>1, <2>8
    <3>2. loads' \in [Contexts -> SUBSET [locale : Locales, at : Locales]]
      BY <1>1, <2>2, <2>3
    <3>3. cache' \in [Contexts -> SUBSET Locales]
      BY <1>1, <2>2
    <3> QED BY <1>1, <2>2, <3>1, <3>2, <3>3 DEF LocaleTypeOK
  <2>10. ui'[p].pref = ui[p].pref /\ loads'[p] = (loads[p] \ Waiting(p, catalog)) \cup next
         /\ crossed'[p] = crossed[p]
    BY <1>1, <2>2, <2>7, <2>8
  <2>11. LoadsAsTold(p)'
    BY <1>1, <2>3, <2>10 DEF LoadsAsTold
  <2>12. Shows(p)'
    <3>1. CASE done = {}
      BY <2>4, <2>10, <3>1 DEF Shows
    <3>2. CASE done # {}
      <4>1. ui'[p].locale = catalog
        BY <1>1, <2>7, <2>8, <3>2
      <4>2. ~crossed[p] => catalog = Resolve(ui[p].pref)
        BY <1>1, <2>5, <3>2 DEF LoadsAsTold
      <4> QED BY <4>1, <4>2, <2>10 DEF Shows
    <3> QED BY <3>1, <3>2
  <2>13. ASSUME NEW q \in Contexts, q # p
         PROVE  ui'[q] = ui[q] /\ loads'[q] = loads[q] /\ crossed'[q] = crossed[q]
    BY <1>1, <2>2, <2>8, <2>13
  <2>14. ASSUME NEW q \in Contexts
         PROVE  LoadsAsTold(q)' /\ ui'[q].pref = ui[q].pref /\ (Shows(q) => Shows(q)')
    <3>1. CASE q = p
      BY <2>10, <2>11, <2>12, <3>1
    <3>2. CASE q # p
      BY <2>13, <3>2 DEF LocaleInv, LoadsAsTold, Shows
    <3> QED BY <3>1, <3>2
  <2> QED BY <2>9, <2>14 DEF LocaleInv
<1> QED BY <1>3, <1>4

\* The page closes.
LEMMA ForgetLocaleKeeps ==
  ASSUME LocaleInv, NEW p \in Contexts, ForgetLocale(p)
  PROVE  /\ LocaleInv'
         /\ \A q \in Contexts \ {p} : ui'[q].pref = ui[q].pref /\ (Shows(q) => Shows(q)')
<1>1. /\ ui \in [Contexts -> [pref : Preferences, locale : Locales, isLoading : BOOLEAN,
                              initialized : BOOLEAN]]
      /\ cache \in [Contexts -> SUBSET Locales]
      /\ loads \in [Contexts -> SUBSET [locale : Locales, at : Locales]]
      /\ crossed \in [Contexts -> BOOLEAN]
  BY DEF LocaleInv, LocaleTypeOK
<1>2. FreshUI \in [pref : Preferences, locale : Locales, isLoading : BOOLEAN, initialized : BOOLEAN]
  BY LocaleAssumption DEF FreshUI, Preferences
<1>3. /\ ui' = [ui EXCEPT ![p] = FreshUI]
      /\ cache' = [cache EXCEPT ![p] = {}] /\ loads' = [loads EXCEPT ![p] = {}]
      /\ crossed' = [crossed EXCEPT ![p] = FALSE]
  BY DEF ForgetLocale
<1>4. LocaleTypeOK'
  BY <1>1, <1>2, <1>3 DEF LocaleTypeOK
<1>5. ASSUME NEW q \in Contexts, q # p
      PROVE  ui'[q] = ui[q] /\ loads'[q] = loads[q] /\ crossed'[q] = crossed[q]
  BY <1>1, <1>3, <1>5
<1>6. loads'[p] = {}
  BY <1>1, <1>3
<1>7. ASSUME NEW q \in Contexts PROVE LoadsAsTold(q)' /\ (q # p => (Shows(q) => Shows(q)'))
  BY <1>5, <1>6 DEF LocaleInv, LoadsAsTold, Shows
<1> QED BY <1>4, <1>5, <1>7 DEF LocaleInv

-----------------------------------------------------------------------------
(* The writes in the chain and the calls they belong to *)

CallRecords ==
    [op : Ops, rule : {0} \cup RuleIds, site : {None} \cup Sites,
     what : {"none"} \cup Kinds \cup Preferences, value : BOOLEAN,
     pc : {"sent", "writing", "handled", "failed"}, reply : {None} \cup RuleRecords]

WriteRecords ==
    [page : Pages, op : {"pause", "language"}, what : {"none"} \cup Preferences, value : BOOLEAN]

\* Sequences of them, to be looked into only by the lemmas that follow.
CallSeq(s) == s \in Seq(CallRecords)
WriteSeq(w) == w \in Seq(WriteRecords)

LEMMA CallPlaces ==
  ASSUME NEW s, CallSeq(s)
  PROVE  \E n \in Nat : Len(s) = n /\ DOMAIN s = 1..n /\ \A j \in 1..n : s[j] \in CallRecords
BY Places DEF CallSeq

LEMMA WritePlaces ==
  ASSUME NEW w, WriteSeq(w)
  PROVE  \E n \in Nat : Len(w) = n /\ DOMAIN w = 1..n /\ \A j \in 1..n : w[j] \in WriteRecords
BY Places DEF WriteSeq

\* t is s with one more element.
Longer(t, s, c) ==
    \E n \in Nat : /\ DOMAIN s = 1..n /\ DOMAIN t = 1..(n + 1)
                   /\ \A j \in 1..n : t[j] = s[j]
                   /\ t[n + 1] = c

LEMMA CallAppended ==
  ASSUME NEW s, CallSeq(s), NEW c \in CallRecords
  PROVE  CallSeq(Append(s, c)) /\ Longer(Append(s, c), s, c)
<1>1. s \in Seq(CallRecords)
  BY DEF CallSeq
<1>2. Len(s) \in Nat /\ DOMAIN s = 1..Len(s)
  BY <1>1, Places
<1>3. PICK t : t = Append(s, c)
  OBVIOUS
<1>4. /\ t \in Seq(CallRecords)
      /\ DOMAIN t = 1..(Len(s) + 1)
      /\ \A j \in DOMAIN s : t[j] = s[j]
      /\ t[Len(s) + 1] = c
  BY <1>1, <1>3, Appended
<1>8. PICK n \in Nat : n = Len(s)
  BY <1>2, Zenon
<1>9. DOMAIN s = 1..n /\ DOMAIN t = 1..(n + 1) /\ (\A j \in 1..n : t[j] = s[j]) /\ t[n + 1] = c
  BY <1>2, <1>4, <1>8
<1>10. CallSeq(t)
  BY <1>4 DEF CallSeq
<1>11. Longer(t, s, c)
  BY <1>9 DEF Longer
<1> QED BY <1>3, <1>10, <1>11

LEMMA WriteAppended ==
  ASSUME NEW w, WriteSeq(w), NEW x \in WriteRecords
  PROVE  WriteSeq(Append(w, x)) /\ Longer(Append(w, x), w, x)
<1>1. w \in Seq(WriteRecords)
  BY DEF WriteSeq
<1>2. Len(w) \in Nat /\ DOMAIN w = 1..Len(w)
  BY <1>1, Places
<1>3. PICK v : v = Append(w, x)
  OBVIOUS
<1>4. /\ v \in Seq(WriteRecords)
      /\ DOMAIN v = 1..(Len(w) + 1)
      /\ \A j \in DOMAIN w : v[j] = w[j]
      /\ v[Len(w) + 1] = x
  BY <1>1, <1>3, Appended
<1>8. PICK n \in Nat : n = Len(w)
  BY <1>2, Zenon
<1>9. DOMAIN w = 1..n /\ DOMAIN v = 1..(n + 1) /\ (\A j \in 1..n : v[j] = w[j]) /\ v[n + 1] = x
  BY <1>2, <1>4, <1>8
<1>10. WriteSeq(v)
  BY <1>4 DEF WriteSeq
<1>11. Longer(v, w, x)
  BY <1>9 DEF Longer
<1> QED BY <1>3, <1>10, <1>11

LEMMA CallReplaced ==
  ASSUME NEW s, CallSeq(s), NEW i \in DOMAIN s, NEW c \in CallRecords
  PROVE  \E t : \E n \in Nat :
            /\ t = [s EXCEPT ![i] = c] /\ CallSeq(t)
            /\ DOMAIN s = 1..n /\ DOMAIN t = 1..n
            /\ \A j \in 1..n : t[j] = IF j = i THEN c ELSE s[j]
<1>1. s \in Seq(CallRecords)
  BY DEF CallSeq
<1>2. Len(s) \in Nat /\ DOMAIN s = 1..Len(s)
  BY <1>1, Places
<1>3. PICK t : t = [s EXCEPT ![i] = c]
  OBVIOUS
<1>4. /\ t \in Seq(CallRecords)
      /\ DOMAIN t = DOMAIN s
      /\ \A j \in DOMAIN s : t[j] = IF j = i THEN c ELSE s[j]
  BY <1>1, <1>3, ReplacedAt
<1> QED BY <1>2, <1>3, <1>4 DEF CallSeq

\* t is s without its element i.
Shorter(t, s, i) ==
    \E n \in Nat : /\ DOMAIN s = 1..n /\ DOMAIN t = 1..(n - 1)
                   /\ \A j \in 1..(n - 1) : t[j] = IF j < i THEN s[j] ELSE s[j + 1]

LEMMA CallRemoved ==
  ASSUME NEW s, CallSeq(s), NEW i \in DOMAIN s
  PROVE  CallSeq(RemoveAt(s, i)) /\ Shorter(RemoveAt(s, i), s, i)
<1>1. s \in Seq(CallRecords)
  BY DEF CallSeq
<1>2. Len(s) \in Nat /\ DOMAIN s = 1..Len(s)
  BY <1>1, Places
<1>3. PICK t : t = RemoveAt(s, i)
  OBVIOUS
<1>4. /\ t \in Seq(CallRecords)
      /\ Len(t) = Len(s) - 1
      /\ \A j \in 1..(Len(s) - 1) : t[j] = IF j < i THEN s[j] ELSE s[j + 1]
  BY <1>1, <1>3, RemovedAt
<1>5. DOMAIN t = 1..(Len(s) - 1)
  BY <1>4, Places
<1>8. PICK n \in Nat : n = Len(s)
  BY <1>2, Zenon
<1>9. /\ DOMAIN s = 1..n /\ DOMAIN t = 1..(n - 1)
      /\ \A j \in 1..(n - 1) : t[j] = IF j < i THEN s[j] ELSE s[j + 1]
  BY <1>2, <1>4, <1>8, <1>5
<1>10. CallSeq(t)
  BY <1>4 DEF CallSeq
<1>11. Shorter(t, s, i)
  BY <1>9 DEF Shorter
<1> QED BY <1>3, <1>10, <1>11

LEMMA WriteTail ==
  ASSUME NEW w, WriteSeq(w), w # << >>
  PROVE  \E v : \E n \in Nat :
            /\ v = Tail(w) /\ WriteSeq(v)
            /\ 1 <= n /\ DOMAIN w = 1..n /\ DOMAIN v = 1..(n - 1)
            /\ \A j \in 1..(n - 1) : v[j] = w[j + 1]
            /\ Head(w) = w[1]
<1>1. w \in Seq(WriteRecords)
  BY DEF WriteSeq
<1>2. Len(w) \in Nat /\ DOMAIN w = 1..Len(w)
  BY <1>1, Places
<1>3. PICK v : v = Tail(w)
  OBVIOUS
<1>4. /\ v \in Seq(WriteRecords)
      /\ Len(v) = Len(w) - 1
      /\ \A j \in 1..Len(v) : v[j] = w[j + 1]
      /\ Head(w) = w[1]
  BY <1>1, <1>3, HeadTailProperties
<1>5. DOMAIN v = 1..(Len(w) - 1) /\ \A j \in 1..(Len(w) - 1) : v[j] = w[j + 1]
  BY <1>4, Places
<1>6. Len(w) # 0
  BY <1>1, EmptySeq
<1>7. 1 <= Len(w)
  BY <1>2, <1>6
<1>8. PICK n \in Nat : n = Len(w)
  BY <1>2, Zenon
<1>9. /\ 1 <= n /\ DOMAIN w = 1..n /\ DOMAIN v = 1..(n - 1)
      /\ (\A j \in 1..(n - 1) : v[j] = w[j + 1]) /\ Head(w) = w[1]
  BY <1>2, <1>4, <1>8, <1>5, <1>7
<1>10. WriteSeq(v)
  BY <1>4 DEF WriteSeq
<1> QED BY <1>3, <1>9, <1>10

Matches(w, c) == w.op = c.op /\ w.what = c.what /\ w.value = c.value

\* Places of the writes of page p in a chain w.
OfPage(w, p) == {m \in DOMAIN w : w[m].page = p}

\* f leads from the writes of page p to its calls s that are being written, in
\* their order.
InStep(s, w, p, f) ==
    /\ \A m \in OfPage(w, p) :
          f[m] \in DOMAIN s /\ s[f[m]].pc = "writing" /\ Matches(w[m], s[f[m]])
    /\ \A m, n \in OfPage(w, p) : m < n => f[m] < f[n]
    /\ \A i \in DOMAIN s : s[i].pc = "writing" => \E m \in OfPage(w, p) : f[m] = i

Lined(s, w, p) == \E f \in [Nat -> Nat] : InStep(s, w, p, f)

\* What Writing chooses.
Oldest(s, i) ==
    /\ i \in DOMAIN s /\ s[i].pc = "writing"
    /\ \A m \in 1..(i - 1) : s[m].pc # "writing"


LEMMA OfPageIn ==
  ASSUME NEW w, WriteSeq(w), NEW p
  PROVE  \A m \in OfPage(w, p) : m \in Nat /\ 1 <= m
<1>1. PICK n \in Nat : DOMAIN w = 1..n
  BY WritePlaces
<1> QED BY <1>1 DEF OfPage

LEMMA LinedAppended ==
  ASSUME NEW s, CallSeq(s), NEW w, WriteSeq(w), NEW p, Lined(s, w, p),
         NEW c \in CallRecords, c.pc # "writing"
  PROVE  Lined(Append(s, c), w, p)
<1>1. PICK f \in [Nat -> Nat] : InStep(s, w, p, f)
  BY DEF Lined
<1>2. PICK t : t = Append(s, c) /\ Longer(t, s, c)
  BY CallAppended
<1>3. PICK n \in Nat : /\ DOMAIN s = 1..n /\ DOMAIN t = 1..(n + 1)
                       /\ \A j \in 1..n : t[j] = s[j]
                       /\ t[n + 1] = c
  BY <1>2 DEF Longer
<1>4. ASSUME NEW j \in DOMAIN t, t[j].pc = "writing" PROVE j \in DOMAIN s
  <2>1. j # n + 1 /\ j \in 1..(n + 1)
    BY <1>3, <1>4
  <2>2. j \in 1..n
    BY <2>1
  <2> QED BY <2>2, <1>3
<1>5. \A j \in DOMAIN s : j \in DOMAIN t /\ t[j] = s[j]
  BY <1>3
<1>6. InStep(t, w, p, f)
  BY <1>1, <1>4, <1>5 DEF InStep
<1> QED BY <1>2, <1>6 DEF Lined

LEMMA LinedReplaced ==
  ASSUME NEW s, CallSeq(s), NEW w, WriteSeq(w), NEW p, Lined(s, w, p),
         NEW i \in DOMAIN s, s[i].pc # "writing", NEW c \in CallRecords, c.pc # "writing"
  PROVE  Lined([s EXCEPT ![i] = c], w, p)
<1>1. PICK f \in [Nat -> Nat] : InStep(s, w, p, f)
  BY DEF Lined
<1>2. PICK t : /\ t = [s EXCEPT ![i] = c]
               /\ DOMAIN t = DOMAIN s
               /\ \A j \in DOMAIN s : t[j] = IF j = i THEN c ELSE s[j]
  BY CallReplaced
<1>4. \A m \in OfPage(w, p) : f[m] # i
  BY <1>1 DEF InStep
<1>5. InStep(t, w, p, f)
  BY <1>1, <1>2, <1>4 DEF InStep
<1> QED BY <1>2, <1>5 DEF Lined

\* The calls of a page lose one that is not being written.
LEMMA LinedRemoved ==
  ASSUME NEW s, CallSeq(s), NEW w, WriteSeq(w), NEW p, Lined(s, w, p),
         NEW i \in DOMAIN s, s[i].pc # "writing"
  PROVE  Lined(RemoveAt(s, i), w, p)
<1>1. PICK f \in [Nat -> Nat] : InStep(s, w, p, f)
  BY DEF Lined
<1>2. PICK t : t = RemoveAt(s, i) /\ Shorter(t, s, i)
  BY CallRemoved
<1>3. PICK n \in Nat : /\ DOMAIN s = 1..n /\ DOMAIN t = 1..(n - 1)
                       /\ \A j \in 1..(n - 1) : t[j] = IF j < i THEN s[j] ELSE s[j + 1]
  BY <1>2 DEF Shorter
<1>0. i \in 1..n /\ i \in Nat
  BY <1>3
<1> DEFINE Down(x) == IF x < i THEN x ELSE IF x = 0 THEN 0 ELSE x - 1
           g == [m \in Nat |-> Down(f[m])]
<1>4. g \in [Nat -> Nat] /\ \A m \in Nat : g[m] = Down(f[m])
  <2>1. \A x \in Nat : Down(x) \in Nat
    BY <1>0
  <2> HIDE DEF Down
  <2> QED BY <2>1
<1> HIDE DEF g
<1>5. ASSUME NEW x \in 1..n, x # i
      PROVE  Down(x) \in 1..(n - 1) /\ t[Down(x)] = s[x]
  <2>1. CASE x < i
    <3>1. Down(x) = x /\ x \in 1..(n - 1)
      BY <2>1, <1>0
    <3> QED BY <3>1, <2>1, <1>3
  <2>2. CASE ~(x < i)
    <3>1. Down(x) = x - 1 /\ x - 1 \in 1..(n - 1) /\ ~(x - 1 < i) /\ (x - 1) + 1 = x
      BY <2>2, <1>0, <1>5
    <3> QED BY <3>1, <1>3
  <2> QED BY <2>1, <2>2
<1>6. \A x, y \in 1..n : x # i /\ y # i /\ x < y => Down(x) < Down(y)
  BY <1>0
<1>7. ASSUME NEW j \in 1..(n - 1)
      PROVE  \E x \in 1..n : x # i /\ Down(x) = j /\ s[x] = t[j]
  <2>1. CASE j < i
    <3>1. j \in 1..n /\ j # i /\ Down(j) = j
      BY <2>1, <1>0
    <3> QED BY <3>1, <2>1, <1>3
  <2>2. CASE ~(j < i)
    <3>1. j + 1 \in 1..n /\ j + 1 # i /\ Down(j + 1) = j
      BY <2>2, <1>0
    <3> QED BY <3>1, <2>2, <1>3
  <2> QED BY <2>1, <2>2
<1> HIDE DEF Down
<1>8. ASSUME NEW m \in OfPage(w, p)
      PROVE  /\ m \in Nat /\ f[m] \in 1..n /\ f[m] # i /\ g[m] = Down(f[m])
             /\ s[f[m]].pc = "writing" /\ Matches(w[m], s[f[m]])
  BY <1>1, <1>3, <1>4, OfPageIn DEF InStep
<1>9. \A m \in OfPage(w, p) :
         g[m] \in DOMAIN t /\ t[g[m]].pc = "writing" /\ Matches(w[m], t[g[m]])
  BY <1>3, <1>5, <1>8
<1>10. \A m, k \in OfPage(w, p) : m < k => g[m] < g[k]
  BY <1>1, <1>6, <1>8 DEF InStep
<1>11. ASSUME NEW j \in DOMAIN t, t[j].pc = "writing"
       PROVE  \E m \in OfPage(w, p) : g[m] = j
  <2>1. PICK x \in 1..n : x # i /\ Down(x) = j /\ s[x] = t[j]
    BY <1>3, <1>7
  <2>2. PICK m \in OfPage(w, p) : f[m] = x
    BY <2>1, <1>1, <1>3, <1>11 DEF InStep
  <2> QED BY <2>1, <2>2, <1>8
<1>12. InStep(t, w, p, g)
  BY <1>9, <1>10, <1>11 DEF InStep
<1> QED BY <1>2, <1>4, <1>12 DEF Lined

\* A call of page p joins the chain, after all others that are being written.
LEMMA LinedJoins ==
  ASSUME NEW s, CallSeq(s), NEW w, WriteSeq(w), NEW p, Lined(s, w, p),
         NEW i \in DOMAIN s, \A j \in DOMAIN s : s[j].pc = "writing" => j < i,
         NEW c \in CallRecords, c.pc = "writing", NEW x \in WriteRecords, x.page = p, Matches(x, c)
  PROVE  Lined([s EXCEPT ![i] = c], Append(w, x), p)
<1>1. PICK f \in [Nat -> Nat] : InStep(s, w, p, f)
  BY DEF Lined
<1>2. PICK t : /\ t = [s EXCEPT ![i] = c]
               /\ DOMAIN t = DOMAIN s
               /\ \A j \in DOMAIN s : t[j] = IF j = i THEN c ELSE s[j]
  BY CallReplaced
<1>3. PICK v : v = Append(w, x) /\ Longer(v, w, x)
  BY WriteAppended
<1>4. PICK n \in Nat : /\ DOMAIN w = 1..n /\ DOMAIN v = 1..(n + 1)
                       /\ \A j \in 1..n : v[j] = w[j]
                       /\ v[n + 1] = x
  BY <1>3 DEF Longer
<1>5. i \in Nat
  <2>1. PICK l \in Nat : DOMAIN s = 1..l
    BY CallPlaces
  <2> QED BY <2>1
<1>6. PICK N \in Nat : N = n + 1
  OBVIOUS
<1> DEFINE g == [f EXCEPT ![N] = i]
<1>7. g \in [Nat -> Nat] /\ \A m \in Nat : g[m] = IF m = N THEN i ELSE f[m]
  BY <1>5
<1> HIDE DEF g
<1>8. /\ N \in OfPage(v, p)
      /\ \A m \in OfPage(v, p) : m = N \/ m \in OfPage(w, p)
      /\ \A m \in OfPage(w, p) : m \in OfPage(v, p) /\ m \in Nat /\ m < N /\ v[m] = w[m]
  <2>1. N \in 1..(n + 1) /\ \A m \in 1..(n + 1) : m = N \/ m \in 1..n
    BY <1>6
  <2>2. \A m \in 1..n : m \in 1..(n + 1) /\ m \in Nat /\ m < N
    BY <1>6
  <2> QED BY <2>1, <2>2, <1>4, <1>6 DEF OfPage
<1>9. \A m \in OfPage(w, p) : m # N /\ g[m] = f[m]
  <2>1. \A m \in OfPage(w, p) : m # N
    BY <1>8
  <2> QED BY <2>1, <1>7, <1>8
<1>10. g[N] = i
  BY <1>7
<1>11. ASSUME NEW m \in OfPage(w, p)
       PROVE  f[m] \in DOMAIN s /\ f[m] < i /\ s[f[m]].pc = "writing" /\ Matches(w[m], s[f[m]]) /\ f[m] \in Nat
  BY <1>1, <1>8 DEF InStep
<1>12. \A m \in OfPage(w, p) : f[m] # i
  BY <1>5, <1>11
<1>13. ASSUME NEW m \in OfPage(v, p)
       PROVE  g[m] \in DOMAIN t /\ t[g[m]].pc = "writing" /\ Matches(v[m], t[g[m]])
  <2>1. CASE m = N
    BY <2>1, <1>2, <1>4, <1>6, <1>10
  <2>2. CASE m \in OfPage(w, p)
    BY <2>2, <1>2, <1>8, <1>9, <1>11, <1>12
  <2> QED BY <2>1, <2>2, <1>8
<1>14. ASSUME NEW m \in OfPage(v, p), NEW k \in OfPage(v, p), m < k PROVE g[m] < g[k]
  <2>1. m \in OfPage(w, p)
    <3>1. k \in Nat /\ (k = N \/ k < N)
      BY <1>8
    <3>2. m # N
      BY <3>1, <1>6, <1>14
    <3> QED BY <3>2, <1>8
  <2>2. CASE k = N
    BY <2>1, <2>2, <1>9, <1>10, <1>11
  <2>3. CASE k \in OfPage(w, p)
    BY <2>1, <2>3, <1>1, <1>9, <1>14 DEF InStep
  <2> QED BY <2>2, <2>3, <1>8
<1>15. ASSUME NEW j \in DOMAIN t, t[j].pc = "writing" PROVE \E m \in OfPage(v, p) : g[m] = j
  <2>1. CASE j = i
    BY <2>1, <1>8, <1>10
  <2>2. CASE j # i
    <3>1. s[j].pc = "writing" /\ j \in DOMAIN s
      BY <2>2, <1>2, <1>15
    <3>2. PICK m \in OfPage(w, p) : f[m] = j
      BY <3>1, <1>1 DEF InStep
    <3> QED BY <3>2, <1>8, <1>9
  <2> QED BY <2>1, <2>2
<1>16. InStep(t, v, p, g)
  BY <1>13, <1>14, <1>15 DEF InStep
<1> QED BY <1>2, <1>3, <1>7, <1>16 DEF Lined

\* A call of another page joins the chain.
LEMMA LinedBeside ==
  ASSUME NEW s, CallSeq(s), NEW w, WriteSeq(w), NEW p, Lined(s, w, p),
         NEW x \in WriteRecords, x.page # p
  PROVE  Lined(s, Append(w, x), p)
<1>1. PICK f \in [Nat -> Nat] : InStep(s, w, p, f)
  BY DEF Lined
<1>2. PICK v : v = Append(w, x) /\ Longer(v, w, x)
  BY WriteAppended
<1>3. PICK n \in Nat : /\ DOMAIN w = 1..n /\ DOMAIN v = 1..(n + 1)
                       /\ \A j \in 1..n : v[j] = w[j]
                       /\ v[n + 1] = x
  BY <1>2 DEF Longer
<1>4. OfPage(v, p) = OfPage(w, p) /\ \A m \in OfPage(w, p) : v[m] = w[m]
  <2>1. \A m \in 1..(n + 1) : m = n + 1 \/ m \in 1..n
    OBVIOUS
  <2>2. \A m \in 1..n : m \in 1..(n + 1)
    OBVIOUS
  <2> QED BY <2>1, <2>2, <1>3 DEF OfPage
<1>5. InStep(s, v, p, f)
  BY <1>1, <1>4 DEF InStep
<1> QED BY <1>2, <1>5 DEF Lined

\* The first write of the chain is the one of the page's oldest call.
LEMMA HeadIsOldest ==
  ASSUME NEW s, CallSeq(s), NEW w, WriteSeq(w), NEW p, Lined(s, w, p),
         w # << >>, Head(w).page = p
  PROVE  \E i : \E f \in [Nat -> Nat] :
            /\ Oldest(s, i) /\ Matches(Head(w), s[i])
            /\ \A x : Oldest(s, x) => x = i
            /\ InStep(s, w, p, f) /\ f[1] = i
<1>1. PICK f \in [Nat -> Nat] : InStep(s, w, p, f)
  BY DEF Lined
<1>2. PICK n \in Nat : 1 <= n /\ DOMAIN w = 1..n /\ Head(w) = w[1]
  BY WriteTail
<1>3. 1 \in OfPage(w, p) /\ \A m \in OfPage(w, p) : m \in Nat /\ (m # 1 => 1 < m)
  <2>1. 1 \in 1..n /\ \A m \in 1..n : m \in Nat /\ (m # 1 => 1 < m)
    BY <1>2
  <2> QED BY <2>1, <1>2 DEF OfPage
<1>4. f[1] \in DOMAIN s /\ s[f[1]].pc = "writing" /\ Matches(w[1], s[f[1]])
  BY <1>1, <1>3 DEF InStep
<1>5. PICK l \in Nat : DOMAIN s = 1..l
  BY CallPlaces
<1>6. PICK i \in Nat : i = f[1]
  OBVIOUS
<1>7. ASSUME NEW j \in DOMAIN s, s[j].pc = "writing" PROVE j = i \/ i < j
  <2>1. PICK m \in OfPage(w, p) : f[m] = j
    BY <1>1, <1>7 DEF InStep
  <2>2. m # 1 => f[1] < f[m]
    BY <1>1, <1>3 DEF InStep
  <2> QED BY <2>1, <2>2, <1>6
<1>8. Oldest(s, i)
  <2>1. ASSUME NEW m \in 1..(i - 1), s[m].pc = "writing" PROVE FALSE
    <3>1. i \in 1..l
      BY <1>4, <1>5, <1>6
    <3>2. m \in 1..l /\ ~(i < m) /\ m # i
      BY <3>1
    <3> QED BY <3>2, <2>1, <1>5, <1>7
  <2> QED BY <2>1, <1>4, <1>6 DEF Oldest
<1>9. ASSUME NEW x, Oldest(s, x) PROVE x = i
  <2>1. x \in DOMAIN s /\ s[x].pc = "writing" /\ \A m \in 1..(x - 1) : s[m].pc # "writing"
    BY <1>9 DEF Oldest
  <2>2. x \in Nat
    BY <2>1, <1>5
  <2>3. ~(i < x)
    <3>1. i < x => i \in 1..(x - 1)
      BY <2>2, <1>4, <1>5, <1>6
    <3> QED BY <3>1, <2>1, <1>4, <1>6
  <2> QED BY <2>1, <2>3, <1>7
<1> QED BY <1>1, <1>2, <1>4, <1>6, <1>8, <1>9

\* v is w without its first write; where the writes of p have gone.
Forward(v, w, p) ==
    \A m \in OfPage(v, p) : m \in Nat /\ m # 0 /\ m + 1 \in OfPage(w, p) /\ v[m] = w[m + 1]
Backward(v, w, p) ==
    \A m \in OfPage(w, p) : m # 1 => \E k \in OfPage(v, p) : k \in Nat /\ k + 1 = m

LEMMA TailInStep ==
  ASSUME NEW w, WriteSeq(w), w # << >>, NEW p
  PROVE  /\ Forward(Tail(w), w, p) /\ Backward(Tail(w), w, p)
         /\ 1 \in OfPage(w, p) <=> Head(w).page = p
<1>1. PICK v : \E n \in Nat :
            /\ v = Tail(w)
            /\ 1 <= n /\ DOMAIN w = 1..n /\ DOMAIN v = 1..(n - 1)
            /\ \A j \in 1..(n - 1) : v[j] = w[j + 1]
            /\ Head(w) = w[1]
  BY WriteTail
<1>2. PICK n \in Nat : /\ 1 <= n /\ DOMAIN w = 1..n /\ DOMAIN v = 1..(n - 1)
                       /\ \A j \in 1..(n - 1) : v[j] = w[j + 1]
                       /\ Head(w) = w[1]
  BY <1>1
<1>3. \A m \in 1..(n - 1) : m \in Nat /\ m # 0 /\ m + 1 \in 1..n
  OBVIOUS
<1>4. \A m \in 1..n : m # 1 => \E k \in 1..(n - 1) : k \in Nat /\ k + 1 = m
  <2>1. ASSUME NEW m \in 1..n, m # 1 PROVE m - 1 \in 1..(n - 1) /\ m - 1 \in Nat /\ (m - 1) + 1 = m
    BY <2>1
  <2> QED BY <2>1
<1>5. \A m \in OfPage(v, p) : m \in Nat /\ m # 0 /\ m + 1 \in OfPage(w, p) /\ v[m] = w[m + 1]
  BY <1>2, <1>3 DEF OfPage
<1>6. \A m \in OfPage(w, p) : m # 1 => \E k \in OfPage(v, p) : k \in Nat /\ k + 1 = m
  BY <1>2, <1>4 DEF OfPage
<1>7. 1 \in OfPage(w, p) <=> Head(w).page = p
  <2>1. 1 \in 1..n
    BY <1>2
  <2> QED BY <2>1, <1>2 DEF OfPage
<1>8. Forward(v, w, p)
  BY <1>5 DEF Forward
<1>9. Backward(v, w, p)
  BY <1>6 DEF Backward
<1> QED BY <1>1, <1>7, <1>8, <1>9

\* The oldest call of the page is not being written any more.
LEMMA LinedDone ==
  ASSUME NEW s, CallSeq(s), NEW w, WriteSeq(w), NEW p, Lined(s, w, p),
         w # << >>, Head(w).page = p, NEW i, Oldest(s, i),
         NEW c \in CallRecords, c.pc # "writing"
  PROVE  Lined([s EXCEPT ![i] = c], Tail(w), p)
<1>1. PICK f \in [Nat -> Nat] : InStep(s, w, p, f) /\ f[1] = i
  BY HeadIsOldest
<1>2. i \in DOMAIN s
  BY DEF Oldest
<1>3. PICK t : /\ t = [s EXCEPT ![i] = c]
               /\ DOMAIN t = DOMAIN s
               /\ \A j \in DOMAIN s : t[j] = IF j = i THEN c ELSE s[j]
  BY <1>2, CallReplaced
<1>4. PICK v : v = Tail(w) /\ Forward(v, w, p) /\ Backward(v, w, p) /\ 1 \in OfPage(w, p)
  BY TailInStep
<1>12. ASSUME NEW m \in OfPage(v, p)
       PROVE  m \in Nat /\ m # 0 /\ m + 1 \in OfPage(w, p) /\ v[m] = w[m + 1] /\ 1 < m + 1
  <2>1. m \in Nat /\ m # 0 /\ m + 1 \in OfPage(w, p) /\ v[m] = w[m + 1]
    BY <1>4 DEF Forward
  <2>2. 1 < m + 1
    BY <2>1
  <2> QED BY <2>1, <2>2
<1>5. i \in Nat
  BY <1>1
<1> DEFINE g == [m \in Nat |-> f[m + 1]]
<1>6. g \in [Nat -> Nat] /\ \A m \in Nat : g[m] = f[m + 1]
  OBVIOUS
<1> HIDE DEF g
<1>7. ASSUME NEW m \in OfPage(v, p)
      PROVE  /\ g[m] = f[m + 1] /\ f[m + 1] \in DOMAIN s /\ f[m + 1] # i
             /\ s[f[m + 1]].pc = "writing" /\ Matches(v[m], s[f[m + 1]])
  <2>1. m \in Nat /\ m + 1 \in OfPage(w, p) /\ v[m] = w[m + 1] /\ 1 < m + 1
    BY <1>12
  <2>2. f[1] < f[m + 1] /\ f[m + 1] \in Nat
    BY <2>1, <1>1, <1>4 DEF InStep
  <2>3. f[m + 1] # i
    BY <2>2, <1>1, <1>5
  <2> QED BY <2>1, <2>3, <1>1, <1>6 DEF InStep
<1>8. \A m \in OfPage(v, p) :
         g[m] \in DOMAIN t /\ t[g[m]].pc = "writing" /\ Matches(v[m], t[g[m]])
  BY <1>3, <1>7
<1>9. ASSUME NEW m \in OfPage(v, p), NEW k \in OfPage(v, p), m < k PROVE g[m] < g[k]
  <2>1. m + 1 < k + 1
    BY <1>9, <1>12
  <2> QED BY <2>1, <1>1, <1>7, <1>12 DEF InStep
<1>10. ASSUME NEW j \in DOMAIN t, t[j].pc = "writing" PROVE \E m \in OfPage(v, p) : g[m] = j
  <2>1. j # i /\ j \in DOMAIN s /\ s[j].pc = "writing"
    BY <1>3, <1>10
  <2>2. PICK m \in OfPage(w, p) : f[m] = j
    BY <2>1, <1>1 DEF InStep
  <2>3. PICK k \in OfPage(v, p) : k \in Nat /\ k + 1 = m
    BY <2>1, <2>2, <1>1, <1>4 DEF Backward
  <2> QED BY <2>2, <2>3, <1>6
<1>11. InStep(t, v, p, g)
  BY <1>8, <1>9, <1>10 DEF InStep
<1> QED BY <1>3, <1>4, <1>6, <1>11 DEF Lined

\* A write of another page is done.
LEMMA LinedAside ==
  ASSUME NEW s, CallSeq(s), NEW w, WriteSeq(w), NEW p, Lined(s, w, p),
         w # << >>, Head(w).page # p
  PROVE  Lined(s, Tail(w), p)
<1>1. PICK f \in [Nat -> Nat] : InStep(s, w, p, f)
  BY DEF Lined
<1>2. PICK v : v = Tail(w) /\ Forward(v, w, p) /\ Backward(v, w, p) /\ 1 \notin OfPage(w, p)
  BY TailInStep
<1> DEFINE g == [m \in Nat |-> f[m + 1]]
<1>3. g \in [Nat -> Nat] /\ \A m \in Nat : g[m] = f[m + 1]
  OBVIOUS
<1> HIDE DEF g
<1>8. ASSUME NEW m \in OfPage(v, p)
      PROVE  m \in Nat /\ m + 1 \in OfPage(w, p) /\ v[m] = w[m + 1] /\ g[m] = f[m + 1]
  <2>1. m \in Nat /\ m + 1 \in OfPage(w, p) /\ v[m] = w[m + 1]
    BY <1>2 DEF Forward
  <2> QED BY <2>1, <1>3
<1>4. ASSUME NEW m \in OfPage(v, p)
      PROVE  g[m] \in DOMAIN s /\ s[g[m]].pc = "writing" /\ Matches(v[m], s[g[m]])
  BY <1>1, <1>8 DEF InStep
<1>5. ASSUME NEW m \in OfPage(v, p), NEW k \in OfPage(v, p), m < k PROVE g[m] < g[k]
  <2>1. m + 1 < k + 1
    BY <1>5, <1>8
  <2> QED BY <2>1, <1>1, <1>8 DEF InStep
<1>6. ASSUME NEW j \in DOMAIN s, s[j].pc = "writing" PROVE \E m \in OfPage(v, p) : g[m] = j
  <2>1. PICK m \in OfPage(w, p) : f[m] = j
    BY <1>1, <1>6 DEF InStep
  <2>2. PICK k \in OfPage(v, p) : k \in Nat /\ k + 1 = m
    BY <2>1, <1>2 DEF Backward
  <2> QED BY <2>1, <2>2, <1>3
<1>7. InStep(s, v, p, g)
  BY <1>4, <1>5, <1>6 DEF InStep
<1> QED BY <1>2, <1>3, <1>7 DEF Lined

LEMMA DoneRecord ==
  ASSUME NEW c \in CallRecords
  PROVE  [c EXCEPT !.pc = "handled"] \in CallRecords /\ [c EXCEPT !.pc = "handled"].pc = "handled"
<1>1. /\ c.op \in Ops /\ c.rule \in {0} \cup RuleIds /\ c.site \in {None} \cup Sites
      /\ c.what \in {"none"} \cup Kinds \cup Preferences /\ c.value \in BOOLEAN
      /\ c.reply \in {None} \cup RuleRecords
  BY DEF CallRecords
<1>2. c = [op |-> c.op, rule |-> c.rule, site |-> c.site, what |-> c.what, value |-> c.value,
           pc |-> c.pc, reply |-> c.reply]
  BY DEF CallRecords
<1>3. [c EXCEPT !.pc = "handled"] =
          [op |-> c.op, rule |-> c.rule, site |-> c.site, what |-> c.what, value |-> c.value,
           pc |-> "handled", reply |-> c.reply]
  BY <1>2
<1> QED BY <1>1, <1>3 DEF CallRecords

\* What is removed makes no difference.
LEMMA SameShorter ==
  ASSUME NEW s, NEW i, NEW t, DOMAIN t = DOMAIN s, \A j \in DOMAIN s : j # i => t[j] = s[j],
         NEW a, CallSeq(a), Shorter(a, s, i), NEW b, CallSeq(b), Shorter(b, t, i), i \in DOMAIN s
  PROVE  a = b
<1>1. PICK n \in Nat : /\ DOMAIN s = 1..n /\ DOMAIN a = 1..(n - 1)
                       /\ \A j \in 1..(n - 1) : a[j] = IF j < i THEN s[j] ELSE s[j + 1]
  BY DEF Shorter
<1>2. PICK m \in Nat : /\ DOMAIN t = 1..m /\ DOMAIN b = 1..(m - 1)
                       /\ \A j \in 1..(m - 1) : b[j] = IF j < i THEN t[j] ELSE t[j + 1]
  BY DEF Shorter
<1>3. m = n /\ i \in 1..n
  BY <1>1, <1>2
<1>4. ASSUME NEW j \in 1..(n - 1) PROVE a[j] = b[j]
  <2>1. CASE j < i
    <3>1. j \in 1..n /\ j # i
      BY <2>1, <1>3
    <3> QED BY <3>1, <2>1, <1>1, <1>2, <1>3
  <2>2. CASE ~(j < i)
    <3>1. j + 1 \in 1..n /\ j + 1 # i
      BY <2>2, <1>3
    <3> QED BY <3>1, <2>2, <1>1, <1>2, <1>3
  <2> QED BY <2>1, <2>2
<1>5. a \in [1..(n - 1) -> CallRecords] /\ b \in [1..(n - 1) -> CallRecords]
  <2>1. \A x : CallSeq(x) => x \in [DOMAIN x -> CallRecords]
    BY LenProperties DEF CallSeq
  <2> QED BY <2>1, <1>1, <1>2, <1>3
<1> QED BY <1>4, <1>5

\* The oldest call is done with and leaves.
LEMMA LinedGone ==
  ASSUME NEW s, CallSeq(s), NEW w, WriteSeq(w), NEW p, Lined(s, w, p),
         w # << >>, Head(w).page = p, NEW i, Oldest(s, i)
  PROVE  Lined(RemoveAt(s, i), Tail(w), p)
<1>1. i \in DOMAIN s
  BY DEF Oldest
<1>2. PICK n \in Nat : DOMAIN s = 1..n /\ \A j \in 1..n : s[j] \in CallRecords
  BY CallPlaces
<1>3. PICK c \in CallRecords : c.pc = "handled"
  <2>1. s[i] \in CallRecords
    BY <1>1, <1>2
  <2>2. [s[i] EXCEPT !.pc = "handled"] \in CallRecords /\ [s[i] EXCEPT !.pc = "handled"].pc = "handled"
    BY <2>1, DoneRecord
  <2> QED BY <2>2
<1>4. PICK t : /\ t = [s EXCEPT ![i] = c] /\ CallSeq(t)
               /\ DOMAIN t = DOMAIN s
               /\ \A j \in DOMAIN s : t[j] = IF j = i THEN c ELSE s[j]
  BY <1>1, CallReplaced
<1>5. PICK v : v = Tail(w) /\ WriteSeq(v)
  BY WriteTail
<1>6. Lined(t, v, p)
  <2>1. c.pc # "writing"
    BY <1>3
  <2> QED BY <2>1, <1>4, <1>5, LinedDone
<1>7. t[i].pc # "writing" /\ i \in DOMAIN t
  BY <1>1, <1>3, <1>4
<1>8. Lined(RemoveAt(t, i), v, p)
  BY <1>4, <1>5, <1>6, <1>7, LinedRemoved
<1>9. RemoveAt(t, i) = RemoveAt(s, i)
  <2>1. PICK a : a = RemoveAt(s, i) /\ CallSeq(a) /\ Shorter(a, s, i)
    BY <1>1, CallRemoved
  <2>2. PICK b : b = RemoveAt(t, i) /\ CallSeq(b) /\ Shorter(b, t, i)
    BY <1>4, <1>7, CallRemoved
  <2> QED BY <2>1, <2>2, <1>4, <1>1, SameShorter
<1> QED BY <1>5, <1>8, <1>9


-----------------------------------------------------------------------------
(* The inductive invariant *)

PageRecords ==
    [pc : {"closed", "loading", "told", "localizing", "open"},
     rules : [RuleIds -> {None} \cup RuleRecords], enabled : BOOLEAN,
     off : BOOLEAN, site : {None} \cup Sites, language : Preferences]

DocRecords ==
    [site : Sites, mark : {<<0, 0>>} \cup Scripts, ran : SUBSET Effects, styled : SUBSET Effects]

ScriptRecords ==
    [pc : {"none", "asking", "reading", "answered", "head", "done", "gone"},
     files : SUBSET (RuleIds \X Kinds), css : SUBSET RuleIds]

BackgroundTyped ==
    /\ rules \in [RuleIds -> {None} \cup RuleRecords]
    /\ created \in 0..Cardinality(RuleIds)
    /\ enabled \in BOOLEAN /\ blocked \subseteq Sites
    /\ language \in Preferences

TabTyped ==
    /\ tab \in Docs
    /\ doc \in [Docs -> DocRecords]
    /\ script \in [Scripts -> ScriptRecords]
    /\ toTab \subseteq Effects
    /\ current \in [Scripts -> BOOLEAN]
    /\ failures \in 0..MaxFailures

PagesTyped ==
    /\ page \in [Pages -> PageRecords]
    /\ told \in [Pages -> Seq(Preferences)]

RestTyped ==
    /\ reloads \in Nat /\ acts \in 0..MaxActs
    /\ behind \in [Pages -> BOOLEAN] /\ twice \in BOOLEAN /\ refilled \in BOOLEAN

\* What the pages send, and what becomes of it.
CallOK(p, c) ==
    /\ c \in CallRecords
    /\ c.op \in {"update", "file", "switch", "remove"} => c.rule \in RuleIds
    /\ c.op \in {"add", "copy", "update", "site"} => c.site \in Sites
    /\ c.op \in {"add", "copy"} /\ c.pc = "handled" => c.reply # None
    /\ c.reply # None => c.rule \in RuleIds
    /\ c.op = "file" => c.what \in Kinds
    /\ c.op = "language" => c.what \in Preferences
    /\ c.op = "pause" => c.what = "none"
    /\ c.pc \in {"writing", "failed"} => c.op \in {"pause", "language"}
    /\ c.op = "language" => c.pc # "handled"
    /\ p = "popup" => c.op \in {"pause", "file", "site"}
    /\ p = "options" => c.op # "site"

SentLast(s) == \A i, j \in DOMAIN s : i < j /\ s[i].pc = "sent" => s[j].pc = "sent"

LineInv(p) ==
    /\ CallSeq(calls[p])
    /\ \A i \in DOMAIN calls[p] : CallOK(p, calls[p][i])
    /\ SentLast(calls[p])
    /\ Lined(calls[p], writes, p)

CallsInv ==
    /\ DOMAIN calls = Pages
    /\ WriteSeq(writes)
    /\ \A p \in Pages : LineInv(p)

\* The card is as new until the options page is open, and behind its rules.
CardOK ==
    /\ CardInv
    /\ page["options"].pc # "open" => status = "idle"
    /\ page["options"].rules # NoRules /\ ~refilled => status = "idle"

\* The tab will be reloaded for what the popup has changed.
Expects(c) == c.pc = "handled" /\ (c.op = "pause" \/ (c.op = "file" /\ c.reply # None))
Pending ==
    \/ reloads > 0
    \/ /\ page["popup"].pc = "open"
       /\ \E i \in DOMAIN calls["popup"] : Expects(calls["popup"][i])

\* The rules say that the tab should have this file.
Wanted(r, kind) == <<r, kind>> \in Active(doc[tab].site)

\* X has the files of one kind that the rules say, for script s.
AsRuled(s, X, kind) == \A r \in RuleIds : <<s, r>> \in X <=> Wanted(r, kind)

\* What the rules say is on its way into the document that script s has marked.
ScriptOK(s) ==
    LET x == script[s] IN
    /\ x.pc = "reading" => x.files = Active(doc[tab].site)
    /\ x.pc \in {"answered", "head", "done"} => AsRuled(s, doc[tab].ran \cup toTab, "js")
    /\ x.pc \in {"answered", "head"} =>
          \A r \in RuleIds : r \in x.css <=> Wanted(r, "css")
    /\ x.pc = "done" => AsRuled(s, doc[tab].styled, "css")

\* Nothing of script s takes effect before its files are read.
Fresh(s) ==
    /\ script[s].pc \in {"none", "asking", "reading"} =>
          \A r \in RuleIds : <<s, r>> \notin toTab /\ \A d \in Docs : <<s, r>> \notin doc[d].ran
    /\ script[s].pc \in {"none", "asking", "reading", "answered", "head"} =>
          \A r \in RuleIds : \A d \in Docs : <<s, r>> \notin doc[d].styled

MarkOK == \A d \in Docs : doc[d].mark # <<0, 0>> => doc[d].mark[1] = d

TabInv ==
    /\ MarkOK /\ OwnEffects
    /\ \A s \in Scripts : Fresh(s)
    /\ \A s \in Scripts : doc[tab].mark = s /\ current[s] /\ ~Pending => ScriptOK(s)

IInv ==
    /\ BackgroundTyped /\ TabTyped /\ PagesTyped /\ RestTyped
    /\ CallsInv
    /\ LocaleInv
    /\ CardOK
    /\ TabInv

-----------------------------------------------------------------------------
(* What an action leaves alone *)

LEMMA BackgroundStays ==
  ASSUME BackgroundTyped, UNCHANGED background, language' = language
  PROVE  BackgroundTyped'
BY DEF BackgroundTyped, background

LEMMA TabStays ==
  ASSUME TabTyped, UNCHANGED pageVars
  PROVE  TabTyped'
BY DEF TabTyped, pageVars

LEMMA CallsStay ==
  ASSUME CallsInv, UNCHANGED <<calls, writes>>
  PROVE  CallsInv'
BY DEF CallsInv, LineInv

LEMMA CardOKStays ==
  ASSUME CardOK, UNCHANGED <<page, cardVars, refilled>>
  PROVE  CardOK'
<1>1. CardInv'
  BY CardStays DEF CardOK
<1>2. status' = status
  BY DEF cardVars
<1> QED BY <1>1, <1>2 DEF CardOK

\* Nothing has changed in the tab, and what the rules say for it has not either,
\* or it does not count.
LEMMA TabInvStays ==
  ASSUME TabInv, TabTyped, UNCHANGED <<tab, doc, script, toTab>>,
         \A s \in Scripts : current'[s] /\ ~Pending' =>
            /\ current[s] /\ ~Pending
            /\ UNCHANGED <<rules, enabled, blocked>>
  PROVE  TabInv'
<1>1. MarkOK' /\ OwnEffects'
  BY DEF TabInv, MarkOK, OwnEffects
<1>2. ASSUME NEW s \in Scripts PROVE Fresh(s)'
  BY DEF TabInv, Fresh
<1>3. ASSUME NEW s \in Scripts, (doc[tab].mark = s /\ current[s] /\ ~Pending)' PROVE ScriptOK(s)'
  <2>1. /\ doc[tab].mark = s /\ current[s] /\ ~Pending
        /\ UNCHANGED <<rules, enabled, blocked, tab, doc, script, toTab>>
    BY <1>3
  <2>2. ScriptOK(s)
    BY <2>1 DEF TabInv
  <2>3. Active(doc[tab].site)' = Active(doc[tab].site)
    BY <2>1 DEF Active, Matching
  <2>4. \A r, kind : Wanted(r, kind)' <=> Wanted(r, kind)
    BY <2>3 DEF Wanted
  <2> QED BY <2>1, <2>2, <2>3, <2>4 DEF ScriptOK, AsRuled
<1> QED BY <1>1, <1>2, <1>3 DEF TabInv

\* Nothing that concerns the tab has changed.
LEMMA TabInvQuiet ==
  ASSUME TabInv, TabTyped, UNCHANGED <<tab, doc, script, toTab, current, rules, enabled, blocked>>,
         Pending => Pending'
  PROVE  TabInv'
BY TabInvStays

-----------------------------------------------------------------------------
(* Opening and closing *)

\* What concerns neither the pages' state nor the tab.
Others == <<background, settingsVars, pageVars, reloads, cardVars, calls, refilled>>

\* A page that is not shown yet takes a step.
LEMMA PageMoves ==
  ASSUME IInv, NEW p \in Pages, page[p].pc # "open", NEW v \in PageRecords,
         page' = [page EXCEPT ![p] = v], UNCHANGED Others
  PROVE  /\ BackgroundTyped' /\ TabTyped' /\ CallsInv' /\ CardOK' /\ TabInv'
         /\ page' \in [Pages -> PageRecords]
<1>1. /\ BackgroundTyped /\ TabTyped /\ PagesTyped /\ CallsInv /\ CardOK /\ TabInv
  BY DEF IInv
<1>2. /\ UNCHANGED <<background, language, calls, writes, cardVars, refilled, reloads>>
      /\ UNCHANGED pageVars
  BY DEF Others, settingsVars
<1>3. BackgroundTyped' /\ TabTyped' /\ CallsInv'
  BY <1>1, <1>2, BackgroundStays, TabStays, CallsStay
<1>4. page' \in [Pages -> PageRecords]
  BY <1>1 DEF PagesTyped
<1>5. CASE p = "options"
  <2>1. status = "idle" /\ status' = status
    BY <1>1, <1>2, <1>5 DEF CardOK, cardVars
  <2>2. CardInv'
    BY <1>1, <1>2, CardStays DEF CardOK
  <2>3. CardOK'
    BY <2>1, <2>2 DEF CardOK
  <2>4. page'["popup"] = page["popup"]
    BY <1>1, <1>5 DEF PagesTyped, Pages
  <2>5. Pending => Pending'
    BY <1>2, <2>4 DEF Pending, Expects
  <2> QED BY <1>1, <1>2, <1>3, <1>4, <2>3, <2>5, TabInvQuiet DEF pageVars, background
<1>6. CASE p = "popup"
  <2>1. page'["options"] = page["options"]
    BY <1>1, <1>6 DEF PagesTyped, Pages
  <2>2. CardInv' /\ status' = status
    BY <1>1, <1>2, CardStays DEF CardOK, cardVars
  <2>3. CardOK'
    BY <1>1, <1>2, <2>1, <2>2 DEF CardOK, NoRules
  <2>4. Pending => Pending'
    BY <1>2, <1>6 DEF Pending
  <2> QED BY <1>1, <1>2, <1>3, <1>4, <2>3, <2>4, TabInvQuiet DEF pageVars, background
<1> QED BY <1>5, <1>6 DEF Pages

LEMMA RestStays ==
  ASSUME RestTyped, UNCHANGED <<reloads, acts, ghosts>>
  PROVE  RestTyped'
BY DEF RestTyped, ghosts

\* The user does one thing more.
LEMMA OneMoreAct ==
  ASSUME RestTyped, acts < MaxActs, acts' = acts + 1
  PROVE  acts' \in 0..MaxActs
BY PagesAssumption DEF RestTyped

LEMMA SiteOfTab ==
  ASSUME TabTyped
  PROVE  doc[tab].site \in Sites
BY DEF TabTyped, DocRecords

LEMMA ClosedIsPage == Closed \in PageRecords
BY DEF Closed, PageRecords, NoRules, Preferences

LEMMA OpenKeeps ==
  ASSUME IInv, NEW p \in Pages, Open(p)
  PROVE  IInv'
<1> DEFINE v == [Closed EXCEPT !.pc = "loading", !.site = IF p = "popup" THEN doc[tab].site ELSE None]
<1>1. /\ page[p].pc = "closed" /\ acts < MaxActs /\ acts' = acts + 1
      /\ page' = [page EXCEPT ![p] = v]
      /\ UNCHANGED Others /\ UNCHANGED <<localeVars, told, behind, twice, reloads>>
  BY DEF Open, Others, settingsVars, ghosts
<1>2. v \in PageRecords
  <2>1. doc[tab].site \in Sites
    BY SiteOfTab DEF IInv
  <2> QED BY <2>1, ClosedIsPage DEF PageRecords
<1>3. /\ BackgroundTyped' /\ TabTyped' /\ CallsInv' /\ CardOK' /\ TabInv'
      /\ page' \in [Pages -> PageRecords]
  <2> HIDE DEF v
  <2> QED BY <1>1, <1>2, PageMoves
<1>4. PagesTyped'
  BY <1>1, <1>3 DEF IInv, PagesTyped
<1>5. RestTyped'
  BY <1>1, OneMoreAct DEF IInv, RestTyped, Others
<1>6. LocaleInv'
  BY <1>1, LocaleStays DEF IInv
<1> QED BY <1>3, <1>4, <1>5, <1>6 DEF IInv

\* What a page is told.
LEMMA ToldIsPage ==
  ASSUME BackgroundTyped, NEW p \in Pages, NEW site \in {None} \cup Sites
  PROVE  ToldPage(p, site) \in PageRecords
<1>1. Shown(site) \in [RuleIds -> {None} \cup RuleRecords]
  BY DEF Shown, BackgroundTyped
<1>2. /\ (IF p = "popup" THEN Shown(site) ELSE rules) \in [RuleIds -> {None} \cup RuleRecords]
      /\ (p = "popup" /\ site \in blocked) \in BOOLEAN
      /\ (IF p = "popup" THEN site ELSE None) \in {None} \cup Sites
      /\ enabled \in BOOLEAN /\ language \in Preferences
  BY <1>1 DEF BackgroundTyped
<1> QED BY <1>2 DEF ToldPage, PageRecords

LEMMA TellKeeps ==
  ASSUME IInv, NEW p \in Pages, Tell(p)
  PROVE  IInv'
<1> DEFINE v == ToldPage(p, page[p].site)
<1>1. /\ page[p].pc = "loading"
      /\ page' = [page EXCEPT ![p] = v]
      /\ behind' = [behind EXCEPT ![p] = p = "popup" /\ page[p].site # doc[tab].site]
      /\ UNCHANGED Others /\ UNCHANGED <<localeVars, told, twice, refilled, reloads, acts>>
  BY DEF Tell, Others, settingsVars
<1>2. v \in PageRecords
  <2>1. page[p].site \in {None} \cup Sites
    BY DEF IInv, PagesTyped, PageRecords
  <2> QED BY <2>1, ToldIsPage DEF IInv
<1>3. /\ BackgroundTyped' /\ TabTyped' /\ CallsInv' /\ CardOK' /\ TabInv'
      /\ page' \in [Pages -> PageRecords]
  <2> HIDE DEF v
  <2> QED BY <1>1, <1>2, PageMoves
<1>4. PagesTyped'
  BY <1>1, <1>3 DEF IInv, PagesTyped
<1>5. RestTyped'
  <2>1. behind' \in [Pages -> BOOLEAN]
    BY <1>1 DEF IInv, RestTyped
  <2> QED BY <1>1, <2>1 DEF IInv, RestTyped
<1>6. LocaleInv'
  BY <1>1, LocaleStays DEF IInv
<1> QED BY <1>3, <1>4, <1>5, <1>6 DEF IInv

LEMMA LocalizeKeeps ==
  ASSUME IInv, NEW p \in Pages, Localize(p)
  PROVE  IInv'
<1> DEFINE v == [page[p] EXCEPT !.pc = "localizing"]
<1>1. /\ page[p].pc = "told"
      /\ page' = [page EXCEPT ![p].pc = "localizing"]
      /\ SetPreference(p, page[p].language, TRUE)
      /\ UNCHANGED Others /\ UNCHANGED <<told, ghosts, reloads, acts>>
  BY DEF Localize, Others, settingsVars, ghosts
<1>2. v \in PageRecords /\ page' = [page EXCEPT ![p] = v] /\ page[p].language \in Preferences
  BY <1>1 DEF IInv, PagesTyped, PageRecords
<1>3. /\ BackgroundTyped' /\ TabTyped' /\ CallsInv' /\ CardOK' /\ TabInv'
      /\ page' \in [Pages -> PageRecords]
  <2> HIDE DEF v
  <2> QED BY <1>1, <1>2, PageMoves
<1>4. PagesTyped'
  BY <1>1, <1>3 DEF IInv, PagesTyped
<1>5. RestTyped'
  BY <1>1, RestStays DEF IInv
<1>6. LocaleInv'
  BY <1>1, <1>2, SetPreferenceKeeps, PagesAssumption DEF IInv, Pages
<1> QED BY <1>3, <1>4, <1>5, <1>6 DEF IInv

LEMMA LoadedKeeps ==
  ASSUME IInv, NEW p \in Pages, Loaded(p)
  PROVE  IInv'
<1> DEFINE v == [page[p] EXCEPT !.pc = "open"]
<1>1. /\ page[p].pc = "localizing"
      /\ page' = [page EXCEPT ![p].pc = "open"]
      /\ UNCHANGED Others /\ UNCHANGED <<localeVars, told, ghosts, reloads, acts>>
  BY DEF Loaded, Others, settingsVars, ghosts
<1>2. v \in PageRecords /\ page' = [page EXCEPT ![p] = v]
  BY <1>1 DEF IInv, PagesTyped, PageRecords
<1>3. /\ BackgroundTyped' /\ TabTyped' /\ CallsInv' /\ CardOK' /\ TabInv'
      /\ page' \in [Pages -> PageRecords]
  <2> HIDE DEF v
  <2> QED BY <1>1, <1>2, PageMoves
<1>4. PagesTyped'
  BY <1>1, <1>3 DEF IInv, PagesTyped
<1>5. RestTyped'
  BY <1>1, RestStays DEF IInv
<1>6. LocaleInv'
  BY <1>1, LocaleStays DEF IInv
<1> QED BY <1>3, <1>4, <1>5, <1>6 DEF IInv

\* What the popup would have had reloaded is out of date.
LEMMA ClosePopupKeeps ==
  ASSUME IInv, ClosePopup
  PROVE  IInv'
<1>1. /\ BackgroundTyped /\ TabTyped /\ PagesTyped /\ RestTyped
      /\ CallsInv /\ LocaleInv /\ CardOK /\ TabInv
  BY DEF IInv
<1>2. /\ page' = [page EXCEPT !["popup"] = Closed]
      /\ told' = [told EXCEPT !["popup"] = << >>]
      /\ ForgetLocale("popup")
      /\ UNCHANGED <<background, writes, language, tab, doc, script, toTab, failures, reloads,
                     cardVars, calls, ghosts, acts>>
      /\ \/ Outdated
         \/ /\ UNCHANGED current
            /\ \A i \in DOMAIN calls["popup"] :
                  calls["popup"][i].pc = "handled" => calls["popup"][i].op = "site"
  BY DEF ClosePopup, settingsVars
<1>3. BackgroundTyped'
  BY <1>1, <1>2, BackgroundStays
<1>4. TabTyped'
  BY <1>1, <1>2 DEF TabTyped, Outdated
<1>5. PagesTyped'
  BY <1>1, <1>2, ClosedIsPage DEF PagesTyped, Pages
<1>6. RestTyped'
  BY <1>1, <1>2, RestStays
<1>7. CallsInv'
  BY <1>1, <1>2, CallsStay
<1>8. LocaleInv'
  BY <1>1, <1>2, ForgetLocaleKeeps, PagesAssumption
<1>9. CardOK'
  <2>1. CardInv' /\ status' = status
    BY <1>1, <1>2, CardStays DEF CardOK, cardVars
  <2>2. page'["options"] = page["options"] /\ refilled' = refilled
    BY <1>1, <1>2 DEF PagesTyped, Pages, ghosts
  <2> QED BY <1>1, <2>1, <2>2 DEF CardOK, NoRules
<1>10. TabInv'
  <2>1. CASE Outdated
    BY <1>1, <1>2, <2>1, TabInvStays DEF Outdated
  <2>2. CASE ~Outdated
    <3>1. Pending => reloads > 0
      BY <1>2, <2>2 DEF Pending, Expects
    <3>2. Pending => Pending'
      BY <1>2, <3>1 DEF Pending
    <3> QED BY <1>1, <1>2, <2>2, <3>2, TabInvQuiet DEF background
  <2> QED BY <2>1, <2>2
<1> QED BY <1>3, <1>4, <1>5, <1>6, <1>7, <1>8, <1>9, <1>10 DEF IInv

-----------------------------------------------------------------------------
(* Clicks *)

\* The calls of a page after one more.
LEMMA LineLonger ==
  ASSUME NEW p \in Pages, LineInv(p), NEW call, CallOK(p, call), call.pc = "sent",
         calls' = [calls EXCEPT ![p] = Append(@, call)], DOMAIN calls = Pages,
         WriteSeq(writes), writes' = writes
  PROVE  LineInv(p)' /\ \A i \in DOMAIN calls[p] : i \in DOMAIN calls'[p] /\ calls'[p][i] = calls[p][i]
<1>1. /\ CallSeq(calls[p]) /\ SentLast(calls[p]) /\ Lined(calls[p], writes, p)
      /\ \A i \in DOMAIN calls[p] : CallOK(p, calls[p][i])
      /\ call \in CallRecords
  BY DEF LineInv, CallOK
<1>2. PICK s, t : s = calls[p] /\ t = Append(s, call)
  OBVIOUS
<1>3. calls'[p] = t
  BY <1>2
<1>4. CallSeq(t) /\ Longer(t, s, call)
  BY <1>1, <1>2, CallAppended
<1>5. Lined(t, writes, p)
  BY <1>1, <1>2, LinedAppended
<1>6. PICK n \in Nat : /\ DOMAIN s = 1..n /\ DOMAIN t = 1..(n + 1)
                       /\ \A j \in 1..n : t[j] = s[j]
                       /\ t[n + 1] = call
  BY <1>4 DEF Longer
<1>7. \A j \in 1..(n + 1) : j \in 1..n \/ j = n + 1
  OBVIOUS
<1>8. \A j \in 1..n : j \in 1..(n + 1)
  OBVIOUS
<1>9. \A i \in DOMAIN t : CallOK(p, t[i])
  BY <1>1, <1>2, <1>6, <1>7
<1>10. SentLast(t)
  <2> SUFFICES ASSUME NEW i \in DOMAIN t, NEW j \in DOMAIN t, i < j, t[i].pc = "sent"
               PROVE  t[j].pc = "sent"
    BY DEF SentLast
  <2>1. CASE j = n + 1
    BY <1>6, <2>1
  <2>2. CASE j # n + 1
    <3>1. i \in 1..n /\ j \in 1..n
      BY <1>6, <2>2
    <3> QED BY <1>1, <1>2, <1>6, <3>1 DEF SentLast
  <2> QED BY <2>1, <2>2
<1> QED BY <1>2, <1>3, <1>4, <1>5, <1>6, <1>8, <1>9, <1>10 DEF LineInv

\* The calls of the other page.
LEMMA LineBeside ==
  ASSUME NEW q \in Pages, LineInv(q), calls'[q] = calls[q], writes' = writes
  PROVE  LineInv(q)'
BY DEF LineInv

LEMMA SendKeeps ==
  ASSUME IInv, NEW p \in Pages, NEW call, CallOK(p, call), call.pc = "sent",
         Send(p, call), twice' \in BOOLEAN
  PROVE  IInv'
<1>1. /\ BackgroundTyped /\ TabTyped /\ PagesTyped /\ RestTyped
      /\ CallsInv /\ LocaleInv /\ CardOK /\ TabInv
  BY DEF IInv
<1>2. /\ acts < MaxActs /\ acts' = acts + 1
      /\ calls' = [calls EXCEPT ![p] = Append(@, call)]
      /\ UNCHANGED <<background, writes, language, pageVars, reloads, cardVars, localeVars,
                     page, told, behind, refilled>>
  BY DEF Send, settingsVars
<1>3. BackgroundTyped' /\ TabTyped'
  BY <1>1, <1>2, BackgroundStays, TabStays
<1>4. PagesTyped' /\ LocaleInv'
  BY <1>1, <1>2, LocaleStays DEF PagesTyped
<1>5. RestTyped'
  BY <1>1, <1>2, OneMoreAct DEF RestTyped
<1>6. DOMAIN calls = Pages /\ WriteSeq(writes) /\ \A q \in Pages : LineInv(q)
  BY <1>1 DEF CallsInv
<1>7. LineInv(p)' /\ \A i \in DOMAIN calls[p] : i \in DOMAIN calls'[p] /\ calls'[p][i] = calls[p][i]
  BY <1>2, <1>6, LineLonger
<1>8. ASSUME NEW q \in Pages, q # p PROVE LineInv(q)' /\ calls'[q] = calls[q]
  BY <1>2, <1>6, <1>8, LineBeside
<1>9. CallsInv'
  <2>1. \A q \in Pages : LineInv(q)'
    BY <1>7, <1>8
  <2> QED BY <1>2, <1>6, <2>1 DEF CallsInv
<1>10. CardOK'
  BY <1>1, <1>2, CardOKStays
<1>11. TabInv'
  <2>1. \A i \in DOMAIN calls["popup"] :
           i \in DOMAIN calls'["popup"] /\ calls'["popup"][i] = calls["popup"][i]
    BY <1>7, <1>8 DEF Pages
  <2>2. Pending => Pending'
    BY <1>2, <2>1 DEF Pending, Expects
  <2> QED BY <1>1, <1>2, <2>2, TabInvQuiet DEF background, pageVars
<1> QED BY <1>3, <1>4, <1>5, <1>9, <1>10, <1>11 DEF IInv

LEMMA NoneIsNoRule ==
  /\ \A r \in RuleRecords : r # None
  /\ 0 \notin RuleIds
<1>1. \A r \in RuleRecords : r # None
  BY PageAssumption DEF RuleRecords
<1>2. PICK n \in Nat : n = Cardinality(RuleIds)
  BY PageAssumption, FS_CardinalityType
<1>3. RuleIds = 1..n
  BY <1>2, PageAssumption
<1>4. 0 \notin 1..n
  OBVIOUS
<1> QED BY <1>1, <1>3, <1>4

\* What a page may ask for.
Asks(p, op, r, site, what, value) ==
    /\ op \in Ops /\ r \in {0} \cup RuleIds /\ site \in {None} \cup Sites
    /\ what \in {"none"} \cup Kinds \cup Preferences /\ value \in BOOLEAN
    /\ op \in {"update", "file", "switch", "remove"} => r \in RuleIds
    /\ op \in {"add", "copy", "update", "site"} => site \in Sites
    /\ op = "file" => what \in Kinds
    /\ op = "language" => what \in Preferences
    /\ op = "pause" => what = "none"
    /\ p = "popup" => op \in {"pause", "file", "site"}
    /\ p = "options" => op # "site"

LEMMA CallIsOK ==
  ASSUME NEW p, NEW op, NEW r, NEW site, NEW what, NEW value, Asks(p, op, r, site, what, value),
         NEW c, c = Call(op, r, site, what, value)
  PROVE  /\ CallOK(p, c) /\ c.pc = "sent"
         /\ c.op = op /\ c.rule = r /\ c.site = site /\ c.value = value
<1>1. /\ c = [op |-> op, rule |-> r, site |-> site, what |-> what, value |-> value,
              pc |-> "sent", reply |-> None]
      /\ c.op = op /\ c.rule = r /\ c.site = site /\ c.what = what /\ c.value = value
      /\ c.pc = "sent" /\ c.reply = None
  BY DEF Call
<1>2. c \in CallRecords
  BY <1>1 DEF CallRecords, Asks
<1>3. CallOK(p, c)
  BY <1>1, <1>2 DEF CallOK, Asks
<1> QED BY <1>1, <1>3

\* A rule in a view is a record.
LEMMA InViewIsRule ==
  ASSUME PagesTyped, NEW p \in Pages, NEW r \in RuleIds, InView(p, r)
  PROVE  page[p].rules[r] \in RuleRecords
BY DEF PagesTyped, PageRecords, InView

LEMMA RuleFields ==
  ASSUME NEW x \in RuleRecords
  PROVE  x.on \in BOOLEAN /\ x.site \in Sites /\ \A k \in Kinds : x[k] \in BOOLEAN
BY DEF RuleRecords, Kinds

\* A click sends a call, about a rule of the view or about none.
Clicked(p, c) ==
    /\ CallOK(p, c) /\ c.pc = "sent" /\ Send(p, c)
    /\ c.rule = 0 \/ InView(p, c.rule)
    /\ c.op = "site" => c.site = doc[tab].site
    /\ c.op = "switch" =>
          /\ c.value = ~page[p].rules[c.rule].on
          /\ twice' = (twice \/ \E i \in DOMAIN calls[p] :
                                  calls[p][i].op = "switch" /\ calls[p][i].rule = c.rule)
    /\ c.op # "switch" => UNCHANGED twice

Click == \E p \in Pages : \E c : Clicked(p, c)

LEMMA ClickKeeps ==
  ASSUME IInv, Click
  PROVE  IInv'
<1>1. PICK p \in Pages : \E c : Clicked(p, c)
  BY DEF Click
<1>2. PICK c : Clicked(p, c)
  BY <1>1
<1>3. twice' \in BOOLEAN
  BY <1>2 DEF Clicked, IInv, RestTyped
<1> QED BY <1>2, <1>3, SendKeeps DEF Clicked

LEMMA SwitchSends ==
  ASSUME IInv, NEW r \in RuleIds, Switch(r)
  PROVE  Click
<1>1. page["options"].rules[r] \in RuleRecords
  BY InViewIsRule DEF IInv, Switch, Pages
<1>2. PICK value \in BOOLEAN : value = ~page["options"].rules[r].on
  BY <1>1, RuleFields
<1>3. PICK c : c = Call("switch", r, None, "none", value)
  OBVIOUS
<1>4. /\ CallOK("options", c) /\ c.pc = "sent"
      /\ c.op = "switch" /\ c.rule = r /\ c.value = value
  <2>1. Asks("options", "switch", r, None, "none", value)
    BY DEF Asks, Ops
  <2> QED BY <1>3, <2>1, CallIsOK
<1>5. Clicked("options", c)
  BY <1>2, <1>3, <1>4 DEF Switch, Clicked
<1> QED BY <1>5 DEF Click, Pages

LEMMA RowMenuSends ==
  ASSUME IInv, NEW r \in RuleIds, RowMenu(r)
  PROVE  Click
<1>1. PICK x \in RuleRecords : x = page["options"].rules[r]
  BY InViewIsRule DEF IInv, RowMenu, Pages
<1>2. InView("options", r) /\ UNCHANGED twice
  BY DEF RowMenu
<1>3. CASE Send("options", Call("copy", 0, x.site, "none", FALSE))
  <2>1. PICK site \in Sites, value \in BOOLEAN : site = x.site /\ value = FALSE
    BY RuleFields
  <2>2. PICK c : c = Call("copy", 0, site, "none", value)
    OBVIOUS
  <2>3. CallOK("options", c) /\ c.pc = "sent" /\ c.op = "copy" /\ c.rule = 0
    <3>1. Asks("options", "copy", 0, site, "none", value)
      BY DEF Asks, Ops
    <3> QED BY <2>2, <3>1, CallIsOK
  <2>4. Send("options", c)
    BY <1>3, <2>1, <2>2
  <2>5. Clicked("options", c)
    BY <1>2, <2>3, <2>4 DEF Clicked
  <2> QED BY <2>5 DEF Click, Pages
<1>4. ASSUME NEW k \in Kinds, Send("options", Call("file", r, None, k, ~x[k])) PROVE Click
  <2>1. PICK value \in BOOLEAN : value = ~x[k]
    BY RuleFields
  <2>2. PICK c : c = Call("file", r, None, k, value)
    OBVIOUS
  <2>3. CallOK("options", c) /\ c.pc = "sent" /\ c.op = "file" /\ c.rule = r
    <3>1. Asks("options", "file", r, None, k, value)
      BY DEF Asks, Ops
    <3> QED BY <2>2, <3>1, CallIsOK
  <2>4. Clicked("options", c)
    BY <1>2, <1>4, <2>1, <2>2, <2>3 DEF Clicked
  <2> QED BY <2>4 DEF Click, Pages
<1> QED BY <1>1, <1>3, <1>4 DEF RowMenu

LEMMA ConfirmRemovalSends ==
  ASSUME NEW r \in RuleIds, ConfirmRemoval(r)
  PROVE  Click
<1>0. PICK value \in BOOLEAN : value = TRUE
  OBVIOUS
<1>1. PICK c : c = Call("remove", r, None, "none", value)
  OBVIOUS
<1>2. CallOK("options", c) /\ c.pc = "sent" /\ c.op = "remove" /\ c.rule = r
  <2>1. Asks("options", "remove", r, None, "none", value)
    BY DEF Asks, Ops
  <2> QED BY <1>1, <2>1, CallIsOK
<1>3. Clicked("options", c)
  BY <1>0, <1>1, <1>2 DEF ConfirmRemoval, Clicked
<1> QED BY <1>3 DEF Click, Pages

LEMMA EditorSubmitSends ==
  ASSUME NEW site \in Sites, EditorSubmit(site)
  PROVE  Click
<1>1. CASE Send("options", Call("add", 0, site, "none", TRUE))
  <2>0. PICK value \in BOOLEAN : value = TRUE
    OBVIOUS
  <2>1. PICK c : c = Call("add", 0, site, "none", value)
    OBVIOUS
  <2>2. CallOK("options", c) /\ c.pc = "sent" /\ c.op = "add" /\ c.rule = 0
    <3>1. Asks("options", "add", 0, site, "none", value)
      BY DEF Asks, Ops
    <3> QED BY <2>1, <3>1, CallIsOK
  <2>3. Clicked("options", c)
    BY <1>1, <2>0, <2>1, <2>2 DEF EditorSubmit, Clicked
  <2> QED BY <2>3 DEF Click, Pages
<1>2. ASSUME NEW r \in RuleIds, InView("options", r),
             Send("options", Call("update", r, site, "none", TRUE))
      PROVE  Click
  <2>0. PICK value \in BOOLEAN : value = TRUE
    OBVIOUS
  <2>1. PICK c : c = Call("update", r, site, "none", value)
    OBVIOUS
  <2>2. CallOK("options", c) /\ c.pc = "sent" /\ c.op = "update" /\ c.rule = r
    <3>1. Asks("options", "update", r, site, "none", value)
      BY DEF Asks, Ops
    <3> QED BY <2>1, <3>1, CallIsOK
  <2>3. Clicked("options", c)
    BY <1>2, <2>0, <2>1, <2>2 DEF EditorSubmit, Clicked
  <2> QED BY <2>3 DEF Click, Pages
<1> QED BY <1>1, <1>2 DEF EditorSubmit

\* Either page pauses and resumes.
LEMMA PauseSends ==
  ASSUME IInv, NEW p \in Pages, UNCHANGED twice,
         Send(p, Call("pause", 0, None, "none", ~page[p].enabled))
  PROVE  Click
<1>1. PICK value \in BOOLEAN : value = ~page[p].enabled
  BY DEF IInv, PagesTyped, PageRecords
<1>2. PICK c : c = Call("pause", 0, None, "none", value)
  OBVIOUS
<1>3. CallOK(p, c) /\ c.pc = "sent" /\ c.op = "pause" /\ c.rule = 0
  <2>1. Asks(p, "pause", 0, None, "none", value)
    BY DEF Asks, Ops
  <2> QED BY <1>2, <2>1, CallIsOK
<1>4. Clicked(p, c)
  BY <1>1, <1>2, <1>3 DEF Clicked
<1> QED BY <1>4 DEF Click

LEMMA PauseOptionsSends ==
  ASSUME IInv, PauseOptions
  PROVE  Click
BY PauseSends DEF PauseOptions, Pages

LEMMA PausePopupSends ==
  ASSUME IInv, PausePopup
  PROVE  Click
BY PauseSends DEF PausePopup, Pages

LEMMA ChooseLanguageSends ==
  ASSUME NEW pref \in Offered, ChooseLanguage(pref)
  PROVE  Click
<1>0. PICK value \in BOOLEAN : value = TRUE
  OBVIOUS
<1>1. PICK c : c = Call("language", 0, None, pref, value)
  OBVIOUS
<1>2. pref \in Preferences
  BY PagesAssumption
<1>3. CallOK("options", c) /\ c.pc = "sent" /\ c.op = "language" /\ c.rule = 0
  <2>1. Asks("options", "language", 0, None, pref, value)
    BY <1>2 DEF Asks, Ops
  <2> QED BY <1>1, <2>1, CallIsOK
<1>4. Clicked("options", c)
  BY <1>0, <1>1, <1>3 DEF ChooseLanguage, Clicked
<1> QED BY <1>4 DEF Click, Pages

LEMMA PopupFileSends ==
  ASSUME IInv, NEW r \in RuleIds, NEW k \in Kinds, PopupFile(r, k)
  PROVE  Click
<1>1. PICK x \in RuleRecords : x = page["popup"].rules[r]
  BY InViewIsRule DEF IInv, PopupFile, Pages
<1>2. PICK value \in BOOLEAN : value = ~Entry(r, k).checked
  BY <1>1, RuleFields DEF Entry
<1>3. PICK c : c = Call("file", r, None, k, value)
  OBVIOUS
<1>4. CallOK("popup", c) /\ c.pc = "sent" /\ c.op = "file" /\ c.rule = r
  <2>1. Asks("popup", "file", r, None, k, value)
    BY DEF Asks, Ops
  <2> QED BY <1>3, <2>1, CallIsOK
<1>5. Clicked("popup", c)
  BY <1>2, <1>3, <1>4 DEF PopupFile, Clicked
<1> QED BY <1>5 DEF Click, Pages

LEMMA PopupSiteSends ==
  ASSUME IInv, PopupSite
  PROVE  Click
<1>1. PICK value \in BOOLEAN : value = ~page["popup"].off
  BY DEF IInv, PagesTyped, PageRecords, Pages
<1>2. PICK c : c = Call("site", 0, doc[tab].site, "none", value)
  OBVIOUS
<1>3. doc[tab].site \in Sites
  BY SiteOfTab DEF IInv
<1>4. CallOK("popup", c) /\ c.pc = "sent" /\ c.op = "site" /\ c.rule = 0 /\ c.site = doc[tab].site
  <2>1. Asks("popup", "site", 0, doc[tab].site, "none", value)
    BY <1>3 DEF Asks, Ops
  <2> QED BY <1>2, <2>1, CallIsOK
<1>5. Clicked("popup", c)
  BY <1>1, <1>2, <1>4 DEF PopupSite, Clicked
<1> QED BY <1>5 DEF Click, Pages

\* The clicks that send a call.
LEMMA ClickSends ==
  ASSUME IInv,
         \/ \E r \in RuleIds : Switch(r) \/ RowMenu(r) \/ ConfirmRemoval(r) \/ \E k \in Kinds : PopupFile(r, k)
         \/ \E site \in Sites : EditorSubmit(site)
         \/ \E pref \in Offered : ChooseLanguage(pref)
         \/ PauseOptions \/ PausePopup \/ PopupSite
  PROVE  Click
<1>1. ASSUME NEW r \in RuleIds, Switch(r) PROVE Click
  BY <1>1, SwitchSends
<1>2. ASSUME NEW r \in RuleIds, RowMenu(r) PROVE Click
  BY <1>2, RowMenuSends
<1>3. ASSUME NEW r \in RuleIds, ConfirmRemoval(r) PROVE Click
  BY <1>3, ConfirmRemovalSends
<1>4. ASSUME NEW r \in RuleIds, NEW k \in Kinds, PopupFile(r, k) PROVE Click
  BY <1>4, PopupFileSends
<1>5. ASSUME NEW site \in Sites, EditorSubmit(site) PROVE Click
  BY <1>5, EditorSubmitSends
<1>6. ASSUME NEW pref \in Offered, ChooseLanguage(pref) PROVE Click
  BY <1>6, ChooseLanguageSends
<1>7. ASSUME PauseOptions \/ PausePopup \/ PopupSite PROVE Click
  BY <1>7, PauseOptionsSends, PausePopupSends, PopupSiteSends
<1> QED BY <1>1, <1>2, <1>3, <1>4, <1>5, <1>6, <1>7

-----------------------------------------------------------------------------
(* Calls are handled *)

\* One call of a page is replaced, and is not being written before or after.
LEMMA LineReplaced ==
  ASSUME NEW p \in Pages, LineInv(p), NEW i \in DOMAIN calls[p], NEW d, CallOK(p, d),
         calls[p][i].pc # "writing", d.pc # "writing", d.pc # "sent",
         \A j \in 1..(i - 1) : calls[p][j].pc # "sent",
         calls'[p] = [calls[p] EXCEPT ![i] = d],
         WriteSeq(writes), writes' = writes
  PROVE  /\ LineInv(p)'
         /\ i \in DOMAIN calls'[p] /\ calls'[p][i] = d
         /\ \A j \in DOMAIN calls[p] :
               j # i => j \in DOMAIN calls'[p] /\ calls'[p][j] = calls[p][j]
<1>1. /\ CallSeq(calls[p]) /\ SentLast(calls[p]) /\ Lined(calls[p], writes, p)
      /\ \A j \in DOMAIN calls[p] : CallOK(p, calls[p][j])
      /\ d \in CallRecords
  BY DEF LineInv, CallOK
<1>2. PICK s : s = calls[p] /\ CallSeq(s) /\ i \in DOMAIN s
  BY <1>1
<1>3. PICK t : \E n \in Nat :
            /\ t = [s EXCEPT ![i] = d] /\ CallSeq(t)
            /\ DOMAIN s = 1..n /\ DOMAIN t = 1..n
            /\ \A j \in 1..n : t[j] = IF j = i THEN d ELSE s[j]
  <2>1. CallSeq(s) /\ i \in DOMAIN s /\ d \in CallRecords
    BY <1>1, <1>2
  <2> QED BY <2>1, CallReplaced
<1>4. PICK n \in Nat :
            /\ t = [s EXCEPT ![i] = d] /\ CallSeq(t)
            /\ DOMAIN s = 1..n /\ DOMAIN t = 1..n
            /\ \A j \in 1..n : t[j] = IF j = i THEN d ELSE s[j]
  BY <1>3
<1>5. calls'[p] = t
  BY <1>2, <1>4
<1>6. Lined(t, writes, p)
  BY <1>1, <1>2, <1>4, LinedReplaced
<1>7. \A j \in DOMAIN t : CallOK(p, t[j])
  BY <1>1, <1>2, <1>4
<1>8. SentLast(t)
  <2> SUFFICES ASSUME NEW j \in 1..n, NEW k \in 1..n, j < k, t[j].pc = "sent"
               PROVE  t[k].pc = "sent"
    BY <1>4 DEF SentLast
  <2>1. i \in 1..n
    BY <1>2, <1>4
  <2>2. j # i /\ t[j] = s[j]
    BY <1>4
  <2>3. ~(j \in 1..(i - 1))
    BY <1>2, <2>2
  <2>4. k # i
    BY <2>1, <2>2, <2>3
  <2>5. t[k] = s[k]
    BY <1>4, <2>4
  <2> QED BY <1>1, <1>2, <1>4, <2>2, <2>5 DEF SentLast
<1> QED BY <1>2, <1>4, <1>5, <1>6, <1>7, <1>8 DEF LineInv

\* The rules after a call.
LEMMA RulesAfterTyped ==
  ASSUME BackgroundTyped, NEW p, NEW c, CallOK(p, c), NEW new,
         c.op \in {"add", "copy"} => new \in RuleIds
  PROVE  /\ RulesAfter(c, new) \in [RuleIds -> {None} \cup RuleRecords]
         /\ c.op \in {"add", "copy"} => RulesAfter(c, new)[new] # None
         /\ c.op = "file" /\ RulesAfter(c, new) # rules => RulesAfter(c, new)[c.rule] # None
<1>1. /\ rules \in [RuleIds -> {None} \cup RuleRecords]
      /\ c.op \in {"update", "file", "switch", "remove"} => c.rule \in RuleIds
      /\ c.op \in {"add", "copy", "update", "site"} => c.site \in Sites
      /\ c.op = "file" => c.what \in Kinds
      /\ c.value \in BOOLEAN
  BY DEF BackgroundTyped, CallOK, CallRecords
<1>2. \A x \in RuleRecords : x # None
  BY NoneIsNoRule
<1>3. CASE c.op \in {"add", "copy"}
  <2>1. PICK x : x = [site |-> c.site, on |-> c.value, js |-> TRUE, css |-> TRUE]
    OBVIOUS
  <2>2. x \in RuleRecords
    BY <1>1, <1>3, <2>1 DEF RuleRecords
  <2>3. RulesAfter(c, new) = [rules EXCEPT ![new] = x]
    BY <1>3, <2>1 DEF RulesAfter
  <2> QED BY <1>1, <1>2, <1>3, <2>2, <2>3
<1>4. ASSUME c.op \in {"update", "file", "switch"}, rules[c.rule] # None
      PROVE  \E x \in RuleRecords : RulesAfter(c, new) = [rules EXCEPT ![c.rule] = x]
  <2>1. PICK y \in RuleRecords : y = rules[c.rule]
    BY <1>1, <1>4
  <2>2. c.rule \in RuleIds
    BY <1>1, <1>4
  <2>3. CASE c.op = "update"
    <3>1. RulesAfter(c, new) = [rules EXCEPT ![c.rule].site = c.site]
      BY <1>4, <2>3 DEF RulesAfter
    <3>2. PICK x : x = [y EXCEPT !.site = c.site]
      OBVIOUS
    <3>3. x \in RuleRecords
      BY <1>1, <2>3, <3>2 DEF RuleRecords
    <3> QED BY <2>1, <2>2, <3>1, <3>2, <3>3
  <2>4. CASE c.op = "file"
    <3>1. RulesAfter(c, new) = [rules EXCEPT ![c.rule][c.what] = c.value]
      BY <1>4, <2>4 DEF RulesAfter
    <3>2. PICK x : x = [y EXCEPT ![c.what] = c.value]
      OBVIOUS
    <3>3. x \in RuleRecords
      BY <1>1, <2>4, <3>2 DEF RuleRecords, Kinds
    <3> QED BY <2>1, <2>2, <3>1, <3>2, <3>3
  <2>5. CASE c.op = "switch"
    <3>1. RulesAfter(c, new) = [rules EXCEPT ![c.rule].on = c.value]
      BY <1>4, <2>5 DEF RulesAfter
    <3>2. PICK x : x = [y EXCEPT !.on = c.value]
      OBVIOUS
    <3>3. x \in RuleRecords
      BY <1>1, <3>2 DEF RuleRecords
    <3> QED BY <2>1, <2>2, <3>1, <3>2, <3>3
  <2> QED BY <1>4, <2>3, <2>4, <2>5
<1>5. CASE c.op \in {"update", "file", "switch"} /\ rules[c.rule] # None
  BY <1>1, <1>2, <1>4, <1>5
<1>6. CASE c.op = "remove"
  <2>1. RulesAfter(c, new) = [rules EXCEPT ![c.rule] = None]
    BY <1>6 DEF RulesAfter
  <2> QED BY <1>1, <1>6, <2>1
<1>7. CASE ~(c.op \in {"add", "copy"}) /\ c.op # "remove"
           /\ ~(c.op \in {"update", "file", "switch"} /\ rules[c.rule] # None)
  <2>1. RulesAfter(c, new) = rules
    BY <1>7 DEF RulesAfter
  <2> QED BY <1>1, <1>7, <2>1
<1> QED BY <1>3, <1>5, <1>6, <1>7

LEMMA BlockedAfterTyped ==
  ASSUME BackgroundTyped, NEW p, NEW c, CallOK(p, c)
  PROVE  /\ BlockedAfter(c) \subseteq Sites
         /\ c.op = "file" => BlockedAfter(c) = blocked
<1>1. blocked \subseteq Sites /\ (c.op = "site" => c.site \in Sites)
  BY DEF BackgroundTyped, CallOK
<1> QED BY <1>1 DEF BlockedAfter

\* The call that has been handled.
Handled(c, id, reply) == [c EXCEPT !.pc = "handled", !.rule = id, !.reply = reply]

LEMMA HandledIsOK ==
  ASSUME NEW p \in Pages, NEW c, CallOK(p, c), c.op \notin {"pause", "language"},
         NEW id \in {0} \cup RuleIds, NEW reply \in {None} \cup RuleRecords,
         c.op \in {"add", "copy"} => reply # None,
         c.op \notin {"add", "copy"} => id = c.rule,
         reply # None => id \in RuleIds
  PROVE  /\ CallOK(p, Handled(c, id, reply))
         /\ Handled(c, id, reply).pc = "handled" /\ Handled(c, id, reply).op = c.op
         /\ Handled(c, id, reply).reply = reply
<1>0. PICK d : d = Handled(c, id, reply)
  OBVIOUS
<1>1. /\ d \in CallRecords
      /\ d.pc = "handled" /\ d.rule = id /\ d.reply = reply
      /\ d.op = c.op /\ d.site = c.site /\ d.what = c.what /\ d.value = c.value
  BY <1>0 DEF Handled, CallOK, CallRecords
<1>2. CallOK(p, d)
  BY <1>1 DEF CallOK
<1> QED BY <1>0, <1>1, <1>2

LEMMA HandleKeeps ==
  ASSUME IInv, NEW p \in Pages, NEW i \in DOMAIN calls[p], Handle(p, i)
  PROVE  IInv'
<1>1. /\ BackgroundTyped /\ TabTyped /\ PagesTyped /\ RestTyped
      /\ CallsInv /\ LocaleInv /\ CardOK /\ TabInv
  BY DEF IInv
<1>2. PICK c, new, id, reply, after :
        /\ c = calls[p][i] /\ new = created + 1
        /\ id = IF c.op \in {"add", "copy"} THEN new ELSE c.rule
        /\ after = RulesAfter(c, new)
        /\ reply = IF id = 0 THEN None ELSE after[id]
  OBVIOUS
<1>3. /\ c.pc = "sent" /\ \A j \in 1..(i - 1) : calls[p][j].pc # "sent"
      /\ c.op \notin {"pause", "language"}
      /\ c.op \in {"add", "copy"} => new \in RuleIds
      /\ created' = IF c.op \in {"add", "copy"} THEN new ELSE created
      /\ rules' = after
      /\ blocked' = BlockedAfter(c)
      /\ reloads' = reloads + (IF c.op = "site" THEN 1 ELSE 0)
      /\ calls' = [calls EXCEPT ![p][i].pc = "handled", ![p][i].rule = id, ![p][i].reply = reply]
      /\ IF <<rules', blocked'>> = <<rules, blocked>>
         THEN UNCHANGED <<behind, current>> ELSE Changed(p, c)
      /\ UNCHANGED <<enabled, writes, language, tab, doc, script, toTab, failures, cardVars, localeVars,
                     page, told, twice, refilled, acts>>
  BY <1>2 DEF Handle, NextSent, settingsVars
<1>4. /\ DOMAIN calls = Pages /\ WriteSeq(writes) /\ \A q \in Pages : LineInv(q)
      /\ CallSeq(calls[p]) /\ CallOK(p, c)
  BY <1>1, <1>2 DEF CallsInv, LineInv
<1>5. /\ after \in [RuleIds -> {None} \cup RuleRecords]
      /\ c.op \in {"add", "copy"} => after[new] # None
      /\ c.op = "file" /\ after # rules => after[c.rule] # None
      /\ blocked' \subseteq Sites
      /\ c.op = "file" => blocked' = blocked
  BY <1>1, <1>2, <1>3, <1>4, RulesAfterTyped, BlockedAfterTyped
<1>6. /\ id \in {0} \cup RuleIds /\ (id # 0 => id \in RuleIds)
      /\ reply \in {None} \cup RuleRecords
      /\ c.op \in {"add", "copy"} => reply # None
      /\ c.op \notin {"add", "copy"} => id = c.rule
      /\ reply # None => id \in RuleIds
  <2>1. c.rule \in {0} \cup RuleIds
    BY <1>4 DEF CallOK, CallRecords
  <2>2. id \in {0} \cup RuleIds /\ (id # 0 => id \in RuleIds)
    BY <1>2, <1>3, <2>1
  <2>3. c.op \in {"add", "copy"} => id = new /\ id \in RuleIds /\ id # 0
    BY <1>2, <1>3, NoneIsNoRule
  <2>4. reply \in {None} \cup RuleRecords
    BY <1>2, <1>5, <2>2
  <2>5. reply # None => id \in RuleIds
    BY <1>2, <2>2
  <2> QED BY <1>2, <1>5, <2>2, <2>3, <2>4, <2>5
<1>7. PICK d : d = Handled(c, id, reply)
  OBVIOUS
<1>8. CallOK(p, d) /\ d.pc = "handled" /\ d.op = c.op /\ d.reply = reply
  BY <1>3, <1>4, <1>6, <1>7, HandledIsOK
<1>9. /\ calls'[p] = [calls[p] EXCEPT ![i] = d]
      /\ DOMAIN calls' = Pages
      /\ \A q \in Pages : q # p => calls'[q] = calls[q]
  <2>1. p \in DOMAIN calls /\ CallSeq(calls[p])
    BY <1>4
  <2>2. calls' = [calls EXCEPT ![p][i].pc = "handled", ![p][i].rule = id, ![p][i].reply = reply]
    BY <1>3
  <2>3. /\ calls'[p] = [calls[p] EXCEPT ![i] = Handled(calls[p][i], id, reply)]
        /\ DOMAIN calls' = DOMAIN calls
        /\ \A q \in DOMAIN calls : q # p => calls'[q] = calls[q]
    BY <2>1, <2>2 DEF Handled
  <2> QED BY <1>2, <1>4, <1>7, <2>3
<1>10. /\ LineInv(p)'
       /\ i \in DOMAIN calls'[p] /\ calls'[p][i] = d
       /\ \A j \in DOMAIN calls[p] :
             j # i => j \in DOMAIN calls'[p] /\ calls'[p][j] = calls[p][j]
  BY <1>2, <1>3, <1>4, <1>8, <1>9, LineReplaced
<1>11. CallsInv'
  <2>1. \A q \in Pages : LineInv(q)'
    BY <1>3, <1>4, <1>9, <1>10, LineBeside
  <2> QED BY <1>3, <1>4, <1>9, <2>1 DEF CallsInv
<1>12. BackgroundTyped'
  <2>1. created' \in 0..Cardinality(RuleIds)
    <3>1. PICK n \in Nat : n = Cardinality(RuleIds) /\ RuleIds = 1..n
      BY PageAssumption, FS_CardinalityType
    <3>2. \A x \in 1..n : x \in 0..n
      OBVIOUS
    <3> QED BY <1>1, <1>3, <3>1, <3>2 DEF BackgroundTyped
  <2> QED BY <1>1, <1>3, <1>5, <2>1 DEF BackgroundTyped
<1>13. current' \in [Scripts -> BOOLEAN] /\ behind' \in [Pages -> BOOLEAN]
  <2>1. current \in [Scripts -> BOOLEAN] /\ behind \in [Pages -> BOOLEAN]
    BY <1>1 DEF TabTyped, RestTyped
  <2>2. CASE Changed(p, c)
    BY <2>1, <2>2 DEF Changed, Outdated
  <2>3. CASE UNCHANGED <<behind, current>>
    BY <2>1, <2>3
  <2> QED BY <1>3, <2>2, <2>3
<1>14. TabTyped' /\ PagesTyped' /\ LocaleInv'
  <2>1. TabTyped'
    BY <1>1, <1>3, <1>13 DEF TabTyped
  <2>2. PagesTyped'
    BY <1>1, <1>3 DEF PagesTyped
  <2> QED BY <1>1, <1>3, <2>1, <2>2, LocaleStays
<1>15. RestTyped'
  BY <1>1, <1>3, <1>13 DEF RestTyped
<1>16. CardOK'
  BY <1>1, <1>3, CardOKStays
<1>17. reloads \in Nat /\ (reloads > 0 => reloads' > 0) /\ (c.op = "site" => reloads' > 0)
  BY <1>1, <1>3 DEF RestTyped
<1>18. Pending => Pending'
  <2>1. ASSUME NEW j \in DOMAIN calls["popup"], Expects(calls["popup"][j])
        PROVE  j \in DOMAIN calls'["popup"] /\ Expects(calls'["popup"][j])
    <3>1. calls["popup"][j].pc = "handled"
      BY <2>1 DEF Expects
    <3>2. p = "popup" => j # i
      BY <1>2, <1>3, <3>1
    <3>3. j \in DOMAIN calls'["popup"] /\ calls'["popup"][j] = calls["popup"][j]
      BY <1>9, <1>10, <3>2 DEF Pages
    <3> QED BY <2>1, <3>3 DEF Expects
  <2> QED BY <1>3, <1>17, <2>1 DEF Pending
<1>19. TabInv'
  <2>1. CASE <<rules', blocked'>> = <<rules, blocked>>
    BY <1>1, <1>3, <1>18, <2>1, TabInvQuiet
  <2>2. CASE Outdated
    BY <1>1, <1>3, <2>2, TabInvStays DEF Outdated
  <2>3. CASE /\ <<rules', blocked'>> # <<rules, blocked>>
             /\ p = "popup" /\ (page[p].pc = "open" \/ c.op = "site")
    <3>1. Pending'
      <4>1. CASE c.op = "site"
        BY <1>17, <4>1 DEF Pending
      <4>2. CASE c.op # "site" /\ page[p].pc = "open"
        <5>1. c.op = "file" /\ after # rules /\ c.rule \in RuleIds
          BY <1>3, <1>4, <1>5, <2>3, <4>2 DEF CallOK
        <5>2. id = c.rule /\ id # 0
          BY <1>2, <5>1, NoneIsNoRule
        <5>3. reply # None
          BY <1>2, <1>5, <5>1, <5>2
        <5>4. Expects(calls'[p][i])
          BY <1>8, <1>10, <5>1, <5>3 DEF Expects
        <5> QED BY <1>3, <1>10, <2>3, <4>2, <5>4 DEF Pending
      <4> QED BY <2>3, <4>1, <4>2
    <3> QED BY <1>1, <1>3, <3>1, TabInvStays
  <2> QED BY <1>3, <2>1, <2>2, <2>3 DEF Changed
<1> QED BY <1>11, <1>12, <1>14, <1>15, <1>16, <1>19 DEF IInv

-----------------------------------------------------------------------------
(* The settings chain *)

\* A call of the page joins the chain.
LEMMA LineJoins ==
  ASSUME NEW p \in Pages, LineInv(p), NEW i \in DOMAIN calls[p],
         calls[p][i].pc = "sent", \A j \in 1..(i - 1) : calls[p][j].pc # "sent",
         NEW d, CallOK(p, d), d.pc = "writing",
         calls'[p] = [calls[p] EXCEPT ![i] = d],
         WriteSeq(writes), NEW x \in WriteRecords, x.page = p, Matches(x, d),
         writes' = Append(writes, x)
  PROVE  /\ LineInv(p)'
         /\ \A j \in DOMAIN calls[p] :
               j # i => j \in DOMAIN calls'[p] /\ calls'[p][j] = calls[p][j]
<1>1. /\ CallSeq(calls[p]) /\ SentLast(calls[p]) /\ Lined(calls[p], writes, p)
      /\ \A j \in DOMAIN calls[p] : CallOK(p, calls[p][j])
      /\ d \in CallRecords
  BY DEF LineInv, CallOK
<1>2. PICK s : s = calls[p] /\ CallSeq(s) /\ i \in DOMAIN s
  BY <1>1
<1>3. PICK t : \E n \in Nat :
            /\ t = [s EXCEPT ![i] = d] /\ CallSeq(t)
            /\ DOMAIN s = 1..n /\ DOMAIN t = 1..n
            /\ \A j \in 1..n : t[j] = IF j = i THEN d ELSE s[j]
  <2>1. CallSeq(s) /\ i \in DOMAIN s /\ d \in CallRecords
    BY <1>1, <1>2
  <2> QED BY <2>1, CallReplaced
<1>4. PICK n \in Nat :
            /\ t = [s EXCEPT ![i] = d] /\ CallSeq(t)
            /\ DOMAIN s = 1..n /\ DOMAIN t = 1..n
            /\ \A j \in 1..n : t[j] = IF j = i THEN d ELSE s[j]
  BY <1>3
<1>5. calls'[p] = t
  BY <1>2, <1>4
<1>6. \A j \in DOMAIN s : s[j].pc = "writing" => j < i
  <2> SUFFICES ASSUME NEW j \in 1..n, s[j].pc = "writing", ~(j < i) PROVE FALSE
    BY <1>4
  <2>1. i \in 1..n /\ j # i /\ i < j
    BY <1>2, <1>4
  <2>2. s[j].pc = "sent"
    BY <1>1, <1>2, <1>4, <2>1 DEF SentLast
  <2> QED BY <2>2
<1>7. Lined(t, Append(writes, x), p)
  BY <1>1, <1>2, <1>4, <1>6, LinedJoins
<1>8. \A j \in DOMAIN t : CallOK(p, t[j])
  BY <1>1, <1>2, <1>4
<1>9. SentLast(t)
  <2> SUFFICES ASSUME NEW j \in 1..n, NEW k \in 1..n, j < k, t[j].pc = "sent"
               PROVE  t[k].pc = "sent"
    BY <1>4 DEF SentLast
  <2>1. i \in 1..n
    BY <1>2, <1>4
  <2>2. j # i /\ t[j] = s[j]
    BY <1>4
  <2>3. ~(j \in 1..(i - 1))
    BY <1>2, <2>2
  <2>4. k # i
    BY <2>1, <2>2, <2>3
  <2>5. t[k] = s[k]
    BY <1>4, <2>4
  <2> QED BY <1>1, <1>2, <1>4, <2>2, <2>5 DEF SentLast
<1> QED BY <1>2, <1>4, <1>5, <1>7, <1>8, <1>9 DEF LineInv

LEMMA HandleSettingKeeps ==
  ASSUME IInv, NEW p \in Pages, NEW i \in DOMAIN calls[p], HandleSetting(p, i)
  PROVE  IInv'
<1>1. /\ BackgroundTyped /\ TabTyped /\ PagesTyped /\ RestTyped
      /\ CallsInv /\ LocaleInv /\ CardOK /\ TabInv
  BY DEF IInv
<1>2. PICK c, x, d :
        /\ c = calls[p][i]
        /\ x = [page |-> p, op |-> c.op, what |-> c.what, value |-> c.value]
        /\ d = [c EXCEPT !.pc = "writing"]
  OBVIOUS
<1>3. /\ c.pc = "sent" /\ \A j \in 1..(i - 1) : calls[p][j].pc # "sent"
      /\ c.op \in {"pause", "language"}
      /\ writes' = Append(writes, x)
      /\ calls' = [calls EXCEPT ![p][i].pc = "writing"]
      /\ UNCHANGED <<background, language, pageVars, reloads, cardVars, localeVars, page, told, ghosts, acts>>
  BY <1>2 DEF HandleSetting, NextSent
<1>4. /\ DOMAIN calls = Pages /\ WriteSeq(writes) /\ \A q \in Pages : LineInv(q)
      /\ CallSeq(calls[p]) /\ CallOK(p, c) /\ c \in CallRecords
  BY <1>1, <1>2 DEF CallsInv, LineInv, CallOK
<1>5. /\ d.pc = "writing" /\ d.op = c.op /\ d.what = c.what /\ d.value = c.value
      /\ d.rule = c.rule /\ d.site = c.site /\ d.reply = c.reply
      /\ d \in CallRecords
  BY <1>2, <1>4 DEF CallRecords
<1>6. CallOK(p, d)
  BY <1>3, <1>4, <1>5 DEF CallOK
<1>7. x \in WriteRecords /\ x.page = p /\ Matches(x, d)
  <2>1. c.what \in {"none"} \cup Preferences /\ c.value \in BOOLEAN
    BY <1>3, <1>4 DEF CallOK, CallRecords
  <2> QED BY <1>2, <1>3, <1>5, <2>1 DEF WriteRecords, Matches
<1>8. /\ calls'[p] = [calls[p] EXCEPT ![i] = d]
      /\ DOMAIN calls' = Pages
      /\ \A q \in Pages : q # p => calls'[q] = calls[q]
  BY <1>2, <1>3, <1>4
<1>9. /\ LineInv(p)'
      /\ \A j \in DOMAIN calls[p] :
            j # i => j \in DOMAIN calls'[p] /\ calls'[p][j] = calls[p][j]
  BY <1>2, <1>3, <1>4, <1>6, <1>5, <1>7, <1>8, LineJoins
<1>10. ASSUME NEW q \in Pages, q # p PROVE LineInv(q)'
  <2>1. CallSeq(calls[q]) /\ Lined(calls[q], writes, q)
    BY <1>4 DEF LineInv
  <2>2. Lined(calls[q], Append(writes, x), q)
    BY <1>4, <1>7, <1>10, <2>1, LinedBeside
  <2> QED BY <1>3, <1>4, <1>8, <1>10, <2>2 DEF LineInv
<1>11. CallsInv'
  <2>1. \A q \in Pages : LineInv(q)'
    BY <1>9, <1>10
  <2>2. WriteSeq(writes')
    BY <1>3, <1>4, <1>7, WriteAppended
  <2> QED BY <1>8, <2>1, <2>2 DEF CallsInv
<1>12. BackgroundTyped' /\ TabTyped'
  BY <1>1, <1>3, BackgroundStays, TabStays
<1>13. PagesTyped' /\ LocaleInv' /\ RestTyped' /\ CardOK'
  <2>1. refilled' = refilled
    BY <1>3 DEF ghosts
  <2> QED BY <1>1, <1>3, <2>1, LocaleStays, RestStays, CardOKStays DEF PagesTyped
<1>14. TabInv'
  <2>1. ASSUME NEW j \in DOMAIN calls["popup"], Expects(calls["popup"][j])
        PROVE  j \in DOMAIN calls'["popup"] /\ Expects(calls'["popup"][j])
    <3>1. calls["popup"][j].pc = "handled"
      BY <2>1 DEF Expects
    <3>2. p = "popup" => j # i
      BY <1>2, <1>3, <3>1
    <3>3. j \in DOMAIN calls'["popup"] /\ calls'["popup"][j] = calls["popup"][j]
      BY <1>8, <1>9, <3>2 DEF Pages
    <3> QED BY <2>1, <3>3 DEF Expects
  <2>2. Pending => Pending'
    BY <1>3, <2>1 DEF Pending
  <2> QED BY <1>1, <1>3, <2>2, TabInvQuiet DEF background, pageVars
<1> QED BY <1>11, <1>12, <1>13, <1>14 DEF IInv

\* What the head of the chain is about.
LEMMA HeadOfChain ==
  ASSUME CallsInv, writes # << >>
  PROVE  /\ Head(writes) \in WriteRecords
         /\ Oldest(calls[Head(writes).page], Writing(Head(writes).page))
         /\ Matches(Head(writes), calls[Head(writes).page][Writing(Head(writes).page)])
<1>1. Head(writes) \in WriteRecords
  <2>1. PICK v : \E n \in Nat :
            /\ v = Tail(writes) /\ WriteSeq(v)
            /\ 1 <= n /\ DOMAIN writes = 1..n /\ DOMAIN v = 1..(n - 1)
            /\ \A j \in 1..(n - 1) : v[j] = writes[j + 1]
            /\ Head(writes) = writes[1]
    BY WriteTail DEF CallsInv
  <2>2. PICK n \in Nat : 1 <= n /\ DOMAIN writes = 1..n /\ Head(writes) = writes[1]
    BY <2>1
  <2>3. \E k \in Nat : Len(writes) = k /\ DOMAIN writes = 1..k /\ \A j \in 1..k : writes[j] \in WriteRecords
    BY WritePlaces DEF CallsInv
  <2>4. \A j \in DOMAIN writes : writes[j] \in WriteRecords
    BY <2>3
  <2>5. 1 \in 1..n
    BY <2>2
  <2> QED BY <2>2, <2>4, <2>5
<1>2. PICK p \in Pages : p = Head(writes).page
  BY <1>1 DEF WriteRecords
<1>3. CallSeq(calls[p]) /\ WriteSeq(writes) /\ Lined(calls[p], writes, p)
  BY DEF CallsInv, LineInv
<1>4. \E i : \E f \in [Nat -> Nat] :
            /\ Oldest(calls[p], i) /\ Matches(Head(writes), calls[p][i])
            /\ \A x : Oldest(calls[p], x) => x = i
            /\ InStep(calls[p], writes, p, f) /\ f[1] = i
  <2>1. PICK s, w : s = calls[p] /\ w = writes
    OBVIOUS
  <2>2. CallSeq(s) /\ WriteSeq(w) /\ Lined(s, w, p) /\ w # << >> /\ Head(w).page = p
    BY <1>2, <1>3, <2>1
  <2>3. \E i : \E f \in [Nat -> Nat] :
            /\ Oldest(s, i) /\ Matches(Head(w), s[i])
            /\ \A x : Oldest(s, x) => x = i
            /\ InStep(s, w, p, f) /\ f[1] = i
    BY <2>2, HeadIsOldest
  <2> QED BY <2>1, <2>3
<1>5. PICK i : /\ Oldest(calls[p], i) /\ Matches(Head(writes), calls[p][i])
               /\ \A x : Oldest(calls[p], x) => x = i
  BY <1>4
<1>6. Oldest(calls[p], Writing(p))
  BY <1>5 DEF Oldest, Writing
<1>7. Writing(p) = i
  BY <1>5, <1>6
<1> QED BY <1>1, <1>2, <1>5, <1>7

\* The chain has lost its first write, whose call is done.
LEMMA LineDone ==
  ASSUME CallsInv, writes # << >>, writes' = Tail(writes),
         NEW p \in Pages, p = Head(writes).page, NEW i, Oldest(calls[p], i),
         NEW d, CallOK(p, d), d.pc \in {"handled", "failed"},
         calls' = [calls EXCEPT ![p] = [@ EXCEPT ![i] = d]]
  PROVE  /\ CallsInv'
         /\ i \in DOMAIN calls'[p] /\ calls'[p][i] = d
         /\ \A j \in DOMAIN calls[p] :
               j # i => j \in DOMAIN calls'[p] /\ calls'[p][j] = calls[p][j]
         /\ \A q \in Pages : q # p => calls'[q] = calls[q]
<1>1. /\ DOMAIN calls = Pages /\ WriteSeq(writes) /\ \A q \in Pages : LineInv(q)
      /\ i \in DOMAIN calls[p] /\ calls[p][i].pc = "writing"
  BY DEF CallsInv, Oldest
<1>2. /\ CallSeq(calls[p]) /\ SentLast(calls[p]) /\ Lined(calls[p], writes, p)
      /\ \A j \in DOMAIN calls[p] : CallOK(p, calls[p][j])
      /\ d \in CallRecords /\ d.pc # "writing" /\ d.pc # "sent"
  BY <1>1 DEF LineInv, CallOK
<1>3. PICK s : s = calls[p] /\ CallSeq(s) /\ i \in DOMAIN s
  BY <1>1, <1>2
<1>4. \E t : \E n \in Nat :
            /\ t = [s EXCEPT ![i] = d] /\ CallSeq(t)
            /\ DOMAIN s = 1..n /\ DOMAIN t = 1..n
            /\ \A j \in 1..n : t[j] = IF j = i THEN d ELSE s[j]
  <2>1. CallSeq(s) /\ i \in DOMAIN s /\ d \in CallRecords
    BY <1>2, <1>3
  <2> QED BY <2>1, CallReplaced
<1>4a. PICK t : \E n \in Nat :
            /\ t = [s EXCEPT ![i] = d] /\ CallSeq(t)
            /\ DOMAIN s = 1..n /\ DOMAIN t = 1..n
            /\ \A j \in 1..n : t[j] = IF j = i THEN d ELSE s[j]
  BY <1>4
<1>5. PICK n \in Nat :
            /\ t = [s EXCEPT ![i] = d] /\ CallSeq(t)
            /\ DOMAIN s = 1..n /\ DOMAIN t = 1..n
            /\ \A j \in 1..n : t[j] = IF j = i THEN d ELSE s[j]
  BY <1>4a
<1>6. calls'[p] = t
  BY <1>1, <1>3, <1>5
<1>7. Lined(t, Tail(writes), p)
  <2>1. CallSeq(s) /\ WriteSeq(writes) /\ Lined(s, writes, p) /\ Oldest(s, i)
    BY <1>1, <1>2, <1>3
  <2>2. d \in CallRecords /\ d.pc # "writing"
    BY <1>2
  <2> QED BY <1>5, <2>1, <2>2, LinedDone
<1>8. \A j \in DOMAIN t : CallOK(p, t[j])
  BY <1>2, <1>3, <1>5
<1>9. SentLast(t)
  <2> SUFFICES ASSUME NEW j \in 1..n, NEW k \in 1..n, j < k, t[j].pc = "sent"
               PROVE  t[k].pc = "sent"
    BY <1>5 DEF SentLast
  <2>1. j # i /\ t[j] = s[j]
    BY <1>2, <1>5
  <2>2. s[k].pc = "sent"
    BY <1>2, <1>3, <1>5, <2>1 DEF SentLast
  <2>3. k # i
    BY <1>1, <1>3, <2>2
  <2> QED BY <1>5, <2>2, <2>3
<1>10. LineInv(p)'
  BY <1>5, <1>6, <1>7, <1>8, <1>9 DEF LineInv
<1>11. ASSUME NEW q \in Pages, q # p PROVE LineInv(q)' /\ calls'[q] = calls[q]
  <2>1. calls'[q] = calls[q]
    BY <1>1, <1>11
  <2>2. CallSeq(calls[q]) /\ Lined(calls[q], writes, q)
    BY <1>1 DEF LineInv
  <2>3. Lined(calls[q], Tail(writes), q)
    BY <1>1, <1>11, <2>2, LinedAside
  <2> QED BY <1>1, <2>1, <2>3 DEF LineInv
<1>12. WriteSeq(Tail(writes))
  <2>1. \E v : \E k \in Nat :
            /\ v = Tail(writes) /\ WriteSeq(v)
            /\ 1 <= k /\ DOMAIN writes = 1..k /\ DOMAIN v = 1..(k - 1)
            /\ \A j \in 1..(k - 1) : v[j] = writes[j + 1]
            /\ Head(writes) = writes[1]
    BY <1>1, WriteTail
  <2> QED BY <2>1
<1>13. CallsInv'
  <2>1. \A q \in Pages : LineInv(q)'
    BY <1>10, <1>11
  <2>2. DOMAIN calls' = Pages
    BY <1>1
  <2> QED BY <1>12, <2>1, <2>2 DEF CallsInv
<1> QED BY <1>1, <1>3, <1>5, <1>6, <1>11, <1>13

\* A call that is written or has failed.
LEMMA DoneIsOK ==
  ASSUME NEW p, NEW c, CallOK(p, c), c.op \in {"pause", "language"}, NEW how \in {"handled", "failed"},
         how = "handled" => c.op = "pause"
  PROVE  /\ CallOK(p, [c EXCEPT !.pc = how])
         /\ [c EXCEPT !.pc = how].pc = how /\ [c EXCEPT !.pc = how].op = c.op
<1>0. PICK d : d = [c EXCEPT !.pc = how]
  OBVIOUS
<1>1. /\ d \in CallRecords
      /\ d.pc = how /\ d.rule = c.rule /\ d.reply = c.reply
      /\ d.op = c.op /\ d.site = c.site /\ d.what = c.what /\ d.value = c.value
  BY <1>0 DEF CallOK, CallRecords
<1>2. CallOK(p, d)
  BY <1>1 DEF CallOK
<1> QED BY <1>0, <1>1, <1>2

\* The popup's calls that the tab will be reloaded for are left alone.
LEMMA PendingStays ==
  ASSUME UNCHANGED <<page, reloads>>,
         \A j \in DOMAIN calls["popup"] :
            calls["popup"][j].pc = "handled" =>
               j \in DOMAIN calls'["popup"] /\ calls'["popup"][j] = calls["popup"][j]
  PROVE  Pending => Pending'
BY DEF Pending, Expects

LEMMA PauseWrittenKeeps ==
  ASSUME IInv, PauseWritten
  PROVE  IInv'
<1>1. /\ BackgroundTyped /\ TabTyped /\ PagesTyped /\ RestTyped
      /\ CallsInv /\ LocaleInv /\ CardOK /\ TabInv
  BY DEF IInv
<1>2. PICK w, p, i, c, d :
        /\ w = Head(writes) /\ p = w.page /\ i = Writing(p) /\ c = calls[p][i]
        /\ d = [c EXCEPT !.pc = "handled"]
  OBVIOUS
<1>3. /\ writes # << >> /\ w.op = "pause"
      /\ writes' = Tail(writes)
      /\ enabled' = w.value
      /\ calls' = [calls EXCEPT ![p][i].pc = "handled"]
      /\ IF enabled' = enabled THEN UNCHANGED <<behind, current>> ELSE Changed(p, c)
      /\ UNCHANGED <<rules, created, blocked, language, tab, doc, script, toTab, failures, reloads,
                     cardVars, localeVars, page, told, twice, refilled, acts>>
  BY <1>2 DEF PauseWritten
<1>4. w \in WriteRecords /\ Oldest(calls[p], i) /\ Matches(w, c)
  BY <1>1, <1>2, <1>3, HeadOfChain
<1>5. p \in Pages /\ w.value \in BOOLEAN /\ c.op = "pause"
  BY <1>2, <1>3, <1>4 DEF WriteRecords, Matches
<1>6. i \in DOMAIN calls[p] /\ c.pc = "writing" /\ CallOK(p, c) /\ DOMAIN calls = Pages
  BY <1>1, <1>2, <1>4, <1>5 DEF Oldest, CallsInv, LineInv
<1>7. CallOK(p, d) /\ d.pc = "handled" /\ d.op = "pause"
  <2>1. PICK how \in {"handled", "failed"} : how = "handled"
    OBVIOUS
  <2>2. /\ CallOK(p, [c EXCEPT !.pc = how])
        /\ [c EXCEPT !.pc = how].pc = how /\ [c EXCEPT !.pc = how].op = c.op
    BY <1>5, <1>6, <2>1, DoneIsOK
  <2> QED BY <1>2, <1>5, <2>1, <2>2
<1>8. calls' = [calls EXCEPT ![p] = [@ EXCEPT ![i] = d]]
  BY <1>2, <1>3
<1>9. /\ CallsInv'
      /\ i \in DOMAIN calls'[p] /\ calls'[p][i] = d
      /\ \A j \in DOMAIN calls[p] :
            j # i => j \in DOMAIN calls'[p] /\ calls'[p][j] = calls[p][j]
      /\ \A q \in Pages : q # p => calls'[q] = calls[q]
  <2>1. CallsInv /\ writes # << >> /\ writes' = Tail(writes) /\ p = Head(writes).page
    BY <1>1, <1>2, <1>3
  <2>2. p \in Pages /\ Oldest(calls[p], i)
    BY <1>4, <1>5
  <2>3. CallOK(p, d) /\ d.pc \in {"handled", "failed"}
    BY <1>7
  <2> QED BY <1>8, <2>1, <2>2, <2>3, LineDone
<1>10. BackgroundTyped'
  BY <1>1, <1>3, <1>5 DEF BackgroundTyped
<1>11. current' \in [Scripts -> BOOLEAN] /\ behind' \in [Pages -> BOOLEAN]
  <2>1. current \in [Scripts -> BOOLEAN] /\ behind \in [Pages -> BOOLEAN]
    BY <1>1 DEF TabTyped, RestTyped
  <2>2. CASE Changed(p, c)
    BY <2>1, <2>2 DEF Changed, Outdated
  <2>3. CASE UNCHANGED <<behind, current>>
    BY <2>1, <2>3
  <2> QED BY <1>3, <2>2, <2>3
<1>12. TabTyped' /\ PagesTyped' /\ RestTyped'
  <2>1. TabTyped'
    BY <1>1, <1>3, <1>11 DEF TabTyped
  <2>2. PagesTyped'
    BY <1>1, <1>3 DEF PagesTyped
  <2>3. RestTyped'
    BY <1>1, <1>3, <1>11 DEF RestTyped
  <2> QED BY <2>1, <2>2, <2>3
<1>13. LocaleInv' /\ CardOK'
  BY <1>1, <1>3, LocaleStays, CardOKStays
<1>14. Pending => Pending'
  <2>1. \A j \in DOMAIN calls["popup"] :
            calls["popup"][j].pc = "handled" =>
               j \in DOMAIN calls'["popup"] /\ calls'["popup"][j] = calls["popup"][j]
    BY <1>2, <1>6, <1>9 DEF Pages
  <2> QED BY <1>3, <2>1, PendingStays
<1>15. TabInv'
  <2>1. CASE enabled' = enabled
    BY <1>1, <1>3, <1>14, <2>1, TabInvQuiet
  <2>2. CASE Outdated
    BY <1>1, <1>3, <2>2, TabInvStays DEF Outdated
  <2>3. CASE p = "popup" /\ page[p].pc = "open"
    <3>1. Expects(calls'[p][i])
      BY <1>7, <1>9 DEF Expects
    <3>2. Pending'
      BY <1>3, <1>9, <2>3, <3>1 DEF Pending
    <3> QED BY <1>1, <1>3, <3>2, TabInvStays
  <2> QED BY <1>3, <1>5, <2>1, <2>2, <2>3 DEF Changed
<1> QED BY <1>9, <1>10, <1>12, <1>13, <1>15 DEF IInv

LEMMA WriteFailsKeeps ==
  ASSUME IInv, WriteFails
  PROVE  IInv'
<1>1. /\ BackgroundTyped /\ TabTyped /\ PagesTyped /\ RestTyped
      /\ CallsInv /\ LocaleInv /\ CardOK /\ TabInv
  BY DEF IInv
<1>2. PICK w, p, i, c, d :
        /\ w = Head(writes) /\ p = w.page /\ i = Writing(p) /\ c = calls[p][i]
        /\ d = [c EXCEPT !.pc = "failed"]
  OBVIOUS
<1>3. /\ writes # << >>
      /\ writes' = Tail(writes)
      /\ failures < MaxFailures /\ failures' = failures + 1
      /\ calls' = [calls EXCEPT ![p][i].pc = "failed"]
      /\ UNCHANGED <<background, language, tab, doc, script, toTab, current, reloads,
                     cardVars, localeVars, page, told, ghosts, acts>>
  BY <1>2 DEF WriteFails
<1>4. w \in WriteRecords /\ Oldest(calls[p], i) /\ Matches(w, c)
  BY <1>1, <1>2, <1>3, HeadOfChain
<1>5. p \in Pages /\ c.op \in {"pause", "language"}
  BY <1>2, <1>4 DEF WriteRecords, Matches
<1>6. i \in DOMAIN calls[p] /\ c.pc = "writing" /\ CallOK(p, c) /\ DOMAIN calls = Pages
  BY <1>1, <1>2, <1>4, <1>5 DEF Oldest, CallsInv, LineInv
<1>7. CallOK(p, d) /\ d.pc = "failed"
  <2>1. PICK how \in {"handled", "failed"} : how = "failed"
    OBVIOUS
  <2>2. /\ CallOK(p, [c EXCEPT !.pc = how])
        /\ [c EXCEPT !.pc = how].pc = how /\ [c EXCEPT !.pc = how].op = c.op
    BY <1>5, <1>6, <2>1, DoneIsOK
  <2> QED BY <1>2, <1>5, <2>1, <2>2
<1>8. calls' = [calls EXCEPT ![p] = [@ EXCEPT ![i] = d]]
  BY <1>2, <1>3
<1>9. /\ CallsInv'
      /\ i \in DOMAIN calls'[p] /\ calls'[p][i] = d
      /\ \A j \in DOMAIN calls[p] :
            j # i => j \in DOMAIN calls'[p] /\ calls'[p][j] = calls[p][j]
      /\ \A q \in Pages : q # p => calls'[q] = calls[q]
  <2>1. CallsInv /\ writes # << >> /\ writes' = Tail(writes) /\ p = Head(writes).page
    BY <1>1, <1>2, <1>3
  <2>2. p \in Pages /\ Oldest(calls[p], i)
    BY <1>4, <1>5
  <2>3. CallOK(p, d) /\ d.pc \in {"handled", "failed"}
    BY <1>7
  <2> QED BY <1>8, <2>1, <2>2, <2>3, LineDone
<1>10. BackgroundTyped' /\ PagesTyped'
  BY <1>1, <1>3, BackgroundStays DEF PagesTyped
<1>11. TabTyped'
  <2>1. failures' \in 0..MaxFailures
    BY <1>1, <1>3, PageAssumption DEF TabTyped
  <2> QED BY <1>1, <1>3, <2>1 DEF TabTyped
<1>12. RestTyped' /\ LocaleInv' /\ CardOK'
  <2>1. refilled' = refilled
    BY <1>3 DEF ghosts
  <2> QED BY <1>1, <1>3, <2>1, RestStays, LocaleStays, CardOKStays
<1>13. Pending => Pending'
  <2>1. \A j \in DOMAIN calls["popup"] :
            calls["popup"][j].pc = "handled" =>
               j \in DOMAIN calls'["popup"] /\ calls'["popup"][j] = calls["popup"][j]
    BY <1>2, <1>6, <1>9 DEF Pages
  <2> QED BY <1>3, <2>1, PendingStays
<1>14. TabInv'
  BY <1>1, <1>3, <1>13, TabInvQuiet DEF background
<1> QED BY <1>9, <1>10, <1>11, <1>12, <1>14 DEF IInv

-----------------------------------------------------------------------------
(* Calls that are done with *)

\* All calls but one are still there, and no others.
Among(t, s) == \A j \in DOMAIN t : \E k \in DOMAIN s : t[j] = s[k]
AllBut(t, s, i) == \A k \in DOMAIN s : k # i => \E j \in DOMAIN t : t[j] = s[k]

LEMMA ShorterKeeps ==
  ASSUME NEW s, NEW i \in DOMAIN s, NEW t, Shorter(t, s, i), SentLast(s)
  PROVE  Among(t, s) /\ AllBut(t, s, i) /\ SentLast(t)
<1>1. PICK n \in Nat : /\ DOMAIN s = 1..n /\ DOMAIN t = 1..(n - 1)
                       /\ \A j \in 1..(n - 1) : t[j] = IF j < i THEN s[j] ELSE s[j + 1]
  BY DEF Shorter
<1>2. i \in Nat /\ 1 <= i /\ i <= n
  BY <1>1
<1>3. \A j \in 1..(n - 1) : j \in 1..n /\ j + 1 \in 1..n
  OBVIOUS
<1>4. Among(t, s)
  BY <1>1, <1>3 DEF Among
<1>5. AllBut(t, s, i)
  <2> SUFFICES ASSUME NEW k \in 1..n, k # i PROVE \E j \in 1..(n - 1) : t[j] = s[k]
    BY <1>1 DEF AllBut
  <2>1. CASE k < i
    <3>1. k \in 1..(n - 1)
      BY <1>2, <2>1
    <3> QED BY <1>1, <2>1, <3>1
  <2>2. CASE i < k
    <3>1. k - 1 \in 1..(n - 1) /\ ~(k - 1 < i) /\ (k - 1) + 1 = k
      BY <1>2, <2>2
    <3>2. PICK m : m = k - 1
      OBVIOUS
    <3>3. t[m] = s[k]
      BY <1>1, <3>1, <3>2
    <3> QED BY <3>1, <3>2, <3>3
  <2> QED BY <1>2, <2>1, <2>2
<1>6. SentLast(t)
  <2> SUFFICES ASSUME NEW j \in 1..(n - 1), NEW k \in 1..(n - 1), j < k, t[j].pc = "sent"
               PROVE  t[k].pc = "sent"
    BY <1>1 DEF SentLast
  <2>1. PICK jj, kk : jj = (IF j < i THEN j ELSE j + 1) /\ kk = (IF k < i THEN k ELSE k + 1)
    OBVIOUS
  <2>2. jj \in 1..n /\ kk \in 1..n /\ jj < kk
    BY <1>2, <2>1
  <2>3. t[j] = s[jj] /\ t[k] = s[kk]
    BY <1>1, <2>1
  <2> QED BY <1>1, <2>2, <2>3 DEF SentLast
<1> QED BY <1>4, <1>5, <1>6

\* A page's call leaves.
LEMMA LineShorter ==
  ASSUME NEW p \in Pages, LineInv(p), NEW i \in DOMAIN calls[p],
         calls'[p] = RemoveAt(calls[p], i), Lined(RemoveAt(calls[p], i), writes', p)
  PROVE  /\ LineInv(p)'
         /\ AllBut(calls'[p], calls[p], i)
<1>1. /\ CallSeq(calls[p]) /\ SentLast(calls[p])
      /\ \A j \in DOMAIN calls[p] : CallOK(p, calls[p][j])
  BY DEF LineInv
<1>2. PICK s, t : s = calls[p] /\ t = RemoveAt(s, i)
  OBVIOUS
<1>3. CallSeq(t) /\ Shorter(t, s, i)
  BY <1>1, <1>2, CallRemoved
<1>4. Among(t, s) /\ AllBut(t, s, i) /\ SentLast(t)
  BY <1>1, <1>2, <1>3, ShorterKeeps
<1>5. \A j \in DOMAIN t : CallOK(p, t[j])
  BY <1>1, <1>2, <1>4 DEF Among
<1>6. calls'[p] = t
  BY <1>2
<1> QED BY <1>2, <1>3, <1>4, <1>5, <1>6 DEF LineInv

LEMMA HeadOfTold ==
  ASSUME NEW S, NEW s \in Seq(S), s # << >>
  PROVE  Head(s) \in S /\ Tail(s) \in Seq(S)
OBVIOUS

LEMMA LanguageWrittenKeeps ==
  ASSUME IInv, LanguageWritten
  PROVE  IInv'
<1>1. /\ BackgroundTyped /\ TabTyped /\ PagesTyped /\ RestTyped
      /\ CallsInv /\ LocaleInv /\ CardOK /\ TabInv
  BY DEF IInv
<1>2. PICK w, p, i, c :
        /\ w = Head(writes) /\ p = w.page /\ i = Writing(p) /\ c = calls[p][i]
  OBVIOUS
<1>3. /\ writes # << >> /\ w.op = "language"
      /\ writes' = Tail(writes)
      /\ language' = w.what
      /\ told' = [q \in Pages |-> IF page[q].pc = "closed" THEN << >>
                                  ELSE told[q] \o (IF q = p THEN <<w.what, w.what>> ELSE <<w.what>>)]
      /\ calls' = [calls EXCEPT ![p] = RemoveAt(@, i)]
      /\ UNCHANGED <<background, pageVars, reloads, cardVars, localeVars, page, ghosts, acts>>
  BY <1>2 DEF LanguageWritten
<1>4. w \in WriteRecords /\ Oldest(calls[p], i) /\ Matches(w, c)
  BY <1>1, <1>2, <1>3, HeadOfChain
<1>5. p \in Pages /\ c.op = "language"
  BY <1>2, <1>3, <1>4 DEF WriteRecords, Matches
<1>6. /\ i \in DOMAIN calls[p] /\ c.pc = "writing" /\ CallOK(p, c) /\ DOMAIN calls = Pages
      /\ WriteSeq(writes) /\ \A q \in Pages : LineInv(q)
  BY <1>1, <1>2, <1>4, <1>5 DEF Oldest, CallsInv, LineInv
<1>7. w.what \in Preferences /\ p # "popup"
  BY <1>4, <1>5, <1>6 DEF CallOK, Matches
<1>8. calls'[p] = RemoveAt(calls[p], i) /\ DOMAIN calls' = Pages
      /\ \A q \in Pages : q # p => calls'[q] = calls[q]
  BY <1>3, <1>5, <1>6
<1>9. LineInv(p)'
  <2>1. PICK s, v : s = calls[p] /\ v = writes
    OBVIOUS
  <2>2. /\ CallSeq(s) /\ WriteSeq(v) /\ Lined(s, v, p)
        /\ v # << >> /\ Head(v).page = p /\ Oldest(s, i)
    BY <1>2, <1>3, <1>4, <1>5, <1>6, <2>1 DEF LineInv
  <2>3. Lined(RemoveAt(s, i), Tail(v), p)
    BY <2>2, LinedGone
  <2> QED BY <1>3, <1>5, <1>6, <1>8, <2>1, <2>3, LineShorter
<1>10. ASSUME NEW q \in Pages, q # p PROVE LineInv(q)'
  <2>1. CallSeq(calls[q]) /\ Lined(calls[q], writes, q)
    BY <1>6 DEF LineInv
  <2>2. Lined(calls[q], Tail(writes), q)
    BY <1>2, <1>3, <1>6, <1>10, <2>1, LinedAside
  <2> QED BY <1>3, <1>6, <1>8, <1>10, <2>2 DEF LineInv
<1>11. WriteSeq(Tail(writes))
  <2>1. \E v : \E k \in Nat :
            /\ v = Tail(writes) /\ WriteSeq(v)
            /\ 1 <= k /\ DOMAIN writes = 1..k /\ DOMAIN v = 1..(k - 1)
            /\ \A j \in 1..(k - 1) : v[j] = writes[j + 1]
            /\ Head(writes) = writes[1]
    BY <1>3, <1>6, WriteTail
  <2> QED BY <2>1
<1>12. CallsInv'
  <2>1. \A q \in Pages : LineInv(q)'
    BY <1>9, <1>10
  <2> QED BY <1>3, <1>8, <1>11, <2>1 DEF CallsInv
<1>13. BackgroundTyped' /\ TabTyped'
  <2>1. BackgroundTyped'
    BY <1>1, <1>3, <1>7 DEF BackgroundTyped, background
  <2> QED BY <1>1, <1>3, <2>1, TabStays
<1>14. PagesTyped'
  <2>1. ASSUME NEW q \in Pages PROVE told'[q] \in Seq(Preferences)
    <3>1. told[q] \in Seq(Preferences)
      BY <1>1 DEF PagesTyped
    <3>2. <<w.what, w.what>> \in Seq(Preferences) /\ <<w.what>> \in Seq(Preferences)
      BY <1>7
    <3>3. /\ told[q] \o <<w.what, w.what>> \in Seq(Preferences)
          /\ told[q] \o <<w.what>> \in Seq(Preferences)
          /\ << >> \in Seq(Preferences)
      BY <3>1, <3>2
    <3> QED BY <1>3, <3>3
  <2>2. told' \in [Pages -> Seq(Preferences)]
    BY <1>3, <2>1
  <2> QED BY <1>1, <1>3, <2>2 DEF PagesTyped
<1>15. RestTyped' /\ LocaleInv' /\ CardOK'
  <2>1. refilled' = refilled
    BY <1>3 DEF ghosts
  <2> QED BY <1>1, <1>3, <2>1, RestStays, LocaleStays, CardOKStays
<1>16. Pending => Pending'
  <2>1. calls'["popup"] = calls["popup"]
    BY <1>7, <1>8 DEF Pages
  <2> QED BY <1>3, <2>1 DEF Pending
<1>17. TabInv'
  BY <1>1, <1>3, <1>16, TabInvQuiet DEF background, pageVars
<1> QED BY <1>12, <1>13, <1>14, <1>15, <1>17 DEF IInv

-----------------------------------------------------------------------------
(* Answers *)

\* A view after an answer.
LEMMA ViewAfterIsPage ==
  ASSUME PagesTyped, NEW p \in Pages, NEW c, CallOK(p, c), c.pc \in {"handled", "failed"}
  PROVE  /\ ViewAfter(p, c) \in PageRecords
         /\ ViewAfter(p, c).pc = page[p].pc
         /\ p = "options" /\ c.op \notin {"add", "copy"} /\ page[p].rules = NoRules
               => ViewAfter(p, c).rules = NoRules
<1>1. PICK v \in PageRecords : v = page[p]
  BY DEF PagesTyped
<1>2. /\ v.rules \in [RuleIds -> {None} \cup RuleRecords]
      /\ c.value \in BOOLEAN /\ c.reply \in {None} \cup RuleRecords
      /\ c.op \in {"update", "file", "switch", "remove"} => c.rule \in RuleIds
      /\ c.reply # None => c.rule \in RuleIds
      /\ c.op \in {"add", "copy"} /\ c.pc = "handled" => c.reply # None
      /\ c.pc = "failed" => c.op \in {"pause", "language"}
  BY DEF PageRecords, CallOK, CallRecords
\* The rules of a view become other rules.
<1>3. ASSUME NEW u \in [RuleIds -> {None} \cup RuleRecords]
      PROVE  /\ [v EXCEPT !.rules = u] \in PageRecords
             /\ [v EXCEPT !.rules = u].pc = v.pc /\ [v EXCEPT !.rules = u].rules = u
  BY DEF PageRecords
<1>4. ASSUME NEW r \in RuleIds, NEW x \in {None} \cup RuleRecords
      PROVE  [v EXCEPT !.rules[r] = x] = [v EXCEPT !.rules = [v.rules EXCEPT ![r] = x]]
             /\ [v.rules EXCEPT ![r] = x] \in [RuleIds -> {None} \cup RuleRecords]
  BY <1>2 DEF PageRecords
<1>5. ASSUME NEW r \in RuleIds, NEW x \in {None} \cup RuleRecords
      PROVE  /\ [v EXCEPT !.rules[r] = x] \in PageRecords
             /\ [v EXCEPT !.rules[r] = x].pc = v.pc
             /\ [v EXCEPT !.rules[r] = x].rules = [v.rules EXCEPT ![r] = x]
  BY <1>3, <1>4
<1>6. ASSUME NEW e \in BOOLEAN
      PROVE  /\ [v EXCEPT !.enabled = e] \in PageRecords /\ [v EXCEPT !.off = e] \in PageRecords
             /\ [v EXCEPT !.enabled = e].pc = v.pc /\ [v EXCEPT !.off = e].pc = v.pc
             /\ [v EXCEPT !.enabled = e].rules = v.rules
  BY DEF PageRecords
<1>7. PICK a : a = ViewAfter(p, c)
  OBVIOUS
<1>8. CASE c.pc = "failed"
  BY <1>1, <1>8 DEF ViewAfter
<1>9. CASE c.pc # "failed" /\ p = "popup"
  <2>1. a = PopupAfter(v, c)
    BY <1>1, <1>7, <1>9 DEF ViewAfter
  <2>2. CASE c.op = "pause"
    <3>1. a = [v EXCEPT !.enabled = c.value]
      BY <2>1, <2>2 DEF PopupAfter
    <3> QED BY <1>1, <1>2, <1>6, <1>7, <1>9, <3>1
  <2>3. CASE c.op = "site"
    <3>1. a = [v EXCEPT !.off = c.value]
      BY <2>1, <2>3 DEF PopupAfter
    <3> QED BY <1>1, <1>2, <1>6, <1>7, <1>9, <3>1
  <2>4. CASE c.op \notin {"pause", "site"} /\ c.reply = None
    <3>1. a = v
      BY <2>1, <2>4 DEF PopupAfter
    <3> QED BY <1>1, <1>7, <1>9, <3>1
  <2>5. CASE c.op \notin {"pause", "site"} /\ c.reply # None
    <3>1. a = [v EXCEPT !.rules[c.rule] = c.reply]
      BY <2>1, <2>5 DEF PopupAfter
    <3>2. c.rule \in RuleIds /\ c.reply \in {None} \cup RuleRecords
      BY <1>2, <2>5
    <3>3. a \in PageRecords /\ a.pc = v.pc
      BY <1>5, <3>1, <3>2
    <3> QED BY <1>1, <1>7, <1>9, <3>3
  <2> QED BY <2>2, <2>3, <2>4, <2>5
<1>10. CASE c.pc # "failed" /\ p # "popup"
  <2>1. a = OptionsAfter(v, c)
    BY <1>1, <1>7, <1>10 DEF ViewAfter
  <2>2. CASE c.op = "pause"
    <3>1. a = [v EXCEPT !.enabled = c.value]
      BY <2>1, <2>2 DEF OptionsAfter
    <3> QED BY <1>1, <1>2, <1>6, <1>7, <3>1
  <2>3. CASE c.op = "remove"
    <3>1. a = [v EXCEPT !.rules[c.rule] = None] /\ c.rule \in RuleIds
      BY <1>2, <2>1, <2>3 DEF OptionsAfter
    <3>2. a \in PageRecords /\ a.pc = v.pc /\ a.rules = [v.rules EXCEPT ![c.rule] = None]
      BY <1>5, <3>1
    <3> QED BY <1>1, <1>7, <3>1, <3>2 DEF NoRules
  <2>4. CASE c.op = "switch"
    <3>1. c.rule \in RuleIds
      BY <1>2, <2>4
    <3>2. CASE v.rules[c.rule] = None
      <4>1. a = v
        BY <2>1, <2>4, <3>2 DEF OptionsAfter
      <4> QED BY <1>1, <1>7, <4>1
    <3>3. CASE v.rules[c.rule] # None
      <4>1. a = [v EXCEPT !.rules[c.rule].on = ~@]
        BY <2>1, <2>4, <3>3 DEF OptionsAfter
      <4>2. PICK y \in RuleRecords : y = v.rules[c.rule]
        BY <1>2, <3>1, <3>3
      <4>3. PICK x : x = [y EXCEPT !.on = ~@]
        OBVIOUS
      <4>4. x \in RuleRecords
        BY <4>3 DEF RuleRecords
      <4>5. a = [v EXCEPT !.rules[c.rule] = x]
        BY <1>2, <3>1, <4>1, <4>2, <4>3 DEF PageRecords
      <4>6. a \in PageRecords /\ a.pc = v.pc
        BY <1>5, <3>1, <4>4, <4>5
      <4>7. v.rules # NoRules
        BY <3>1, <3>3 DEF NoRules
      <4> QED BY <1>1, <1>7, <4>6, <4>7
    <3> QED BY <3>2, <3>3
  <2>5. CASE c.op \in {"add", "copy"}
    <3>1. a = [v EXCEPT !.rules[c.rule] = c.reply]
      BY <2>1, <2>5 DEF OptionsAfter
    <3>2. c.rule \in RuleIds
      BY <1>2, <1>10, <2>5
    <3> QED BY <1>1, <1>2, <1>5, <1>7, <2>5, <3>1, <3>2
  <2>6. CASE c.op \notin {"pause", "remove", "switch", "add", "copy"}
    <3>1. a = IF c.reply = None \/ v.rules[c.rule] = None THEN v ELSE [v EXCEPT !.rules[c.rule] = c.reply]
      BY <2>1, <2>6 DEF OptionsAfter
    <3>2. CASE c.reply = None \/ v.rules[c.rule] = None
      BY <1>1, <1>7, <3>1, <3>2
    <3>3. CASE ~(c.reply = None \/ v.rules[c.rule] = None)
      <4>1. a = [v EXCEPT !.rules[c.rule] = c.reply] /\ c.rule \in RuleIds
        BY <1>2, <3>1, <3>3
      <4>2. a \in PageRecords /\ a.pc = v.pc
        BY <1>2, <1>5, <4>1
      <4>3. v.rules # NoRules
        BY <3>3, <4>1 DEF NoRules
      <4> QED BY <1>1, <1>7, <4>2, <4>3
    <3> QED BY <3>2, <3>3
  <2> QED BY <2>2, <2>3, <2>4, <2>5, <2>6
<1> QED BY <1>2, <1>8, <1>9, <1>10

LEMMA AnswerKeeps ==
  ASSUME IInv, NEW p \in Pages, NEW i \in DOMAIN calls[p], Answer(p, i)
  PROVE  IInv'
<1>1. /\ BackgroundTyped /\ TabTyped /\ PagesTyped /\ RestTyped
      /\ CallsInv /\ LocaleInv /\ CardOK /\ TabInv
  BY DEF IInv
<1>2. PICK c : c = calls[p][i]
  OBVIOUS
<1>3. /\ c.pc \in {"handled", "failed"}
      /\ calls' = [calls EXCEPT ![p] = RemoveAt(@, i)]
      /\ page' = IF page[p].pc = "open" THEN [page EXCEPT ![p] = ViewAfter(p, c)] ELSE page
      /\ refilled' = (refilled \/ (c.op = "copy" /\ page[p].rules = NoRules))
      /\ reloads' = reloads + (IF AsksForReload(p, c) THEN 1 ELSE 0)
      /\ IF c.op = "add" THEN ResetCard ELSE UNCHANGED cardVars
      /\ UNCHANGED <<background, writes, language, pageVars, localeVars, told, behind, twice, acts>>
  BY <1>2 DEF Answer, settingsVars
<1>4. /\ DOMAIN calls = Pages /\ WriteSeq(writes) /\ \A q \in Pages : LineInv(q)
      /\ CallOK(p, c)
  BY <1>1, <1>2 DEF CallsInv, LineInv
<1>5. calls'[p] = RemoveAt(calls[p], i) /\ DOMAIN calls' = Pages
      /\ \A q \in Pages : q # p => calls'[q] = calls[q]
  BY <1>3, <1>4
<1>6. LineInv(p)' /\ AllBut(calls'[p], calls[p], i)
  <2>1. CallSeq(calls[p]) /\ Lined(calls[p], writes, p) /\ calls[p][i].pc # "writing"
    BY <1>2, <1>3, <1>4 DEF LineInv
  <2>2. Lined(RemoveAt(calls[p], i), writes, p)
    BY <1>4, <2>1, LinedRemoved
  <2> QED BY <1>3, <1>4, <1>5, <2>2, LineShorter
<1>7. CallsInv'
  <2>1. \A q \in Pages : LineInv(q)'
    BY <1>3, <1>4, <1>5, <1>6, LineBeside
  <2> QED BY <1>3, <1>4, <1>5, <2>1 DEF CallsInv
<1>8. BackgroundTyped' /\ TabTyped' /\ LocaleInv'
  BY <1>1, <1>3, BackgroundStays, TabStays, LocaleStays
<1>9. PICK v : v = ViewAfter(p, c)
  OBVIOUS
<1>10. /\ v \in PageRecords /\ v.pc = page[p].pc
       /\ p = "options" /\ c.op \notin {"add", "copy"} /\ page[p].rules = NoRules => v.rules = NoRules
  BY <1>1, <1>3, <1>4, <1>9, ViewAfterIsPage
<1>11. /\ page' \in [Pages -> PageRecords]
       /\ \A q \in Pages : page'[q].pc = page[q].pc
       /\ \A q \in Pages : q # p => page'[q] = page[q]
       /\ page'[p] = page[p] \/ (page'[p] = v /\ page[p].pc = "open")
  <2>1. page \in [Pages -> PageRecords]
    BY <1>1 DEF PagesTyped
  <2>2. CASE page[p].pc = "open"
    <3>1. page' = [page EXCEPT ![p] = v]
      BY <1>3, <1>9, <2>2
    <3> QED BY <1>10, <2>1, <2>2, <3>1
  <2>3. CASE page[p].pc # "open"
    BY <1>3, <2>1, <2>3
  <2> QED BY <2>2, <2>3
<1>12. PagesTyped'
  BY <1>1, <1>3, <1>11 DEF PagesTyped
<1>13. reloads' \in Nat /\ reloads \in Nat /\ reloads <= reloads'
       /\ (AsksForReload(p, c) => reloads' > 0)
  BY <1>1, <1>3 DEF RestTyped
<1>14. RestTyped'
  <2>1. refilled' \in BOOLEAN
    BY <1>3
  <2> QED BY <1>1, <1>3, <1>13, <2>1 DEF RestTyped
<1>15. CardOK'
  <2>1. CASE c.op = "add"
    <3>1. CardInv' /\ status' = "idle"
      BY <1>1, <1>3, <2>1, ResetCardKeeps DEF CardOK
    <3> QED BY <3>1 DEF CardOK
  <2>2. CASE c.op # "add"
    <3>1. CardInv' /\ status' = status
      BY <1>1, <1>3, <2>2, CardStays DEF CardOK, cardVars
    <3>2. page'["options"].pc # "open" => status = "idle"
      BY <1>1, <1>11 DEF CardOK, Pages
    <3>3. page'["options"].rules # NoRules /\ ~refilled' => status = "idle"
      <4>1. CASE p # "options" \/ page'[p] = page[p]
        BY <1>1, <1>3, <1>11, <4>1 DEF CardOK, Pages
      <4>2. CASE p = "options" /\ page[p].rules # NoRules
        BY <1>1, <1>3, <4>2 DEF CardOK
      <4>3. CASE p = "options" /\ page[p].rules = NoRules /\ page'[p] = v
        <5>1. CASE c.op = "copy"
          BY <1>3, <4>3, <5>1
        <5>2. CASE c.op # "copy"
          BY <1>10, <2>2, <4>3, <5>2
        <5> QED BY <5>1, <5>2
      <4> QED BY <1>11, <4>1, <4>2, <4>3
    <3>4. NoRules' = NoRules
      BY DEF NoRules
    <3> QED BY <3>1, <3>2, <3>3, <3>4 DEF CardOK
  <2> QED BY <2>1, <2>2
<1>16. Pending => Pending'
  <2>1. CASE reloads > 0
    BY <1>13, <2>1 DEF Pending
  <2>2. ASSUME page["popup"].pc = "open", NEW j \in DOMAIN calls["popup"], Expects(calls["popup"][j])
        PROVE  Pending'
    <3>1. page'["popup"].pc = "open"
      BY <1>11, <2>2 DEF Pages
    <3>2. CASE p = "popup" /\ j = i
      <4>1. AsksForReload(p, c)
        BY <1>2, <2>2, <3>2 DEF AsksForReload, Expects
      <4> QED BY <1>13, <4>1 DEF Pending
    <3>3. CASE ~(p = "popup" /\ j = i)
      <4>1. \E k \in DOMAIN calls'["popup"] : calls'["popup"][k] = calls["popup"][j]
        <5>1. CASE p = "popup"
          BY <1>6, <3>3, <5>1 DEF AllBut
        <5>2. CASE p # "popup"
          BY <1>5, <5>2 DEF Pages
        <5> QED BY <5>1, <5>2
      <4>2. \E k \in DOMAIN calls'["popup"] : Expects(calls'["popup"][k])
        BY <2>2, <4>1
      <4> QED BY <3>1, <4>2 DEF Pending
    <3> QED BY <3>2, <3>3
  <2> QED BY <2>1, <2>2 DEF Pending
<1>17. TabInv'
  BY <1>1, <1>3, <1>16, TabInvQuiet DEF background, pageVars
<1> QED BY <1>7, <1>8, <1>12, <1>14, <1>15, <1>17 DEF IInv

LEMMA TakeLanguageKeeps ==
  ASSUME IInv, NEW p \in Pages, TakeLanguage(p)
  PROVE  IInv'
<1>1. /\ BackgroundTyped /\ TabTyped /\ PagesTyped /\ RestTyped
      /\ CallsInv /\ LocaleInv /\ CardOK /\ TabInv
  BY DEF IInv
<1>2. /\ told[p] # << >>
      /\ SetPreference(p, Head(told[p]), FALSE)
      /\ told' = [told EXCEPT ![p] = Tail(@)]
      /\ UNCHANGED <<background, writes, language, pageVars, reloads, cardVars, page, calls, ghosts, acts>>
      /\ refilled' = refilled
  BY DEF TakeLanguage, settingsVars, ghosts
<1>3. told[p] \in Seq(Preferences) /\ told \in [Pages -> Seq(Preferences)]
  BY <1>1 DEF PagesTyped
<1>4. PICK pref \in Preferences : pref = Head(told[p])
  BY <1>2, <1>3, HeadOfTold
<1>5. LocaleInv'
  <2>1. PICK force \in BOOLEAN : force = FALSE
    OBVIOUS
  <2>2. SetPreference(p, pref, force) /\ p \in Contexts
    BY <1>2, <1>4, <2>1, PagesAssumption DEF Pages
  <2> QED BY <1>1, <2>2, SetPreferenceKeeps
<1>6. PagesTyped'
  <2>1. Tail(told[p]) \in Seq(Preferences)
    BY <1>2, <1>3, HeadOfTold
  <2>2. told' \in [Pages -> Seq(Preferences)]
    BY <1>2, <1>3, <2>1
  <2> QED BY <1>1, <1>2, <2>2 DEF PagesTyped
<1>7. BackgroundTyped' /\ TabTyped' /\ CallsInv' /\ RestTyped' /\ CardOK'
  BY <1>1, <1>2, BackgroundStays, TabStays, CallsStay, RestStays, CardOKStays
<1>8. Pending => Pending'
  BY <1>2 DEF Pending
<1>9. TabInv'
  BY <1>1, <1>2, <1>8, TabInvQuiet DEF background, pageVars
<1> QED BY <1>5, <1>6, <1>7, <1>9 DEF IInv

LEMMA CatalogEndsKeeps ==
  ASSUME IInv, NEW p \in Pages, NEW catalog \in Locales, CatalogEnds(p, catalog)
  PROVE  IInv'
<1>1. /\ BackgroundTyped /\ TabTyped /\ PagesTyped /\ RestTyped
      /\ CallsInv /\ LocaleInv /\ CardOK /\ TabInv
  BY DEF IInv
<1>2. /\ CatalogArrives(p, catalog) \/ CatalogFails(p, catalog)
      /\ failures' = failures \/ (failures < MaxFailures /\ failures' = failures + 1)
      /\ UNCHANGED <<background, writes, language, tab, doc, script, toTab, current, reloads, cardVars,
                     page, calls, told, ghosts, acts>>
      /\ refilled' = refilled
  BY DEF CatalogEnds, settingsVars, pagesVars, ghosts
<1>3. LocaleInv'
  BY <1>1, <1>2, CatalogKeeps, PagesAssumption DEF Pages
<1>4. TabTyped'
  <2>1. failures' \in 0..MaxFailures
    BY <1>1, <1>2, PageAssumption DEF TabTyped
  <2> QED BY <1>1, <1>2, <2>1 DEF TabTyped
<1>5. BackgroundTyped' /\ CallsInv' /\ RestTyped' /\ CardOK' /\ PagesTyped'
  BY <1>1, <1>2, BackgroundStays, CallsStay, RestStays, CardOKStays DEF PagesTyped
<1>6. Pending => Pending'
  BY <1>2 DEF Pending
<1>7. TabInv'
  BY <1>1, <1>2, <1>6, TabInvQuiet DEF background
<1> QED BY <1>3, <1>4, <1>5, <1>7 DEF IInv

\* The card does something.
LEMMA CardKeeps ==
  ASSUME IInv, ClickRunDemo \/ CardWorks
  PROVE  IInv'
<1>1. /\ BackgroundTyped /\ TabTyped /\ PagesTyped /\ RestTyped
      /\ CallsInv /\ LocaleInv /\ CardOK /\ TabInv
  BY DEF IInv
<1>2. /\ UNCHANGED <<background, writes, language, pageVars, reloads, localeVars, page, calls, told, ghosts>>
      /\ refilled' = refilled /\ behind' = behind /\ twice' = twice
  BY DEF ClickRunDemo, CardWorks, settingsVars, pagesVars, ghosts
<1>3. BackgroundTyped' /\ TabTyped' /\ CallsInv' /\ LocaleInv' /\ PagesTyped'
  BY <1>1, <1>2, BackgroundStays, TabStays, CallsStay, LocaleStays DEF PagesTyped
<1>4. RestTyped'
  <2>1. acts' \in 0..MaxActs
    <3>1. CASE ClickRunDemo
      BY <1>1, <3>1, OneMoreAct DEF ClickRunDemo
    <3>2. CASE CardWorks
      BY <1>1, <3>2 DEF CardWorks, RestTyped
    <3> QED BY <3>1, <3>2
  <2> QED BY <1>1, <1>2, <2>1 DEF RestTyped
<1>5. CardOK'
  <2>1. CASE ClickRunDemo
    <3>1. CardInv' /\ page["options"].pc = "open" /\ page["options"].rules = NoRules
      BY <1>1, <2>1, RunDemoKeeps DEF ClickRunDemo, CardOK
    <3> QED BY <1>2, <3>1 DEF CardOK, NoRules
  <2>2. CASE CardWorks
    <3>1. CardInv' /\ (status = "idle" => status' = "idle")
      BY <1>1, <2>2, CardStepKeeps DEF CardWorks, CardOK
    <3> QED BY <1>1, <1>2, <3>1 DEF CardOK, NoRules
  <2> QED BY <2>1, <2>2
<1>6. Pending => Pending'
  BY <1>2 DEF Pending
<1>7. TabInv'
  BY <1>1, <1>2, <1>6, TabInvQuiet DEF background, pageVars
<1> QED BY <1>3, <1>4, <1>5, <1>7 DEF IInv

-----------------------------------------------------------------------------
(* The tab and its scripts *)

\* Everything but the tab, the reloads and the acts.
Beside == <<background, settingsVars, cardVars, localeVars, pagesVars, refilled>>

LEMMA TabMoves ==
  ASSUME IInv, UNCHANGED Beside
  PROVE  BackgroundTyped' /\ PagesTyped' /\ CallsInv' /\ LocaleInv' /\ CardOK'
<1>1. /\ BackgroundTyped /\ PagesTyped /\ CallsInv /\ LocaleInv /\ CardOK
      /\ UNCHANGED <<background, writes, language, cardVars, localeVars, page, calls, told, refilled>>
  BY DEF IInv, Beside, settingsVars, pagesVars
<1> QED BY <1>1, BackgroundStays, CallsStay, LocaleStays, CardOKStays DEF PagesTyped

LEMMA ScriptIsPair ==
  ASSUME NEW s \in Scripts
  PROVE  s # <<0, 0>> /\ s[1] \in Docs /\ s = <<s[1], s[2]>>
BY PageAssumption DEF Scripts, Docs

\* The parts of TabInv that concern one script.
TabParts ==
    /\ TabTyped /\ MarkOK /\ OwnEffects
    /\ \A s \in Scripts : Fresh(s)
    /\ \A s \in Scripts : doc[tab].mark = s /\ current[s] /\ ~Pending => ScriptOK(s)

LEMMA TabPartsAre == IInv => TabParts
BY DEF IInv, TabInv, TabParts

\* A new document bears no mark.
LEMMA NewDocumentKeeps ==
  ASSUME TabParts, UNCHANGED background, NEW site \in Sites, NewDocument(site)
  PROVE  TabTyped' /\ TabInv'
<1>1. /\ TabTyped /\ MarkOK /\ OwnEffects
      /\ \A s \in Scripts : Fresh(s)
  BY DEF TabParts
<1>2. /\ tab < MaxDocs /\ tab' = tab + 1
      /\ doc' = [doc EXCEPT ![tab + 1] = Blank(site)]
      /\ script' = [s \in Scripts |->
            IF s[1] = tab /\ script[s].pc \in {"answered", "head"}
            THEN [script[s] EXCEPT !.pc = "gone"] ELSE script[s]]
      /\ UNCHANGED <<toTab, current, failures>>
  BY DEF NewDocument
<1>3. tab' \in Docs
  BY <1>1, <1>2, PageAssumption DEF TabTyped, Docs
<1>4. PICK b : b = Blank(site)
  OBVIOUS
<1>5. b \in DocRecords /\ b.mark = <<0, 0>> /\ b.ran = {} /\ b.styled = {}
  BY <1>4 DEF Blank, DocRecords
<1>6. /\ doc' \in [Docs -> DocRecords] /\ doc'[tab'] = b
      /\ \A d \in Docs : d # tab' => doc'[d] = doc[d]
  BY <1>1, <1>2, <1>3, <1>4, <1>5 DEF TabTyped
<1>7. \A s \in Scripts : /\ script'[s] \in ScriptRecords
                         /\ script'[s] = script[s] \/ script'[s].pc = "gone"
  <2> SUFFICES ASSUME NEW s \in Scripts
               PROVE  script'[s] \in ScriptRecords /\ (script'[s] = script[s] \/ script'[s].pc = "gone")
    OBVIOUS
  <2>1. PICK x \in ScriptRecords : x = script[s]
    BY <1>1 DEF TabTyped
  <2>2. [x EXCEPT !.pc = "gone"] \in ScriptRecords /\ [x EXCEPT !.pc = "gone"].pc = "gone"
    BY DEF ScriptRecords
  <2> QED BY <1>2, <2>1, <2>2
<1>8. TabTyped'
  <2>1. script' \in [Scripts -> ScriptRecords]
    BY <1>2, <1>7
  <2> QED BY <1>1, <1>2, <1>3, <1>6, <2>1 DEF TabTyped
<1>9. MarkOK' /\ OwnEffects'
  <2>1. ASSUME NEW d \in Docs
        PROVE  /\ doc'[d].mark # <<0, 0>> => doc'[d].mark[1] = d
               /\ \A m \in doc'[d].ran \cup doc'[d].styled : m[1][1] = d
    <3>1. CASE d = tab'
      BY <1>5, <1>6, <3>1
    <3>2. CASE d # tab'
      BY <1>1, <1>6, <3>2 DEF MarkOK, OwnEffects
    <3> QED BY <3>1, <3>2
  <2> QED BY <2>1 DEF MarkOK, OwnEffects
<1>10. ASSUME NEW s \in Scripts PROVE Fresh(s)'
  <2>1. CASE script'[s].pc = "gone"
    BY <2>1 DEF Fresh
  <2>2. CASE script'[s] = script[s]
    <3>1. Fresh(s)
      BY <1>1
    <3>2. \A d \in Docs : /\ doc'[d].ran = doc[d].ran \/ doc'[d].ran = {}
                          /\ doc'[d].styled = doc[d].styled \/ doc'[d].styled = {}
      BY <1>5, <1>6
    <3> QED BY <1>2, <2>2, <3>1, <3>2 DEF Fresh
  <2> QED BY <1>7, <2>1, <2>2
<1>11. \A s \in Scripts : doc'[tab'].mark # s
  BY <1>5, <1>6, ScriptIsPair
<1> QED BY <1>8, <1>9, <1>10, <1>11 DEF TabInv

LEMMA ReloadKeeps ==
  ASSUME IInv, Reload
  PROVE  IInv'
<1>1. UNCHANGED Beside /\ UNCHANGED <<background, behind, twice, refilled, acts>>
  BY DEF Reload, Beside, ghosts, background
<1>2. doc[tab].site \in Sites
  BY SiteOfTab DEF IInv
<1>3. NewDocument(doc[tab].site)
  BY DEF Reload, ReloadTab
<1>4. TabTyped' /\ TabInv'
  BY <1>1, <1>2, <1>3, NewDocumentKeeps, TabPartsAre
<1>5. RestTyped'
  <2>1. reloads' \in Nat
    BY DEF Reload, IInv, RestTyped
  <2> QED BY <1>1, <2>1 DEF IInv, RestTyped
<1> QED BY <1>1, <1>4, <1>5, TabMoves DEF IInv

LEMMA NavigateKeeps ==
  ASSUME IInv, NEW site \in Sites, Navigate(site)
  PROVE  IInv'
<1>1. UNCHANGED Beside /\ UNCHANGED <<background, twice, refilled, reloads>>
  BY DEF Navigate, Beside, background
<1>2. TabTyped' /\ TabInv'
  BY <1>1, NewDocumentKeeps, TabPartsAre DEF Navigate
<1>3. RestTyped'
  <2>1. acts' \in 0..MaxActs
    BY OneMoreAct DEF Navigate, IInv
  <2>2. behind' \in [Pages -> BOOLEAN]
    BY DEF Navigate, IInv, RestTyped
  <2> QED BY <1>1, <2>1, <2>2 DEF IInv, RestTyped
<1> QED BY <1>1, <1>2, <1>3, TabMoves DEF IInv

-----------------------------------------------------------------------------
(* The content scripts and what the background does for them *)

\* What the rules say for the tab has not changed.
LEMMA RuledNow ==
  ASSUME UNCHANGED background, tab' = tab, doc'[tab].site = doc[tab].site, NEW s
  PROVE  /\ Active(doc[tab].site)' = Active(doc[tab].site)
         /\ \A r, kind : Wanted(r, kind)' <=> Wanted(r, kind)
         /\ (\A r \in RuleIds : <<s, r>> \in doc'[tab].ran \cup toTab' <=> Wanted(r, "js"))
               => AsRuled(s, doc[tab].ran \cup toTab, "js")'
         /\ (\A r \in RuleIds : <<s, r>> \in doc'[tab].styled <=> Wanted(r, "css"))
               => AsRuled(s, doc[tab].styled, "css")'
<1>1. Active(doc[tab].site)' = Active(doc[tab].site)
  BY DEF Active, Matching, background
<1>2. \A r, kind : Wanted(r, kind)' <=> Wanted(r, kind)
  BY <1>1 DEF Wanted
<1> QED BY <1>1, <1>2 DEF AsRuled

\* A script that is not concerned, in a document whose site stays.
LEMMA ScriptAside ==
  ASSUME NEW s \in Scripts, ScriptOK(s), UNCHANGED background, tab' = tab,
         script'[s] = script[s], doc'[tab].site = doc[tab].site,
         \A r \in RuleIds : /\ <<s, r>> \in doc'[tab].ran \cup toTab' <=> <<s, r>> \in doc[tab].ran \cup toTab
                            /\ <<s, r>> \in doc'[tab].styled <=> <<s, r>> \in doc[tab].styled
  PROVE  ScriptOK(s)'
<1>1. /\ Active(doc[tab].site)' = Active(doc[tab].site)
      /\ \A r, kind : Wanted(r, kind)' <=> Wanted(r, kind)
  BY RuledNow
<1>2. /\ AsRuled(s, doc[tab].ran \cup toTab, "js") => AsRuled(s, doc[tab].ran \cup toTab, "js")'
      /\ AsRuled(s, doc[tab].styled, "css") => AsRuled(s, doc[tab].styled, "css")'
  BY <1>1 DEF AsRuled
<1> QED BY <1>1, <1>2 DEF ScriptOK

LEMMA FreshAside ==
  ASSUME NEW s \in Scripts, Fresh(s), script'[s] = script[s],
         \A r \in RuleIds : /\ <<s, r>> \in toTab' => <<s, r>> \in toTab
                            /\ \A d \in Docs : /\ <<s, r>> \in doc'[d].ran => <<s, r>> \in doc[d].ran \cup toTab
                                               /\ <<s, r>> \in doc'[d].styled => <<s, r>> \in doc[d].styled
  PROVE  Fresh(s)'
BY DEF Fresh

\* What is still to come for the tab does not change.
SamePending == UNCHANGED <<background, page, calls, reloads>>

LEMMA PendingSame ==
  ASSUME SamePending
  PROVE  Pending' <=> Pending
BY DEF SamePending, Pending

LEMMA StartScriptKeeps ==
  ASSUME TabParts, SamePending, NEW n \in 1..MaxScripts, StartScript(tab, n)
  PROVE  TabTyped' /\ TabInv'
<1>1. /\ TabTyped /\ MarkOK /\ OwnEffects
      /\ \A s \in Scripts : Fresh(s)
  BY DEF TabParts
<1>2. PICK x : x = <<tab, n>>
  OBVIOUS
<1>3. x \in Scripts /\ x[1] = tab
  BY <1>1, <1>2 DEF TabTyped, Scripts
<1>4. /\ script[x].pc = "none"
      /\ doc' = [doc EXCEPT ![tab].mark = x]
      /\ script' = [script EXCEPT ![x].pc = "asking"]
      /\ UNCHANGED <<tab, toTab, current, failures>>
  BY <1>2 DEF StartScript
<1>5. PICK y \in DocRecords, z \in ScriptRecords : y = doc[tab] /\ z = script[x]
  BY <1>1, <1>3 DEF TabTyped
<1>6. PICK yy, zz : yy = [y EXCEPT !.mark = x] /\ zz = [z EXCEPT !.pc = "asking"]
  OBVIOUS
<1>7. /\ yy \in DocRecords /\ yy.mark = x /\ yy.site = y.site /\ yy.ran = y.ran /\ yy.styled = y.styled
      /\ zz \in ScriptRecords /\ zz.pc = "asking"
  BY <1>3, <1>6 DEF DocRecords, ScriptRecords
<1>8. /\ doc' = [doc EXCEPT ![tab] = yy] /\ script' = [script EXCEPT ![x] = zz]
  BY <1>1, <1>3, <1>4, <1>5, <1>6 DEF TabTyped
<1>9. /\ doc' \in [Docs -> DocRecords] /\ doc'[tab] = yy /\ \A d \in Docs : d # tab => doc'[d] = doc[d]
      /\ script' \in [Scripts -> ScriptRecords] /\ script'[x] = zz
      /\ \A s \in Scripts : s # x => script'[s] = script[s]
  BY <1>1, <1>3, <1>7, <1>8 DEF TabTyped
<1>10. TabTyped'
  BY <1>1, <1>4, <1>9 DEF TabTyped
<1>11. \A d \in Docs : doc'[d].ran = doc[d].ran /\ doc'[d].styled = doc[d].styled
  BY <1>5, <1>7, <1>9
<1>12. MarkOK' /\ OwnEffects'
  BY <1>1, <1>3, <1>7, <1>9, <1>11 DEF MarkOK, OwnEffects
<1>13. ASSUME NEW s \in Scripts PROVE Fresh(s)'
  <2>1. CASE s = x
    <3>1. Fresh(x)
      BY <1>1, <1>3
    <3> QED BY <1>4, <1>7, <1>9, <1>11, <2>1, <3>1 DEF Fresh
  <2>2. CASE s # x
    BY <1>1, <1>4, <1>9, <1>11, <2>2, FreshAside
  <2> QED BY <2>1, <2>2
<1>14. ASSUME NEW s \in Scripts, doc'[tab'].mark = s PROVE ScriptOK(s)'
  <2>1. s = x
    BY <1>4, <1>7, <1>9, <1>14
  <2> QED BY <1>4, <1>7, <1>9, <2>1 DEF ScriptOK
<1> QED BY <1>10, <1>12, <1>13, <1>14 DEF TabInv

LEMMA HandleRequestKeeps ==
  ASSUME TabParts, SamePending, NEW x \in Scripts, HandleRequest(x)
  PROVE  TabTyped' /\ TabInv'
<1>1. /\ TabTyped /\ MarkOK /\ OwnEffects
      /\ \A s \in Scripts : Fresh(s)
      /\ UNCHANGED background
  BY DEF TabParts, SamePending
<1>2. PICK active : active = Active(doc[x[1]].site)
  OBVIOUS
<1>3. /\ script[x].pc = "asking"
      /\ script' = [script EXCEPT ![x].pc = "reading", ![x].files = active]
      /\ current' = [current EXCEPT ![x] = TRUE]
      /\ UNCHANGED <<tab, doc, toTab, failures>>
  BY <1>2 DEF HandleRequest
<1>4. active \subseteq RuleIds \X Kinds
  BY <1>2 DEF Active, Matching
<1>5. PICK z \in ScriptRecords : z = script[x]
  BY <1>1 DEF TabTyped
<1>6. PICK zz : zz = [z EXCEPT !.pc = "reading", !.files = active]
  OBVIOUS
<1>7. zz \in ScriptRecords /\ zz.pc = "reading" /\ zz.files = active
  BY <1>4, <1>6 DEF ScriptRecords
<1>8. script' = [script EXCEPT ![x] = zz]
  BY <1>1, <1>3, <1>5, <1>6 DEF TabTyped
<1>9. /\ script' \in [Scripts -> ScriptRecords] /\ script'[x] = zz
      /\ \A s \in Scripts : s # x => script'[s] = script[s] /\ current'[s] = current[s]
      /\ current' \in [Scripts -> BOOLEAN]
  BY <1>1, <1>3, <1>7, <1>8 DEF TabTyped
<1>10. TabTyped'
  BY <1>1, <1>3, <1>9 DEF TabTyped
<1>11. MarkOK' /\ OwnEffects'
  BY <1>1, <1>3 DEF MarkOK, OwnEffects
<1>12. ASSUME NEW s \in Scripts PROVE Fresh(s)'
  <2>1. CASE s = x
    <3>1. Fresh(x)
      BY <1>1
    <3> QED BY <1>3, <1>7, <1>9, <2>1, <3>1 DEF Fresh
  <2>2. CASE s # x
    BY <1>1, <1>3, <1>9, <2>2, FreshAside
  <2> QED BY <2>1, <2>2
<1>13. ASSUME NEW s \in Scripts, (doc[tab].mark = s /\ current[s] /\ ~Pending)' PROVE ScriptOK(s)'
  <2>1. doc[tab].mark = s
    BY <1>3, <1>13
  <2>2. CASE s = x
    <3>1. x[1] = tab
      BY <1>1, <2>1, <2>2, ScriptIsPair DEF MarkOK, TabTyped
    <3>2. Active(doc[tab].site)' = active
      BY <1>1, <1>2, <1>3, <3>1 DEF Active, Matching, background
    <3> QED BY <1>7, <1>9, <2>2, <3>2 DEF ScriptOK
  <2>3. CASE s # x
    <3>1. ScriptOK(s)
      BY <1>9, <1>13, <2>1, <2>3, PendingSame DEF TabParts
    <3> QED BY <1>1, <1>3, <1>9, <2>3, <3>1, ScriptAside
  <2> QED BY <2>2, <2>3
<1> QED BY <1>10, <1>11, <1>12, <1>13 DEF TabInv


\* A script has its styles, or none to wait for.
LEMMA ReceiveKeeps ==
  ASSUME TabParts, SamePending, NEW x \in Scripts, Receive(x)
  PROVE  TabTyped' /\ TabInv'
<1>1. /\ TabTyped /\ MarkOK /\ OwnEffects
      /\ \A s \in Scripts : Fresh(s)
      /\ UNCHANGED background
  BY DEF TabParts, SamePending
<1>2. PICK pc \in {"done", "head"} : pc = IF ~Marked(x) \/ script[x].css = {} THEN "done" ELSE "head"
  OBVIOUS
<1>3. /\ script[x].pc = "answered"
      /\ script' = [script EXCEPT ![x].pc = pc]
      /\ UNCHANGED <<tab, doc, toTab, current, failures>>
  BY <1>2 DEF Receive
<1>4. PICK z, styles : z \in ScriptRecords /\ z = script[x] /\ styles = z.css
  BY <1>1 DEF TabTyped
<1>5. PICK zz : zz = [z EXCEPT !.pc = pc]
  OBVIOUS
<1>6. zz \in ScriptRecords /\ zz.pc = pc /\ zz.css = z.css
  BY <1>4, <1>5 DEF ScriptRecords
<1>7. script' = [script EXCEPT ![x] = zz]
  BY <1>1, <1>3, <1>4, <1>5 DEF TabTyped
<1>8. /\ script' \in [Scripts -> ScriptRecords] /\ script'[x] = zz
      /\ \A s \in Scripts : s # x => script'[s] = script[s]
  BY <1>1, <1>6, <1>7 DEF TabTyped
<1>9. TabTyped'
  BY <1>1, <1>3, <1>8 DEF TabTyped
<1>10. MarkOK' /\ OwnEffects'
  BY <1>1, <1>3 DEF MarkOK, OwnEffects
<1>11. ASSUME NEW s \in Scripts PROVE Fresh(s)'
  <2>1. CASE s = x
    <3>1. Fresh(x)
      BY <1>1
    <3> QED BY <1>2, <1>3, <1>6, <1>8, <2>1, <3>1 DEF Fresh
  <2>2. CASE s # x
    BY <1>1, <1>3, <1>8, <2>2, FreshAside
  <2> QED BY <2>1, <2>2
<1>12. ASSUME NEW s \in Scripts, (doc[tab].mark = s /\ current[s] /\ ~Pending)' PROVE ScriptOK(s)'
  <2>1. doc[tab].mark = s /\ ScriptOK(s)
    BY <1>3, <1>12, PendingSame DEF TabParts
  <2>2. CASE s = x
    <3>1. Marked(x)
      BY <1>1, <2>1, <2>2, ScriptIsPair DEF MarkOK, TabTyped, Marked
    <3>2. /\ AsRuled(x, doc[tab].ran \cup toTab, "js")
          /\ \A r \in RuleIds : r \in styles <=> Wanted(r, "css")
      BY <1>3, <1>4, <2>1, <2>2 DEF ScriptOK
    <3>2a. UNCHANGED background /\ tab' = tab /\ doc'[tab].site = doc[tab].site
      BY <1>1, <1>3
    <3>3. AsRuled(x, doc[tab].ran \cup toTab, "js")'
      <4>1. \A r \in RuleIds :
               <<x, r>> \in doc'[tab].ran \cup toTab' <=> Wanted(r, "js")
        BY <1>3, <3>2 DEF AsRuled
      <4> QED BY <3>2a, <4>1, RuledNow
    <3>4. \A r \in RuleIds : r \in styles <=> Wanted(r, "css")'
      <4>1. \A r, kind : Wanted(r, kind)' <=> Wanted(r, kind)
        BY <3>2a, RuledNow
      <4> QED BY <3>2, <4>1
    <3>5. CASE pc = "head"
      BY <1>4, <1>6, <1>8, <2>2, <3>3, <3>4, <3>5 DEF ScriptOK
    <3>6. CASE pc = "done"
      <4>1. styles = {}
        BY <1>2, <1>4, <3>1, <3>6
      <4>2. \A r \in RuleIds : <<x, r>> \notin doc[tab].styled
        BY <1>1, <1>3 DEF Fresh, TabTyped
      <4>3. AsRuled(x, doc[tab].styled, "css")'
        <5>1. \A r \in RuleIds : <<x, r>> \in doc'[tab].styled <=> Wanted(r, "css")
          BY <1>3, <3>2, <4>1, <4>2
        <5> QED BY <3>2a, <5>1, RuledNow
      <4> QED BY <1>6, <1>8, <2>2, <3>3, <3>6, <4>3 DEF ScriptOK
    <3> QED BY <1>2, <3>5, <3>6
  <2>3. CASE s # x
    BY <1>1, <1>3, <1>8, <2>1, <2>3, ScriptAside
  <2> QED BY <2>2, <2>3
<1> QED BY <1>9, <1>10, <1>11, <1>12 DEF TabInv

LEMMA InsertKeeps ==
  ASSUME TabParts, SamePending, NEW x \in Scripts, Insert(x)
  PROVE  TabTyped' /\ TabInv'
<1>1. /\ TabTyped /\ MarkOK /\ OwnEffects
      /\ \A s \in Scripts : Fresh(s)
      /\ UNCHANGED background
  BY DEF TabParts, SamePending
<1>2. PICK z, y, css : /\ z \in ScriptRecords /\ y \in DocRecords
                       /\ z = script[x] /\ y = doc[x[1]] /\ css = z.css
  BY <1>1, ScriptIsPair DEF TabTyped
<1>3. PICK styles : styles = {x} \X css
  OBVIOUS
<1>4. PICK zz, yy : zz = [z EXCEPT !.pc = "done"] /\ yy = [y EXCEPT !.styled = @ \cup styles]
  OBVIOUS
<1>5. /\ z.pc = "head"
      /\ script' = [script EXCEPT ![x] = zz]
      /\ doc' = IF y.mark = x THEN [doc EXCEPT ![x[1]] = yy] ELSE doc
      /\ UNCHANGED <<tab, toTab, current, failures>>
  <2>1. /\ script[x].pc = "head"
        /\ script' = [script EXCEPT ![x].pc = "done"]
        /\ doc' = IF Marked(x) THEN [doc EXCEPT ![x[1]].styled = @ \cup ({x} \X script[x].css)] ELSE doc
        /\ UNCHANGED <<tab, toTab, current, failures>>
    BY DEF Insert
  <2>2. script' = [script EXCEPT ![x] = zz]
    BY <1>1, <1>2, <1>4, <2>1 DEF TabTyped
  <2>3. Marked(x) <=> y.mark = x
    BY <1>2 DEF Marked
  <2>4. [doc EXCEPT ![x[1]].styled = @ \cup ({x} \X script[x].css)] = [doc EXCEPT ![x[1]] = yy]
    BY <1>1, <1>2, <1>3, <1>4 DEF TabTyped
  <2> QED BY <1>2, <2>1, <2>2, <2>3, <2>4
<1>6. styles \subseteq Effects
      /\ \A s \in Scripts, r \in RuleIds : <<s, r>> \in styles <=> s = x /\ r \in css
  BY <1>2, <1>3 DEF Effects, ScriptRecords
<1>7. /\ yy \in DocRecords /\ yy.mark = y.mark /\ yy.site = y.site /\ yy.ran = y.ran
      /\ yy.styled = y.styled \cup styles
      /\ zz \in ScriptRecords /\ zz.pc = "done"
  BY <1>2, <1>4, <1>6 DEF DocRecords, ScriptRecords
<1>8. /\ script' \in [Scripts -> ScriptRecords] /\ script'[x] = zz
      /\ \A s \in Scripts : s # x => script'[s] = script[s]
  BY <1>1, <1>5, <1>7 DEF TabTyped
<1>9. x[1] \in Docs
  BY ScriptIsPair
<1>10. /\ doc' \in [Docs -> DocRecords]
       /\ \A d \in Docs : /\ doc'[d].mark = doc[d].mark /\ doc'[d].site = doc[d].site
                          /\ doc'[d].ran = doc[d].ran
                          /\ \A m : m \in doc'[d].styled <=>
                                m \in doc[d].styled \/ (d = x[1] /\ y.mark = x /\ m \in styles)
  <2>1. CASE y.mark = x
    <3>1. doc' = [doc EXCEPT ![x[1]] = yy]
      BY <1>5, <2>1
    <3>2. /\ doc' \in [Docs -> DocRecords] /\ doc'[x[1]] = yy
          /\ \A d \in Docs : d # x[1] => doc'[d] = doc[d]
      BY <1>1, <1>7, <1>9, <3>1 DEF TabTyped
    <3> QED BY <1>2, <1>7, <2>1, <3>2
  <2>2. CASE y.mark # x
    BY <1>1, <1>5, <2>2 DEF TabTyped
  <2> QED BY <2>1, <2>2
<1>11. TabTyped'
  BY <1>1, <1>5, <1>8, <1>10 DEF TabTyped
<1>12. MarkOK' /\ OwnEffects'
  <2>1. MarkOK'
    BY <1>1, <1>10 DEF MarkOK
  <2>2. \A m \in styles : m[1] = x
    BY <1>3
  <2>3. OwnEffects'
    BY <1>1, <1>10, <2>2 DEF OwnEffects
  <2> QED BY <2>1, <2>3
<1>13. ASSUME NEW s \in Scripts PROVE Fresh(s)'
  <2>1. CASE s = x
    BY <1>7, <1>8, <2>1 DEF Fresh
  <2>2. CASE s # x
    <3>1. \A r \in RuleIds : <<s, r>> \notin styles
      BY <1>6, <2>2
    <3> QED BY <1>1, <1>5, <1>8, <1>10, <2>2, <3>1, FreshAside
  <2> QED BY <2>1, <2>2
<1>14. ASSUME NEW s \in Scripts, (doc[tab].mark = s /\ current[s] /\ ~Pending)' PROVE ScriptOK(s)'
  <2>1. doc[tab].mark = s /\ ScriptOK(s) /\ tab \in Docs
    BY <1>1, <1>5, <1>10, <1>14, PendingSame DEF TabParts, TabTyped
  <2>2. CASE s = x
    <3>1. x[1] = tab /\ y.mark = x
      BY <1>1, <1>2, <2>1, <2>2, ScriptIsPair DEF MarkOK
    <3>2. /\ AsRuled(x, doc[tab].ran \cup toTab, "js")
          /\ \A r \in RuleIds : r \in css <=> Wanted(r, "css")
      BY <1>2, <1>5, <2>1, <2>2 DEF ScriptOK
    <3>3. UNCHANGED background /\ tab' = tab /\ doc'[tab].site = doc[tab].site
      BY <1>1, <1>5, <1>10, <2>1
    <3>4. AsRuled(x, doc[tab].ran \cup toTab, "js")'
      <4>1. \A r \in RuleIds :
               <<x, r>> \in doc'[tab].ran \cup toTab' <=> Wanted(r, "js")
        BY <1>5, <1>10, <2>1, <3>2 DEF AsRuled
      <4> QED BY <3>3, <4>1, RuledNow
    <3>5. \A r \in RuleIds : <<x, r>> \notin doc[tab].styled
      BY <1>1, <1>2, <1>5, <2>1 DEF Fresh
    <3>6. \A r \in RuleIds : <<x, r>> \in doc'[tab].styled <=> r \in css
      BY <1>6, <1>10, <2>1, <3>1, <3>5
    <3>7. AsRuled(x, doc[tab].styled, "css")'
      <4>1. \A r \in RuleIds : <<x, r>> \in doc'[tab].styled <=> Wanted(r, "css")
        BY <3>2, <3>6
      <4> QED BY <3>3, <4>1, RuledNow
    <3> QED BY <1>7, <1>8, <2>2, <3>4, <3>7 DEF ScriptOK
  <2>3. CASE s # x
    <3>1. \A r \in RuleIds : <<s, r>> \notin styles
      BY <1>6, <2>3
    <3>2. \A r \in RuleIds :
             /\ <<s, r>> \in doc'[tab].ran \cup toTab' <=> <<s, r>> \in doc[tab].ran \cup toTab
             /\ <<s, r>> \in doc'[tab].styled <=> <<s, r>> \in doc[tab].styled
      BY <1>5, <1>10, <2>1, <3>1
    <3> QED BY <1>1, <1>5, <1>8, <1>10, <2>1, <2>3, <3>2, ScriptAside
  <2> QED BY <2>2, <2>3
<1> QED BY <1>11, <1>12, <1>13, <1>14 DEF TabInv


\* JavaScript arrives at the tab.
LEMMA ExecuteKeeps ==
  ASSUME TabParts, SamePending, NEW m \in toTab, Execute(m)
  PROVE  TabTyped' /\ TabInv'
<1>1. /\ TabTyped /\ MarkOK /\ OwnEffects
      /\ \A s \in Scripts : Fresh(s)
      /\ UNCHANGED background
  BY DEF TabParts, SamePending
<1>2. m \in Effects /\ m[1] \in Scripts /\ tab \in Docs
  BY <1>1 DEF TabTyped, Effects
<1>3. PICK y \in DocRecords : y = doc[tab]
  BY <1>1 DEF TabTyped
<1>4. PICK yy : yy = [y EXCEPT !.ran = @ \cup {m}]
  OBVIOUS
<1>5. /\ toTab' = toTab \ {m}
      /\ doc' = IF y.mark = m[1] THEN [doc EXCEPT ![tab] = yy] ELSE doc
      /\ UNCHANGED <<tab, script, current, failures>>
  <2>1. /\ toTab' = toTab \ {m}
        /\ doc' = IF doc[tab].mark = m[1] THEN [doc EXCEPT ![tab].ran = @ \cup {m}] ELSE doc
        /\ UNCHANGED <<tab, script, current, failures>>
    BY DEF Execute
  <2>2. [doc EXCEPT ![tab].ran = @ \cup {m}] = [doc EXCEPT ![tab] = yy]
    BY <1>1, <1>3, <1>4 DEF TabTyped
  <2> QED BY <1>3, <2>1, <2>2
<1>6. /\ yy \in DocRecords /\ yy.mark = y.mark /\ yy.site = y.site /\ yy.styled = y.styled
      /\ yy.ran = y.ran \cup {m}
  BY <1>2, <1>4 DEF DocRecords
<1>7. /\ doc' \in [Docs -> DocRecords]
      /\ \A d \in Docs : /\ doc'[d].mark = doc[d].mark /\ doc'[d].site = doc[d].site
                         /\ doc'[d].styled = doc[d].styled
                         /\ \A e : e \in doc'[d].ran <=>
                               e \in doc[d].ran \/ (d = tab /\ y.mark = m[1] /\ e = m)
  <2>1. CASE y.mark = m[1]
    <3>1. doc' = [doc EXCEPT ![tab] = yy]
      BY <1>5, <2>1
    <3>2. /\ doc' \in [Docs -> DocRecords] /\ doc'[tab] = yy
          /\ \A d \in Docs : d # tab => doc'[d] = doc[d]
      BY <1>1, <1>2, <1>6, <3>1 DEF TabTyped
    <3> QED BY <1>3, <1>6, <2>1, <3>2
  <2>2. CASE y.mark # m[1]
    BY <1>1, <1>5, <2>2 DEF TabTyped
  <2> QED BY <2>1, <2>2
<1>8. TabTyped'
  BY <1>1, <1>5, <1>7 DEF TabTyped
<1>9. MarkOK' /\ OwnEffects'
  <2>1. MarkOK'
    BY <1>1, <1>7 DEF MarkOK
  <2>2. y.mark = m[1] => m[1][1] = tab
    BY <1>1, <1>2, <1>3, ScriptIsPair DEF MarkOK
  <2>3. OwnEffects'
    BY <1>1, <1>7, <2>2 DEF OwnEffects
  <2> QED BY <2>1, <2>3
<1>10. ASSUME NEW s \in Scripts PROVE Fresh(s)'
  <2>1. \A r \in RuleIds :
           /\ <<s, r>> \in toTab' => <<s, r>> \in toTab
           /\ \A d \in Docs : /\ <<s, r>> \in doc'[d].ran => <<s, r>> \in doc[d].ran \cup toTab
                              /\ <<s, r>> \in doc'[d].styled => <<s, r>> \in doc[d].styled
    BY <1>5, <1>7
  <2> QED BY <1>1, <1>5, <2>1, FreshAside
<1>11. ASSUME NEW s \in Scripts, (doc[tab].mark = s /\ current[s] /\ ~Pending)' PROVE ScriptOK(s)'
  <2>1. doc[tab].mark = s /\ ScriptOK(s)
    BY <1>2, <1>5, <1>7, <1>11, PendingSame DEF TabParts
  <2>2. \A r \in RuleIds :
           /\ <<s, r>> \in doc'[tab].ran \cup toTab' <=> <<s, r>> \in doc[tab].ran \cup toTab
           /\ <<s, r>> \in doc'[tab].styled <=> <<s, r>> \in doc[tab].styled
    <3> SUFFICES ASSUME NEW r \in RuleIds
                 PROVE  <<s, r>> \in doc'[tab].ran \cup toTab' <=> <<s, r>> \in doc[tab].ran \cup toTab
      BY <1>2, <1>7
    <3>1. CASE <<s, r>> = m
      <4>1. m[1] = s
        BY <3>1
      <4> QED BY <1>2, <1>3, <1>7, <2>1, <3>1, <4>1
    <3>2. CASE <<s, r>> # m
      BY <1>2, <1>5, <1>7, <3>2
    <3> QED BY <3>1, <3>2
  <2> QED BY <1>1, <1>2, <1>5, <1>7, <2>1, <2>2, ScriptAside
<1> QED BY <1>8, <1>9, <1>10, <1>11 DEF TabInv

LEMMA ExecuteFailsKeeps ==
  ASSUME TabParts, SamePending, NEW m \in toTab, ExecuteFails(m)
  PROVE  TabTyped' /\ TabInv'
<1>1. /\ TabTyped /\ MarkOK /\ OwnEffects
      /\ \A s \in Scripts : Fresh(s)
      /\ UNCHANGED background
  BY DEF TabParts, SamePending
<1>2. m \in Effects /\ m[1] \in Scripts
  BY <1>1 DEF TabTyped, Effects
<1>3. /\ toTab' = toTab \ {m}
      /\ failures < MaxFailures /\ failures' = failures + 1
      /\ current' = [current EXCEPT ![m[1]] = FALSE]
      /\ UNCHANGED <<tab, doc, script>>
  BY DEF ExecuteFails
<1>4. TabTyped'
  <2>1. failures' \in 0..MaxFailures
    BY <1>1, <1>3, PageAssumption DEF TabTyped
  <2>2. current' \in [Scripts -> BOOLEAN]
    BY <1>1, <1>3 DEF TabTyped
  <2> QED BY <1>1, <1>3, <2>1, <2>2 DEF TabTyped
<1>5. MarkOK' /\ OwnEffects'
  BY <1>1, <1>3 DEF MarkOK, OwnEffects
<1>6. ASSUME NEW s \in Scripts PROVE Fresh(s)'
  BY <1>1, <1>3, FreshAside
<1>7. ASSUME NEW s \in Scripts, (doc[tab].mark = s /\ current[s] /\ ~Pending)' PROVE ScriptOK(s)'
  <2>1. s # m[1] /\ current'[s] = current[s]
    BY <1>1, <1>2, <1>3, <1>7 DEF TabTyped
  <2>2. doc[tab].mark = s /\ ScriptOK(s)
    BY <1>3, <1>7, <2>1, PendingSame DEF TabParts
  <2>3. \A r \in RuleIds : <<s, r>> \in toTab' <=> <<s, r>> \in toTab
    BY <1>3, <2>1
  <2> QED BY <1>1, <1>3, <2>2, <2>3, ScriptAside
<1> QED BY <1>4, <1>5, <1>6, <1>7 DEF TabInv

\* The rules that have a file of some kind among others.
FilesOf(files, kind) == {f[1] : f \in {g \in files : g[2] = kind}}

LEMMA FilesOfAre ==
  ASSUME NEW files \in SUBSET (RuleIds \X Kinds), NEW kind
  PROVE  FilesOf(files, kind) \subseteq RuleIds
         /\ \A r \in RuleIds : r \in FilesOf(files, kind) <=> <<r, kind>> \in files
<1>1. \A f \in files : f[1] \in RuleIds /\ f = <<f[1], f[2]>>
  OBVIOUS
<1> QED BY <1>1 DEF FilesOf

\* The files are read, except for those of the rules that failed.
LEMMA ResolvedKeeps ==
  ASSUME TabParts, SamePending, NEW x \in Scripts, Resolved(x)
  PROVE  TabTyped' /\ TabInv'
<1>1. /\ TabTyped /\ MarkOK /\ OwnEffects
      /\ \A s \in Scripts : Fresh(s)
      /\ UNCHANGED background
  BY DEF TabParts, SamePending
<1>2. PICK z \in ScriptRecords : z = script[x]
  BY <1>1 DEF TabTyped
<1>3. PICK failed \in SUBSET {f[1] : f \in script[x].files} :
            LET read == {f \in script[x].files : f[1] \notin failed}
            IN  /\ script[x].pc = "reading"
                /\ Cardinality(failed) + failures <= MaxFailures
                /\ failures' = failures + Cardinality(failed)
                /\ current' = [current EXCEPT ![x] = @ /\ failed = {}]
                /\ toTab' = toTab \cup {<<x, r>> : r \in {f[1] : f \in {g \in read : g[2] = "js"}}}
                /\ script' = [script EXCEPT ![x].css = {f[1] : f \in {g \in read : g[2] = "css"}},
                                            ![x].pc = IF x[1] = tab THEN "answered" ELSE "gone"]
                /\ UNCHANGED <<tab, doc>>
  BY DEF Resolved
<1>4. PICK read, js, styles, pc :
            /\ read = {f \in z.files : f[1] \notin failed}
            /\ js = FilesOf(read, "js") /\ styles = FilesOf(read, "css")
            /\ pc = IF x[1] = tab THEN "answered" ELSE "gone"
  OBVIOUS
<1>5. PICK zz : zz = [z EXCEPT !.css = styles, !.pc = pc]
  OBVIOUS
<1>6. /\ z.pc = "reading"
      /\ Cardinality(failed) + failures <= MaxFailures
      /\ failures' = failures + Cardinality(failed)
      /\ current' = [current EXCEPT ![x] = @ /\ failed = {}]
      /\ toTab' = toTab \cup {<<x, r>> : r \in js}
      /\ script' = [script EXCEPT ![x] = zz]
      /\ UNCHANGED <<tab, doc>>
  <2>1. /\ z.pc = "reading"
        /\ Cardinality(failed) + failures <= MaxFailures
        /\ failures' = failures + Cardinality(failed)
        /\ current' = [current EXCEPT ![x] = @ /\ failed = {}]
        /\ toTab' = toTab \cup {<<x, r>> : r \in js}
        /\ script' = [script EXCEPT ![x].css = styles, ![x].pc = pc]
        /\ UNCHANGED <<tab, doc>>
    BY <1>2, <1>3, <1>4 DEF FilesOf
  <2>2. script' = [script EXCEPT ![x] = zz]
    BY <1>1, <1>2, <1>5, <2>1 DEF TabTyped
  <2> QED BY <2>1, <2>2
<1>7. read \subseteq z.files /\ z.files \subseteq RuleIds \X Kinds /\ read \in SUBSET (RuleIds \X Kinds)
  BY <1>4 DEF ScriptRecords
<1>8. /\ js \subseteq RuleIds /\ \A r \in RuleIds : r \in js <=> <<r, "js">> \in read
      /\ styles \subseteq RuleIds /\ \A r \in RuleIds : r \in styles <=> <<r, "css">> \in read
  BY <1>4, <1>7, FilesOfAre
<1>9. /\ zz \in ScriptRecords /\ zz.pc = pc /\ zz.css = styles
      /\ pc \in {"answered", "gone"}
  <2>1. PICK stage \in {"answered", "gone"} : stage = pc
    BY <1>4
  <2>2. [z EXCEPT !.css = styles, !.pc = stage] \in ScriptRecords
    BY <1>8, <2>1 DEF ScriptRecords
  <2>3. zz = [z EXCEPT !.css = styles, !.pc = stage]
    BY <1>5, <2>1
  <2>4. zz.pc = stage /\ zz.css = styles
    BY <1>8, <2>3 DEF ScriptRecords
  <2> QED BY <2>1, <2>2, <2>3, <2>4
<1>10. /\ script' \in [Scripts -> ScriptRecords] /\ script'[x] = zz
       /\ \A s \in Scripts : s # x => script'[s] = script[s]
  BY <1>1, <1>6, <1>9 DEF TabTyped
<1>11. /\ toTab' \subseteq Effects
       /\ \A s \in Scripts, r \in RuleIds :
             <<s, r>> \in toTab' <=> <<s, r>> \in toTab \/ (s = x /\ r \in js)
  BY <1>1, <1>6, <1>8 DEF TabTyped, Effects
<1>12. TabTyped'
  <2>1. failed \subseteq RuleIds
    BY <1>2, <1>3, <1>7
  <2>2. Cardinality(failed) \in Nat
    BY <2>1, PageAssumption, FS_Subset, FS_CardinalityType
  <2>3. failures' \in 0..MaxFailures
    BY <1>1, <1>6, <2>2, PageAssumption DEF TabTyped
  <2>4. current' \in [Scripts -> BOOLEAN]
    BY <1>1, <1>6 DEF TabTyped
  <2> QED BY <1>1, <1>6, <1>10, <1>11, <2>3, <2>4 DEF TabTyped
<1>13. MarkOK' /\ OwnEffects'
  BY <1>1, <1>6 DEF MarkOK, OwnEffects
<1>14. ASSUME NEW s \in Scripts PROVE Fresh(s)'
  <2>1. CASE s = x
    <3>1. Fresh(x)
      BY <1>1
    <3> QED BY <1>2, <1>6, <1>9, <1>10, <2>1, <3>1 DEF Fresh
  <2>2. CASE s # x
    <3>1. \A r \in RuleIds : <<s, r>> \in toTab' => <<s, r>> \in toTab
      BY <1>11, <2>2
    <3> QED BY <1>1, <1>6, <1>10, <2>2, <3>1, FreshAside
  <2> QED BY <2>1, <2>2
<1>15. ASSUME NEW s \in Scripts, (doc[tab].mark = s /\ current[s] /\ ~Pending)' PROVE ScriptOK(s)'
  <2>1. doc[tab].mark = s /\ current[s] /\ (s = x => failed = {}) /\ ~Pending
    BY <1>1, <1>6, <1>15, PendingSame DEF TabTyped
  <2>2. ScriptOK(s) /\ tab \in Docs
    BY <1>1, <2>1 DEF TabParts, TabTyped
  <2>3. CASE s = x
    <3>1. read = z.files
      BY <1>4, <2>1, <2>3
    <3>2. z.files = Active(doc[tab].site)
      BY <1>2, <1>6, <2>2, <2>3 DEF ScriptOK
    <3>3. \A r \in RuleIds : /\ r \in js <=> Wanted(r, "js")
                             /\ r \in styles <=> Wanted(r, "css")
      <4>1. PICK active : active = Active(doc[tab].site)
        OBVIOUS
      <4>2. \A r, kind : Wanted(r, kind) <=> <<r, kind>> \in active
        BY <4>1 DEF Wanted
      <4>3. read = active
        BY <3>1, <3>2, <4>1
      <4> QED BY <1>8, <4>2, <4>3
    <3>4. \A r \in RuleIds : <<x, r>> \notin toTab /\ <<x, r>> \notin doc[tab].ran
      BY <1>1, <1>2, <1>6, <2>2 DEF Fresh
    <3>5. UNCHANGED background /\ tab' = tab /\ doc'[tab].site = doc[tab].site
      BY <1>1, <1>6
    <3>6. AsRuled(x, doc[tab].ran \cup toTab, "js")'
      <4>1. \A r \in RuleIds : <<x, r>> \in doc'[tab].ran \cup toTab' <=> Wanted(r, "js")
        BY <1>6, <1>11, <3>3, <3>4
      <4> QED BY <3>5, <4>1, RuledNow
    <3>7. \A r \in RuleIds : r \in styles <=> Wanted(r, "css")'
      <4>1. \A r, kind : Wanted(r, kind)' <=> Wanted(r, kind)
        BY <3>5, RuledNow
      <4> QED BY <3>3, <4>1
    <3> QED BY <1>9, <1>10, <2>3, <3>6, <3>7 DEF ScriptOK
  <2>4. CASE s # x
    <3>1. \A r \in RuleIds : <<s, r>> \in toTab' <=> <<s, r>> \in toTab
      BY <1>11, <2>4
    <3> QED BY <1>1, <1>6, <1>10, <2>2, <2>4, <3>1, ScriptAside
  <2> QED BY <2>3, <2>4
<1> QED BY <1>12, <1>13, <1>14, <1>15 DEF TabInv


LEMMA ScriptsWorkKeeps ==
  ASSUME IInv, ScriptsWork
  PROVE  IInv'
<1>1. PageStep /\ SamePending
      /\ UNCHANGED Beside /\ UNCHANGED <<reloads, acts, ghosts>>
  BY DEF ScriptsWork, SamePending, Beside, background, pagesVars, ghosts
<1>2. TabParts
  BY TabPartsAre
<1>3. TabTyped' /\ TabInv'
  <2>1. ASSUME StartScript(tab, 1) PROVE TabTyped' /\ TabInv'
    <3>1. 1 \in 1..MaxScripts
      BY PageAssumption
    <3> QED BY <1>1, <1>2, <2>1, <3>1, StartScriptKeeps
  <2>2. ASSUME NEW s \in Scripts, HandleRequest(s) PROVE TabTyped' /\ TabInv'
    BY <1>1, <1>2, <2>2, HandleRequestKeeps
  <2>3. ASSUME NEW s \in Scripts, Resolved(s) PROVE TabTyped' /\ TabInv'
    BY <1>1, <1>2, <2>3, ResolvedKeeps
  <2>4. ASSUME NEW s \in Scripts, Receive(s) PROVE TabTyped' /\ TabInv'
    BY <1>1, <1>2, <2>4, ReceiveKeeps
  <2>5. ASSUME NEW s \in Scripts, Insert(s) PROVE TabTyped' /\ TabInv'
    BY <1>1, <1>2, <2>5, InsertKeeps
  <2>6. ASSUME NEW m \in toTab, Execute(m) PROVE TabTyped' /\ TabInv'
    BY <1>1, <1>2, <2>6, ExecuteKeeps
  <2>7. ASSUME NEW m \in toTab, ExecuteFails(m) PROVE TabTyped' /\ TabInv'
    BY <1>1, <1>2, <2>7, ExecuteFailsKeeps
  <2> QED BY <1>1, <2>1, <2>2, <2>3, <2>4, <2>5, <2>6, <2>7 DEF PageStep
<1>4. RestTyped'
  BY <1>1, RestStays DEF IInv
<1> QED BY <1>1, <1>3, <1>4, TabMoves DEF IInv

LEMMA AnotherScriptKeeps ==
  ASSUME IInv, AnotherScript
  PROVE  IInv'
<1>1. /\ SamePending /\ UNCHANGED Beside /\ UNCHANGED <<reloads, behind, twice, refilled>>
      /\ acts < MaxActs /\ acts' = acts + 1
  BY DEF AnotherScript, SamePending, Beside, background, pagesVars, ghosts
<1>2. PICK n \in 2..MaxScripts : StartScript(tab, n)
  BY DEF AnotherScript
<1>3. n \in 1..MaxScripts
  BY PageAssumption
<1>4. TabTyped' /\ TabInv'
  BY <1>1, <1>2, <1>3, TabPartsAre, StartScriptKeeps
<1>5. RestTyped'
  <2>1. acts' \in 0..MaxActs
    BY <1>1, OneMoreAct DEF IInv
  <2> QED BY <1>1, <2>1 DEF IInv, RestTyped
<1> QED BY <1>1, <1>4, <1>5, TabMoves DEF IInv

LEMMA StutterKeeps ==
  ASSUME IInv, UNCHANGED vars
  PROVE  IInv'
<1>1. UNCHANGED Beside /\ UNCHANGED <<reloads, acts, ghosts>> /\ UNCHANGED pageVars
  BY DEF vars, Beside, background, ghosts, pageVars
<1>2. Pending => Pending'
  BY DEF vars, pagesVars, Pending
<1>3. UNCHANGED <<tab, doc, script, toTab, current, rules, enabled, blocked>>
  BY DEF vars, background, pageVars
<1>4. TabTyped' /\ TabInv'
  BY <1>1, <1>2, <1>3, TabStays, TabInvQuiet DEF IInv
<1>5. RestTyped'
  BY <1>1, RestStays DEF IInv
<1> QED BY <1>1, <1>4, <1>5, TabMoves DEF IInv

-----------------------------------------------------------------------------
(* The initial states *)

\* A line that is empty, beside an empty chain.
LEMMA EmptyLine ==
  ASSUME calls = [p \in Pages |-> << >>], writes = << >>
  PROVE  CallsInv
<1>1. WriteSeq(<< >>) /\ CallSeq(<< >>)
  BY DEF WriteSeq, CallSeq
<1>2. ASSUME NEW p PROVE Lined(<< >>, << >>, p)
  <2>1. [n \in Nat |-> n] \in [Nat -> Nat]
    OBVIOUS
  <2>2. InStep(<< >>, << >>, p, [n \in Nat |-> n])
    BY DEF InStep, OfPage
  <2> QED BY <2>1, <2>2 DEF Lined
<1>3. SentLast(<< >>)
  BY DEF SentLast
<1>4. ASSUME NEW p \in Pages PROVE LineInv(p)
  <2>1. calls[p] = << >>
    OBVIOUS
  <2> QED BY <1>1, <1>2, <1>3, <2>1 DEF LineInv
<1> QED BY <1>1, <1>4 DEF CallsInv

\* The tab shows a document that its script is done with.
LEMMA PageInitKeeps ==
  ASSUME BackgroundTyped, NEW site \in Sites, PageInit(site)
  PROVE  TabTyped /\ TabInv
<1>1. PICK one, active, y, idle, done :
            /\ one = <<1, 1>> /\ active = Active(site)
            /\ y = [site |-> site, mark |-> one,
                    ran |-> {<<one, r>> : r \in FilesOf(active, "js")},
                    styled |-> {<<one, r>> : r \in FilesOf(active, "css")}]
            /\ idle = Idle("none") /\ done = Idle("done")
  OBVIOUS
<1>2. one \in Scripts /\ 1 \in Docs /\ one # <<0, 0>> /\ one[1] = 1
  BY <1>1, PageAssumption DEF Scripts, Docs
<1>3. active \in SUBSET (RuleIds \X Kinds)
  BY <1>1 DEF Active, Matching
<1>4. \A kind : /\ FilesOf(active, kind) \subseteq RuleIds
                /\ \A r \in RuleIds : r \in FilesOf(active, kind) <=> <<r, kind>> \in active
  BY <1>3, FilesOfAre
<1>5. /\ tab = 1 /\ toTab = {} /\ failures = 0
      /\ doc = [d \in Docs |-> IF d = 1 THEN y ELSE Blank(site)]
      /\ script = [s \in Scripts |-> Idle(IF s = one THEN "done" ELSE "none")]
      /\ current = [s \in Scripts |-> s = one]
  <2>1. ASSUME NEW kind
        PROVE  {<<one, f[1]>> : f \in {g \in active : g[2] = kind}} = {<<one, r>> : r \in FilesOf(active, kind)}
    BY DEF FilesOf
  <2>2. /\ tab = 1 /\ toTab = {} /\ failures = 0
        /\ doc = [d \in Docs |-> IF d = 1
              THEN [site |-> site, mark |-> one,
                    ran |-> {<<one, f[1]>> : f \in {g \in active : g[2] = "js"}},
                    styled |-> {<<one, f[1]>> : f \in {g \in active : g[2] = "css"}}]
              ELSE Blank(site)]
        /\ script = [s \in Scripts |-> Idle(IF s = one THEN "done" ELSE "none")]
        /\ current = [s \in Scripts |-> s = one]
    BY <1>1, Zenon DEF PageInit
  <2>3. y = [site |-> site, mark |-> one,
             ran |-> {<<one, f[1]>> : f \in {g \in active : g[2] = "js"}},
             styled |-> {<<one, f[1]>> : f \in {g \in active : g[2] = "css"}}]
    BY <1>1, <2>1
  <2> QED BY <2>2, <2>3, Zenon
<1>6. /\ y \in DocRecords /\ y.site = site /\ y.mark = one
      /\ \A e : e \in y.ran <=> \E r \in FilesOf(active, "js") : e = <<one, r>>
      /\ \A e : e \in y.styled <=> \E r \in FilesOf(active, "css") : e = <<one, r>>
  BY <1>1, <1>2, <1>4 DEF DocRecords, Effects
<1>7. /\ Blank(site) \in DocRecords /\ Blank(site).mark = <<0, 0>>
      /\ Blank(site).ran = {} /\ Blank(site).styled = {}
  BY DEF Blank, DocRecords
<1>8. /\ idle \in ScriptRecords /\ idle.pc = "none"
      /\ done \in ScriptRecords /\ done.pc = "done"
  BY <1>1 DEF Idle, ScriptRecords
<1>9. /\ doc \in [Docs -> DocRecords] /\ doc[1] = y
      /\ \A d \in Docs : d # 1 => doc[d] = Blank(site)
  BY <1>2, <1>5, <1>6, <1>7
<1>10. /\ script \in [Scripts -> ScriptRecords] /\ script[one] = done
       /\ \A s \in Scripts : s # one => script[s] = idle
       /\ current \in [Scripts -> BOOLEAN]
  BY <1>1, <1>2, <1>5, <1>8
<1>11. TabTyped
  BY <1>2, <1>5, <1>9, <1>10, PageAssumption DEF TabTyped
<1>12. MarkOK
  BY <1>2, <1>6, <1>7, <1>9 DEF MarkOK
<1>13. OwnEffects
  <2> SUFFICES ASSUME NEW d \in Docs, NEW e \in doc[d].ran \cup doc[d].styled
               PROVE  e[1][1] = d
    BY DEF OwnEffects
  <2>1. d = 1 /\ \E r : e = <<one, r>>
    BY <1>6, <1>7, <1>9
  <2> QED BY <1>2, <2>1
<1>14. ASSUME NEW s \in Scripts PROVE Fresh(s)
  <2>1. CASE s = one
    BY <1>8, <1>10, <2>1 DEF Fresh
  <2>2. CASE s # one
    <3>1. ASSUME NEW r \in RuleIds, NEW d \in Docs
          PROVE  <<s, r>> \notin doc[d].ran /\ <<s, r>> \notin doc[d].styled
      BY <1>6, <1>7, <1>9, <2>2
    <3> QED BY <1>5, <3>1 DEF Fresh
  <2> QED BY <2>1, <2>2
<1>15. ASSUME NEW s \in Scripts, doc[tab].mark = s PROVE ScriptOK(s)
  <2>1. s = one /\ doc[tab] = y /\ doc[tab].site = site
    BY <1>5, <1>6, <1>9, <1>15
  <2>2. \A r, kind : Wanted(r, kind) <=> <<r, kind>> \in active
    BY <1>1, <2>1 DEF Wanted
  <2>3. ASSUME NEW r \in RuleIds
        PROVE  /\ <<s, r>> \in doc[tab].ran <=> <<r, "js">> \in active
               /\ <<s, r>> \in doc[tab].styled <=> <<r, "css">> \in active
    BY <1>4, <1>6, <2>1
  <2>4. AsRuled(s, doc[tab].ran \cup toTab, "js")
    BY <1>5, <2>2, <2>3 DEF AsRuled
  <2>5. AsRuled(s, doc[tab].styled, "css")
    BY <2>2, <2>3 DEF AsRuled
  <2>6. script[s].pc = "done"
    BY <1>8, <1>10, <2>1
  <2> QED BY <2>4, <2>5, <2>6 DEF ScriptOK
<1> QED BY <1>11, <1>12, <1>13, <1>14, <1>15 DEF TabInv


LEMMA InitKeeps ==
  ASSUME Init
  PROVE  IInv
<1>1. PICK there \in SUBSET Pages :
            /\ LocaleInit(there)
            /\ page = [p \in Pages |-> IF p \in there THEN [ToldPage(p, doc[tab].site) EXCEPT !.pc = "open"]
                                                     ELSE Closed]
  BY DEF Init
<1>2. PICK site \in Sites : PageInit(site)
  BY DEF Init
<1>3. /\ enabled = TRUE /\ blocked = {} /\ language = LanguageAuto /\ CardInit
      /\ calls = [p \in Pages |-> << >>] /\ told = [p \in Pages |-> << >>]
      /\ writes = << >> /\ reloads = 0
      /\ behind = [p \in Pages |-> FALSE] /\ twice = FALSE /\ refilled = FALSE
      /\ acts = 0
  BY DEF Init
<1>4. BackgroundTyped
  <2>1. PICK r1 \in {None} \cup RuleRecords :
              /\ rules = [r \in RuleIds |-> IF r = 1 THEN r1 ELSE None]
              /\ created = IF r1 = None THEN 0 ELSE 1
    <3>1. PICK r1 \in {None, [site |-> CHOOSE s \in Sites : TRUE, on |-> TRUE, js |-> TRUE, css |-> TRUE]} :
              /\ rules = [r \in RuleIds |-> IF r = 1 THEN r1 ELSE None]
              /\ created = IF r1 = None THEN 0 ELSE 1
      BY DEF Init
    <3>2. PICK home \in Sites : home = CHOOSE s \in Sites : TRUE
      BY <1>2
    <3>3. [site |-> home, on |-> TRUE, js |-> TRUE, css |-> TRUE] \in RuleRecords
      BY DEF RuleRecords
    <3>4. r1 \in {None, [site |-> home, on |-> TRUE, js |-> TRUE, css |-> TRUE]}
      BY <3>1, <3>2, Zenon
    <3>5. r1 \in {None} \cup RuleRecords
      BY <3>3, <3>4
    <3> QED BY <3>1, <3>5
  <2>2. 1 \in 0..Cardinality(RuleIds) /\ 0 \in 0..Cardinality(RuleIds)
    BY PageAssumption, FS_CardinalityType
  <2>3. rules \in [RuleIds -> {None} \cup RuleRecords]
    BY <2>1
  <2> QED BY <1>3, <2>1, <2>2, <2>3 DEF BackgroundTyped, Preferences
<1>5. TabTyped /\ TabInv
  BY <1>2, <1>4, PageInitKeeps
<1>6. PagesTyped
  <2>1. doc[tab].site \in Sites
    BY <1>5, SiteOfTab
  <2>2. ASSUME NEW p \in Pages PROVE page[p] \in PageRecords
    <3>1. PICK v \in PageRecords : v = ToldPage(p, doc[tab].site)
      BY <1>4, <2>1, ToldIsPage
    <3>2. [v EXCEPT !.pc = "open"] \in PageRecords
      BY DEF PageRecords
    <3> QED BY <1>1, <3>1, <3>2, ClosedIsPage
  <2>3. page \in [Pages -> PageRecords]
    BY <1>1, <2>2
  <2>4. told \in [Pages -> Seq(Preferences)]
    BY <1>3
  <2> QED BY <2>3, <2>4 DEF PagesTyped
<1>7. RestTyped
  <2>1. behind \in [Pages -> BOOLEAN]
    BY <1>3
  <2>2. 0 \in 0..MaxActs
    BY PagesAssumption
  <2> QED BY <1>3, <2>1, <2>2 DEF RestTyped
<1>8. CallsInv
  BY <1>3, EmptyLine
<1>9. LocaleInv
  BY <1>1, LocaleStarts, PagesAssumption DEF Pages
<1>10. CardOK
  BY <1>3, CardStarts DEF CardOK
<1> QED BY <1>4, <1>5, <1>6, <1>7, <1>8, <1>9, <1>10 DEF IInv

-----------------------------------------------------------------------------
(* The theorems *)

LEMMA NextKeeps ==
  ASSUME IInv, Next
  PROVE  IInv'
<1>1. ASSUME NEW p \in Pages,
             \/ Open(p) \/ Tell(p) \/ Localize(p) \/ Loaded(p) \/ TakeLanguage(p)
             \/ \E i \in DOMAIN calls[p] : Handle(p, i) \/ HandleSetting(p, i) \/ Answer(p, i)
             \/ \E catalog \in Locales : CatalogEnds(p, catalog)
      PROVE  IInv'
  <2>1. CASE Open(p)
    BY <2>1, OpenKeeps
  <2>2. CASE Tell(p)
    BY <2>2, TellKeeps
  <2>3. CASE Localize(p)
    BY <2>3, LocalizeKeeps
  <2>4. CASE Loaded(p)
    BY <2>4, LoadedKeeps
  <2>5. CASE TakeLanguage(p)
    BY <2>5, TakeLanguageKeeps
  <2>6. ASSUME NEW i \in DOMAIN calls[p], Handle(p, i) PROVE IInv'
    BY <2>6, HandleKeeps
  <2>7. ASSUME NEW i \in DOMAIN calls[p], HandleSetting(p, i) PROVE IInv'
    BY <2>7, HandleSettingKeeps
  <2>8. ASSUME NEW i \in DOMAIN calls[p], Answer(p, i) PROVE IInv'
    BY <2>8, AnswerKeeps
  <2>9. ASSUME NEW catalog \in Locales, CatalogEnds(p, catalog) PROVE IInv'
    BY <2>9, CatalogEndsKeeps
  <2> QED BY <1>1, <2>1, <2>2, <2>3, <2>4, <2>5, <2>6, <2>7, <2>8, <2>9
<1>2. ASSUME NEW r \in RuleIds,
             Switch(r) \/ RowMenu(r) \/ ConfirmRemoval(r) \/ \E k \in Kinds : PopupFile(r, k)
      PROVE  IInv'
  BY <1>2, ClickSends, ClickKeeps
<1>3. ASSUME NEW site \in Sites, EditorSubmit(site) \/ Navigate(site)
      PROVE  IInv'
  BY <1>3, ClickSends, ClickKeeps, NavigateKeeps
<1>4. ASSUME NEW pref \in Offered, ChooseLanguage(pref)
      PROVE  IInv'
  BY <1>4, ClickSends, ClickKeeps
<1>5. ASSUME PauseOptions \/ PausePopup \/ PopupSite \/ ClosePopup \/ Reload \/ AnotherScript
      PROVE  IInv'
  BY <1>5, ClickSends, ClickKeeps, ClosePopupKeeps, ReloadKeeps, AnotherScriptKeeps
<1>6. ASSUME PauseWritten \/ LanguageWritten \/ WriteFails
      PROVE  IInv'
  BY <1>6, PauseWrittenKeeps, LanguageWrittenKeeps, WriteFailsKeeps
<1>7. ASSUME ClickRunDemo \/ CardWorks \/ ScriptsWork
      PROVE  IInv'
  BY <1>7, CardKeeps, ScriptsWorkKeeps
<1> QED BY <1>1, <1>2, <1>3, <1>4, <1>5, <1>6, <1>7 DEF Next

\* The inductive invariant holds of every state the two pages, the background,
\* the settings chain and the tab can reach.
THEOREM Invariance == Spec => []IInv
<1>1. ASSUME IInv, [Next]_vars PROVE IInv'
  BY <1>1, NextKeeps, StutterKeeps
<1> QED BY <1>1, InitKeeps, PTL DEF Spec

\* Every variable has its type, and the card of the options page never waits for
\* an answer nobody will give, nor for two, and is as new behind a list of rules
\* unless a copy came into a list that had been emptied (demoStore of the
\* options page, FR-016).
THEOREM CardStaysCurrent == Spec => []Inv
<1>1. ASSUME IInv PROVE Inv
  <2>1. PageTypeOK
    BY <1>1 DEF IInv, BackgroundTyped, TabTyped, PageTypeOK, DocRecords, ScriptRecords
  <2>2. CardTypeOK /\ CardMovesOn
    BY <1>1, CardMovesOnIs DEF IInv, CardOK, CardInv
  <2>3. LocaleTypeOK
    BY <1>1 DEF IInv, LocaleInv
  <2>4. \A p \in Pages : /\ page[p] \in PageRecords
                         /\ \A i \in DOMAIN calls[p] : calls[p][i] \in CallRecords
                         /\ told[p] \in Seq(Preferences)
    BY <1>1 DEF IInv, PagesTyped, CallsInv, LineInv, CallOK
  <2>5. writes \in Seq(WriteRecords)
    BY <1>1 DEF IInv, CallsInv, WriteSeq
  <2>6. /\ language \in Preferences
        /\ reloads \in Nat /\ acts \in 0..MaxActs
        /\ behind \in [Pages -> BOOLEAN] /\ twice \in BOOLEAN /\ refilled \in BOOLEAN
    BY <1>1 DEF IInv, BackgroundTyped, RestTyped
  <2>7. TypeOK
    BY <2>1, <2>2, <2>3, <2>4, <2>5, <2>6, Zenon DEF TypeOK, PageRecords, CallRecords, WriteRecords
  <2>8. page["options"].rules # NoRules /\ ~refilled => status = "idle"
    BY <1>1 DEF IInv, CardOK
  <2> QED BY <2>2, <2>7, <2>8 DEF Inv, CardIsCurrent
<1> QED BY <1>1, Invariance, PTL

\* JavaScript and CSS take effect only in the document whose content script
\* asked for them, and a tab that has settled has exactly the active files of its
\* site, whatever the popup changed while its requests were on their way
\* (init and inject of the content script, getPageInjections and
\* injectScriptIntoTab of the background, the reload of the popup).
THEOREM TabShowsItsRules == Spec => []PageIsAsRuled
<1>1. ASSUME IInv, doc[tab].mark # <<0, 0>>, Settled, current[doc[tab].mark],
             reloads = 0, calls["popup"] = << >>
      PROVE  InEffect = Active(doc[tab].site)
  <2>1. TabTyped /\ TabInv
    BY <1>1 DEF IInv
  <2>2. ~Pending
    BY <1>1 DEF Pending
  <2>3. PICK s \in Scripts : s = doc[tab].mark
    BY <1>1, <2>1 DEF TabTyped, DocRecords
  <2>4. ScriptOK(s) /\ script[s].pc = "done" /\ \A m \in toTab : m[1] # s
    BY <1>1, <2>1, <2>2, <2>3 DEF TabInv, Settled
  <2>5. AsRuled(s, doc[tab].ran \cup toTab, "js") /\ AsRuled(s, doc[tab].styled, "css")
    BY <2>4 DEF ScriptOK
  <2>6. ASSUME NEW r \in RuleIds
        PROVE  /\ <<s, r>> \in doc[tab].ran <=> Wanted(r, "js")
               /\ <<s, r>> \in doc[tab].styled <=> Wanted(r, "css")
    <3>1. <<s, r>> \notin toTab
      BY <2>4
    <3> QED BY <2>5, <3>1 DEF AsRuled
  <2>7. PICK active : active = Active(doc[tab].site)
    OBVIOUS
  <2>8. active \subseteq RuleIds \X Kinds /\ \A r, kind : Wanted(r, kind) <=> <<r, kind>> \in active
    BY <2>7 DEF Active, Matching, Wanted
  <2>9. InEffect = {f \in RuleIds \X Kinds :
                      <<s, f[1]>> \in (IF f[2] = "js" THEN doc[tab].ran ELSE doc[tab].styled)}
    BY <2>3 DEF InEffect
  <2>10. ASSUME NEW r \in RuleIds, NEW kind \in Kinds
         PROVE  <<r, kind>> \in InEffect <=> <<r, kind>> \in active
    BY <2>6, <2>8, <2>9 DEF Kinds
  <2>11. InEffect \subseteq RuleIds \X Kinds
    BY <2>9
  <2>12. InEffect = active
    BY <2>8, <2>10, <2>11
  <2> QED BY <2>7, <2>12
<1>2. ASSUME IInv PROVE PageIsAsRuled
  BY <1>1, <1>2 DEF PageIsAsRuled, IInv, TabInv
<1> QED BY <1>2, Invariance, PTL


-----------------------------------------------------------------------------
(* What the views come to *)

\* The call has taken effect: its answer will change this part of the view.
Counts(c, lane) == c.pc = "handled" /\ Lane(c.op) = lane

\* What an answer makes of the rules in a view.
RuleStep(p, x, c) ==
    IF p = "popup" THEN IF c.reply = None THEN x ELSE [x EXCEPT ![c.rule] = c.reply]
    ELSE CASE c.op = "remove" -> [x EXCEPT ![c.rule] = None]
           [] c.op = "switch" -> IF x[c.rule] = None THEN x ELSE [x EXCEPT ![c.rule].on = ~@]
           [] c.op \in {"add", "copy"} -> [x EXCEPT ![c.rule] = c.reply]
           [] OTHER -> IF c.reply = None \/ x[c.rule] = None THEN x ELSE [x EXCEPT ![c.rule] = c.reply]

\* What it makes of the part of the view that belongs to a lane: the rules, the
\* pause or the switch of the site.
After(p, lane, x, c) ==
    IF ~Counts(c, lane) THEN x
    ELSE IF lane = "rules" THEN RuleStep(p, x, c) ELSE c.value

\* b tells how the answers of the calls s lead a part of the view of page p from
\* x, which it shows, to y: b[j] is what it shows when the answers before that of
\* the call j are there.
Story(p, lane, s, b, x, y) ==
    /\ b[1] = x
    /\ \A j \in DOMAIN s : b[j + 1] = After(p, lane, b[j], s[j])
    /\ \A j \in Nat \ {0} : j \notin DOMAIN s => b[j] = y

Told(p, lane, s, x, y) == \E b : Story(p, lane, s, b, x, y)

LEMMA NothingAfter ==
  ASSUME NEW p, NEW lane, NEW x, NEW c, ~Counts(c, lane)
  PROVE  After(p, lane, x, c) = x
BY DEF After

\* No call counts before the one at i, or from that one on.
NoneBefore(s, lane, i) ==
    \E n \in Nat : /\ DOMAIN s = 1..n /\ i \in 1..n
                  /\ \A j \in 1..(i - 1) : ~Counts(s[j], lane)
NoneFrom(s, lane, i) ==
    \E n \in Nat : /\ DOMAIN s = 1..n /\ i \in 1..(n + 1)
                  /\ \A j \in i..n : ~Counts(s[j], lane)

LEMMA StoryBegins ==
  ASSUME NEW p, NEW lane, NEW s, NEW b, NEW x, NEW y, Story(p, lane, s, b, x, y),
         NEW i, NoneBefore(s, lane, i)
  PROVE  \A j \in 1..i : b[j] = x
<1> DEFINE T == {j \in 1..i : b[j] # x}
<1>1. PICK n \in Nat : /\ DOMAIN s = 1..n /\ i \in 1..n
                      /\ \A j \in 1..(i - 1) : ~Counts(s[j], lane)
  BY DEF NoneBefore
<1>2. SUFFICES ASSUME T # {} PROVE FALSE
  OBVIOUS
<1>3. PICK k \in T : \A j \in T : k <= j
  <2>1. T \subseteq Nat
    BY <1>1
  <2> HIDE DEF T
  <2> QED BY <1>2, <2>1, LeastNat
<1>4. k \in 1..i /\ b[k] # x /\ k # 1
  BY <1>3 DEF Story
<1>5. PICK m : m = k - 1
  OBVIOUS
<1>6. m \in 1..i /\ m \in 1..(i - 1) /\ m \in 1..n /\ m + 1 = k /\ ~(k <= m)
  BY <1>1, <1>4, <1>5
<1>7. b[m] = x
  BY <1>3, <1>6
<1>8. b[m + 1] = b[m]
  BY <1>1, <1>6, NothingAfter DEF Story
<1> QED BY <1>4, <1>6, <1>7, <1>8

LEMMA StoryEnds ==
  ASSUME NEW p, NEW lane, NEW s, NEW b, NEW x, NEW y, Story(p, lane, s, b, x, y),
         NEW i, NoneFrom(s, lane, i)
  PROVE  \A j \in Nat : i <= j => b[j] = y
<1>1. PICK n \in Nat : /\ DOMAIN s = 1..n /\ i \in 1..(n + 1)
                      /\ \A j \in i..n : ~Counts(s[j], lane)
  BY DEF NoneFrom
<1> DEFINE T == {m \in 0..n : (n + 1) - m >= i /\ b[(n + 1) - m] # y}
<1>2. \A j \in Nat : j > n => b[j] = y
  BY <1>1 DEF Story
<1>3. SUFFICES ASSUME T # {} PROVE FALSE
  <2> SUFFICES ASSUME NEW j \in Nat, i <= j, b[j] # y, T = {} PROVE FALSE
    BY <1>3
  <2>1. PICK m : m = (n + 1) - j
    OBVIOUS
  <2>2. j <= n
    BY <1>2
  <2>3. m \in 0..n /\ (n + 1) - m = j
    BY <1>1, <2>1, <2>2
  <2> QED BY <2>3
<1>4. PICK m \in T : \A k \in T : m <= k
  <2>1. T \subseteq Nat
    OBVIOUS
  <2> HIDE DEF T
  <2> QED BY <1>3, <2>1, LeastNat
<1>5. PICK j : j = (n + 1) - m
  OBVIOUS
<1>6. m \in 0..n /\ j \in Nat /\ i <= j /\ b[j] # y
  BY <1>1, <1>4, <1>5
<1>7. j \in i..n /\ j \in 1..n
  BY <1>1, <1>2, <1>6
<1>8. b[j + 1] = b[j]
  BY <1>1, <1>7, NothingAfter DEF Story
<1>9. m - 1 \in 0..n /\ (n + 1) - (m - 1) = j + 1 /\ i <= j + 1 /\ ~(m <= m - 1)
  BY <1>1, <1>2, <1>5, <1>6, <1>7
<1>10. m - 1 \in T
  BY <1>6, <1>8, <1>9
<1> QED BY <1>4, <1>9, <1>10

\* Nothing is on its way.
LEMMA EmptyStory ==
  ASSUME NEW p, NEW lane, NEW x, NEW y
  PROVE  /\ Story(p, lane, << >>, [j \in Nat |-> x], x, x)
         /\ Told(p, lane, << >>, x, y) => x = y
BY DEF Story, Told

\* A call that has just been sent.
LEMMA StoryLonger ==
  ASSUME NEW p, NEW lane, NEW s, NEW t, NEW c, Longer(t, s, c), c.pc = "sent",
         NEW b, NEW x, NEW y, Story(p, lane, s, b, x, y)
  PROVE  Story(p, lane, t, b, x, y)
<1>1. PICK n \in Nat : /\ DOMAIN s = 1..n /\ DOMAIN t = 1..(n + 1)
                       /\ \A j \in 1..n : t[j] = s[j]
                       /\ t[n + 1] = c
  BY DEF Longer
<1>2. b[n + 1] = y /\ b[(n + 1) + 1] = y
  BY <1>1 DEF Story
<1>3. After(p, lane, y, c) = y
  BY NothingAfter DEF Counts
<1>4. ASSUME NEW j \in 1..(n + 1) PROVE b[j + 1] = After(p, lane, b[j], t[j])
  <2>1. CASE j \in 1..n
    BY <1>1, <2>1 DEF Story
  <2>2. CASE j = n + 1
    BY <1>1, <1>2, <1>3, <2>2
  <2> QED BY <2>1, <2>2
<1>5. ASSUME NEW j \in Nat \ {0}, j \notin 1..(n + 1) PROVE b[j] = y
  BY <1>1, <1>5 DEF Story
<1> QED BY <1>1, <1>4, <1>5 DEF Story

\* Calls change, but none that counts.
LEMMA StorySame ==
  ASSUME NEW p, NEW lane, NEW s, NEW t, DOMAIN t = DOMAIN s,
         \A j \in DOMAIN s : t[j] = s[j] \/ (~Counts(s[j], lane) /\ ~Counts(t[j], lane)),
         NEW b, NEW x, NEW y, Story(p, lane, s, b, x, y)
  PROVE  Story(p, lane, t, b, x, y)
<1>1. ASSUME NEW j \in DOMAIN s PROVE b[j + 1] = After(p, lane, b[j], t[j])
  BY NothingAfter DEF Story
<1> QED BY <1>1 DEF Story

\* A call takes effect, the last one that does.
Raised(b, i, y) == [j \in Nat |-> IF j <= i THEN b[j] ELSE y]

LEMMA StoryRaised ==
  ASSUME NEW p, NEW lane, NEW s, NEW t, NEW n \in Nat, DOMAIN s = 1..n, DOMAIN t = 1..n,
         NEW i \in 1..n, \A j \in 1..n : j # i => t[j] = s[j], NoneFrom(s, lane, i),
         NEW b, NEW x, NEW y, Story(p, lane, s, b, x, y)
  PROVE  /\ Story(p, lane, t, Raised(b, i, After(p, lane, y, t[i])), x, After(p, lane, y, t[i]))
         /\ \A j \in Nat : i <= j => b[j] = y
<1>1. PICK e, v : e = After(p, lane, y, t[i]) /\ v = Raised(b, i, e)
  OBVIOUS
<1>2. \A j \in Nat : v[j] = IF j <= i THEN b[j] ELSE e
  BY <1>1 DEF Raised
<1>3. \A j \in Nat : i <= j => b[j] = y
  BY StoryEnds
<1>4. v[1] = x
  BY <1>2 DEF Story
<1>5. ASSUME NEW j \in 1..n PROVE v[j + 1] = After(p, lane, v[j], t[j])
  <2>1. CASE j < i
    <3>1. v[j + 1] = b[j + 1] /\ v[j] = b[j] /\ t[j] = s[j]
      BY <1>2, <2>1
    <3> QED BY <3>1 DEF Story
  <2>2. CASE j = i
    <3>1. v[j + 1] = e /\ v[j] = y
      BY <1>2, <1>3, <2>2
    <3> QED BY <1>1, <2>2, <3>1
  <2>3. CASE i < j
    <3>1. v[j + 1] = e /\ v[j] = e /\ t[j] = s[j] /\ ~Counts(s[j], lane)
      BY <1>2, <2>3 DEF NoneFrom
    <3> QED BY <3>1, NothingAfter
  <2> QED BY <2>1, <2>2, <2>3
<1>6. ASSUME NEW j \in Nat \ {0}, j \notin 1..n PROVE v[j] = e
  BY <1>2, <1>6
<1> QED BY <1>1, <1>3, <1>4, <1>5, <1>6 DEF Story

\* The first answer of a lane is there ...
Taken(b, i) == [j \in Nat |-> IF j < i THEN b[i + 1] ELSE b[j + 1]]

LEMMA StoryTaken ==
  ASSUME NEW p, NEW lane, NEW s, NEW i \in DOMAIN s, NEW t, Shorter(t, s, i),
         NoneBefore(s, lane, i),
         NEW b, NEW x, NEW y, Story(p, lane, s, b, x, y)
  PROVE  Story(p, lane, t, Taken(b, i), After(p, lane, x, s[i]), y)
<1>1. PICK n \in Nat : /\ DOMAIN s = 1..n /\ DOMAIN t = 1..(n - 1)
                       /\ \A j \in 1..(n - 1) : t[j] = IF j < i THEN s[j] ELSE s[j + 1]
  BY DEF Shorter
<1>2. PICK v : v = Taken(b, i)
  OBVIOUS
<1>3. \A j \in Nat : v[j] = IF j < i THEN b[i + 1] ELSE b[j + 1]
  BY <1>2 DEF Taken
<1>4. i \in 1..n /\ b[i] = x
  <2>1. i \in 1..n /\ i \in 1..i
    BY <1>1
  <2>2. \A j \in 1..i : b[j] = x
    BY StoryBegins
  <2> QED BY <2>1, <2>2
<1>5. b[i + 1] = After(p, lane, x, s[i])
  BY <1>1, <1>4 DEF Story
<1>6. v[1] = b[i + 1]
  <2>1. 1 < i \/ i = 1
    BY <1>4
  <2> QED BY <1>3, <2>1
<1>7. ASSUME NEW j \in 1..(n - 1) PROVE v[j + 1] = After(p, lane, v[j], t[j])
  <2>1. CASE j < i
    <3>1. v[j] = b[i + 1] /\ v[j + 1] = b[i + 1]
      <4>1. j + 1 < i \/ j + 1 = i
        BY <1>4, <2>1
      <4> QED BY <1>3, <2>1, <4>1
    <3>2. t[j] = s[j] /\ ~Counts(s[j], lane)
      BY <1>1, <1>4, <2>1 DEF NoneBefore
    <3> QED BY <3>1, <3>2, NothingAfter
  <2>2. CASE ~(j < i)
    <3>1. ~(j + 1 < i) /\ j \in Nat /\ j + 1 \in Nat /\ j + 1 \in 1..n
      BY <1>4, <2>2
    <3>2. v[j] = b[j + 1] /\ v[j + 1] = b[(j + 1) + 1] /\ t[j] = s[j + 1]
      BY <1>1, <1>3, <2>2, <3>1
    <3> QED BY <1>1, <3>1, <3>2 DEF Story
  <2> QED BY <2>1, <2>2
<1>8. ASSUME NEW j \in Nat \ {0}, j \notin 1..(n - 1) PROVE v[j] = y
  <2>1. ~(j < i) /\ j + 1 \in Nat \ {0} /\ j + 1 \notin 1..n
    BY <1>4, <1>8
  <2> QED BY <1>1, <1>3, <2>1 DEF Story
<1> QED BY <1>1, <1>2, <1>5, <1>6, <1>7, <1>8 DEF Story

\* ... or a call leaves that does not count.
Skipped(b, i) == [j \in Nat |-> IF j <= i THEN b[j] ELSE b[j + 1]]

LEMMA StorySkipped ==
  ASSUME NEW p, NEW lane, NEW s, NEW i \in DOMAIN s, NEW t, Shorter(t, s, i), ~Counts(s[i], lane),
         NEW b, NEW x, NEW y, Story(p, lane, s, b, x, y)
  PROVE  Story(p, lane, t, Skipped(b, i), x, y)
<1>1. PICK n \in Nat : /\ DOMAIN s = 1..n /\ DOMAIN t = 1..(n - 1)
                       /\ \A j \in 1..(n - 1) : t[j] = IF j < i THEN s[j] ELSE s[j + 1]
  BY DEF Shorter
<1>2. PICK v : v = Skipped(b, i)
  OBVIOUS
<1>3. \A j \in Nat : v[j] = IF j <= i THEN b[j] ELSE b[j + 1]
  BY <1>2 DEF Skipped
<1>4. i \in 1..n /\ b[i + 1] = b[i]
  BY <1>1, NothingAfter DEF Story
<1>5. v[1] = x
  <2>1. 1 <= i
    BY <1>4
  <2> QED BY <1>3, <2>1 DEF Story
<1>6. ASSUME NEW j \in 1..(n - 1) PROVE v[j + 1] = After(p, lane, v[j], t[j])
  <2>1. CASE j < i
    <3>1. v[j] = b[j] /\ v[j + 1] = b[j + 1] /\ t[j] = s[j] /\ j \in 1..n
      BY <1>1, <1>3, <1>4, <2>1
    <3> QED BY <1>1, <3>1 DEF Story
  <2>2. CASE ~(j < i)
    <3>1. v[j] = b[j + 1]
      <4>1. j = i \/ ~(j <= i)
        BY <1>4, <2>2
      <4> QED BY <1>3, <1>4, <4>1
    <3>2. v[j + 1] = b[(j + 1) + 1] /\ t[j] = s[j + 1] /\ j + 1 \in 1..n
      BY <1>1, <1>3, <1>4, <2>2
    <3> QED BY <1>1, <3>1, <3>2 DEF Story
  <2> QED BY <2>1, <2>2
<1>7. ASSUME NEW j \in Nat \ {0}, j \notin 1..(n - 1) PROVE v[j] = y
  <2>1. CASE ~(j <= i)
    <3>1. j + 1 \in Nat \ {0} /\ j + 1 \notin 1..n
      BY <1>4, <1>7
    <3> QED BY <1>1, <1>3, <2>1, <3>1 DEF Story
  <2>2. CASE j <= i
    <3>1. j = n /\ j = i
      BY <1>4, <1>7, <2>2
    <3>2. j + 1 \in Nat \ {0} /\ j + 1 \notin 1..n
      BY <3>1
    <3> QED BY <1>1, <1>3, <1>4, <3>1, <3>2 DEF Story
  <2> QED BY <2>1, <2>2
<1> QED BY <1>1, <1>2, <1>5, <1>6, <1>7 DEF Story

-----------------------------------------------------------------------------
(* The language a page is told *)

\* Whatever is on its way to a page ends with the language that was saved; when
\* nothing is, the page was told that one.
LangInv(p) ==
    /\ page[p].pc = "closed" => told[p] = << >>
    /\ told[p] # << >> => Last(told[p]) = language
    /\ page[p].pc = "told" /\ told[p] = << >> => page[p].language = language
    /\ page[p].pc \in {"localizing", "open"} => Shows(p) /\ (told[p] = << >> => ui[p].pref = language)

LanguagesAre == \A p \in Pages : LangInv(p)

LEMMA LastOfTail ==
  ASSUME NEW S, NEW s \in Seq(S), s # << >>
  PROVE  /\ Tail(s) = << >> => Head(s) = Last(s)
         /\ Tail(s) # << >> => Last(Tail(s)) = Last(s)
<1>1. PICK n \in Nat : n = Len(s) /\ n # 0
  OBVIOUS
<1>2. Len(Tail(s)) = n - 1 /\ \A j \in 1..(n - 1) : Tail(s)[j] = s[j + 1]
  BY <1>1
<1>3. PICK t : t = Tail(s)
  OBVIOUS
<1>4. Last(s) = s[n] /\ Last(t) = t[Len(t)]
  BY <1>1 DEF Last
<1>5. CASE n = 1
  <2>1. Head(s) = s[1]
    OBVIOUS
  <2>2. t = << >>
    BY <1>2, <1>3, <1>5
  <2> QED BY <1>3, <1>4, <1>5, <2>1, <2>2
<1>6. CASE n # 1
  <2>1. n - 1 \in 1..(n - 1) /\ (n - 1) + 1 = n /\ Len(t) = n - 1
    BY <1>1, <1>2, <1>3, <1>6
  <2>2. t[n - 1] = s[n]
    BY <1>2, <1>3, <2>1
  <2>3. t # << >>
    BY <2>1
  <2> QED BY <1>3, <1>4, <2>1, <2>2, <2>3
<1> QED BY <1>5, <1>6

LEMMA LastOfTold ==
  ASSUME NEW S, NEW s \in Seq(S), NEW x \in S
  PROVE  /\ s \o <<x>> # << >> /\ Last(s \o <<x>>) = x
         /\ s \o <<x, x>> # << >> /\ Last(s \o <<x, x>>) = x
<1>1. PICK n \in Nat : n = Len(s)
  OBVIOUS
<1>2. Len(s \o <<x>>) = n + 1 /\ Len(s \o <<x, x>>) = n + 2
  BY <1>1
<1>3. (s \o <<x>>)[n + 1] = x /\ (s \o <<x, x>>)[n + 2] = x
  BY <1>1
<1>4. Last(s \o <<x>>) = x /\ Last(s \o <<x, x>>) = x
  BY <1>2, <1>3 DEF Last
<1>5. n + 1 # 0 /\ n + 2 # 0
  OBVIOUS
<1> QED BY <1>2, <1>4, <1>5

\* Nothing has happened to the language of a page.
LEMMA LangStays ==
  ASSUME NEW p \in Pages, LangInv(p), language' = language, told'[p] = told[p],
         page'[p].pc = page[p].pc, page'[p].language = page[p].language,
         ui'[p].pref = ui[p].pref, Shows(p) => Shows(p)'
  PROVE  LangInv(p)'
BY DEF LangInv

LEMMA LanguagesStay ==
  ASSUME IInv, LanguagesAre, UNCHANGED <<language, told, localeVars>>,
         \A p \in Pages : page'[p].pc = page[p].pc /\ page'[p].language = page[p].language
  PROVE  LanguagesAre'
<1>1. \A p \in Contexts : ui'[p].pref = ui[p].pref /\ (Shows(p) => Shows(p)')
  BY LocaleStays DEF IInv
<1>2. ASSUME NEW p \in Pages PROVE LangInv(p)'
  <2>1. ui'[p].pref = ui[p].pref /\ (Shows(p) => Shows(p)')
    BY <1>1, PagesAssumption DEF Pages
  <2> QED BY <2>1, LangStays DEF LanguagesAre
<1> QED BY <1>2 DEF LanguagesAre

\* A page that is not shown yet takes a step.
LEMMA OpenTells ==
  ASSUME IInv, LanguagesAre, NEW p \in Pages, Open(p) \/ Tell(p) \/ Localize(p) \/ Loaded(p)
  PROVE  LanguagesAre'
<1>1. page \in [Pages -> PageRecords] /\ p \in Contexts /\ Pages = Contexts
  BY PagesAssumption DEF IInv, PagesTyped, Pages
<1>2. LocaleInv /\ UNCHANGED <<language, told>>
  BY DEF IInv, Open, Tell, Localize, Loaded, settingsVars
<1>3. ASSUME NEW q \in Pages, q # p PROVE LangInv(q)'
  <2>1. page'[q] = page[q]
    BY <1>1, <1>3 DEF Open, Tell, Localize, Loaded
  <2>2. ui'[q].pref = ui[q].pref /\ (Shows(q) => Shows(q)')
    <3>1. CASE Localize(p)
      <4>1. page[p].language \in Preferences
        BY <1>1 DEF PageRecords
      <4>2. PICK force \in BOOLEAN : force = TRUE
        OBVIOUS
      <4>3. SetPreference(p, page[p].language, force)
        BY <3>1, <4>2 DEF Localize
      <4> QED BY <1>1, <1>2, <1>3, <4>1, <4>3, SetPreferenceKeeps
    <3>2. CASE ~Localize(p)
      <4>1. UNCHANGED localeVars
        BY <3>2 DEF Open, Tell, Loaded
      <4> QED BY <1>1, <1>2, <4>1, LocaleStays
    <3> QED BY <3>1, <3>2
  <2> QED BY <1>2, <2>1, <2>2, LangStays DEF LanguagesAre
<1>4. LangInv(p)
  BY DEF LanguagesAre
<1>5. CASE Open(p)
  <2>1. page'[p].pc = "loading" /\ page[p].pc = "closed"
    BY <1>1, <1>5 DEF Open, Closed
  <2> QED BY <1>2, <1>3, <1>4, <2>1 DEF LangInv, LanguagesAre
<1>6. CASE Tell(p)
  <2>1. page'[p].pc = "told" /\ page'[p].language = language
    BY <1>1, <1>6 DEF Tell, ToldPage
  <2> QED BY <1>2, <1>3, <1>4, <2>1 DEF LangInv, LanguagesAre
<1>7. CASE Localize(p)
  <2>1. page[p].pc = "told" /\ page'[p].pc = "localizing"
    BY <1>1, <1>7 DEF Localize
  <2>2. PICK pref \in Preferences : pref = page[p].language
    BY <1>1 DEF PageRecords
  <2>3. PICK force \in BOOLEAN : force = TRUE
    OBVIOUS
  <2>4. SetPreference(p, pref, force)
    BY <1>7, <2>2, <2>3 DEF Localize
  <2>5. ui'[p].pref = pref /\ Shows(p)'
    BY <1>1, <1>2, <2>3, <2>4, SetPreferenceKeeps
  <2> QED BY <1>2, <1>3, <1>4, <2>1, <2>2, <2>5 DEF LangInv, LanguagesAre
<1>8. CASE Loaded(p)
  <2>1. page[p].pc = "localizing" /\ page'[p].pc = "open" /\ UNCHANGED localeVars
    BY <1>1, <1>8 DEF Loaded
  <2>2. ui'[p].pref = ui[p].pref /\ (Shows(p) => Shows(p)')
    BY <1>1, <1>2, <2>1, LocaleStays
  <2> QED BY <1>2, <1>3, <1>4, <2>1, <2>2 DEF LangInv, LanguagesAre
<1> QED BY <1>5, <1>6, <1>7, <1>8

LEMMA ClosePopupTells ==
  ASSUME IInv, LanguagesAre, ClosePopup
  PROVE  LanguagesAre'
<1>1. /\ page \in [Pages -> PageRecords] /\ told \in [Pages -> Seq(Preferences)]
      /\ LocaleInv /\ Pages = Contexts
  BY PagesAssumption DEF IInv, PagesTyped, Pages
<1>2. /\ page' = [page EXCEPT !["popup"] = Closed]
      /\ told' = [told EXCEPT !["popup"] = << >>]
      /\ ForgetLocale("popup") /\ language' = language
  BY DEF ClosePopup, settingsVars
<1>3. "popup" \in Pages /\ Closed.pc = "closed"
  BY DEF Pages, Closed
<1>4. ASSUME NEW q \in Pages, q # "popup" PROVE LangInv(q)'
  <2>1. page'[q] = page[q] /\ told'[q] = told[q]
    BY <1>1, <1>2, <1>4
  <2>2. ui'[q].pref = ui[q].pref /\ (Shows(q) => Shows(q)')
    BY <1>1, <1>2, <1>3, <1>4, ForgetLocaleKeeps
  <2> QED BY <1>2, <2>1, <2>2, LangStays DEF LanguagesAre
<1>5. LangInv("popup")'
  <2>1. page'["popup"] = Closed /\ told'["popup"] = << >>
    BY <1>1, <1>2, <1>3
  <2> QED BY <1>3, <2>1 DEF LangInv
<1> QED BY <1>4, <1>5 DEF LanguagesAre

LEMMA TakeLanguageTells ==
  ASSUME IInv, LanguagesAre, NEW p \in Pages, TakeLanguage(p)
  PROVE  LanguagesAre'
<1>1. /\ told \in [Pages -> Seq(Preferences)]
      /\ LocaleInv /\ Pages = Contexts
  BY PagesAssumption DEF IInv, PagesTyped, Pages
<1>2. /\ told[p] # << >> /\ page[p].pc # "told"
      /\ SetPreference(p, Head(told[p]), FALSE)
      /\ told' = [told EXCEPT ![p] = Tail(@)]
      /\ UNCHANGED <<language, page>>
  BY DEF TakeLanguage, settingsVars
<1>3. PICK s \in Seq(Preferences) : s = told[p] /\ s # << >>
  BY <1>1, <1>2
<1>4. /\ Head(s) \in Preferences
      /\ Tail(s) = << >> => Head(s) = Last(s)
      /\ Tail(s) # << >> => Last(Tail(s)) = Last(s)
  BY <1>3, HeadOfTold, LastOfTail
<1>5. PICK pref \in Preferences : pref = Head(s)
  BY <1>4
<1>6. PICK force \in BOOLEAN : force = FALSE
  OBVIOUS
<1>7. SetPreference(p, pref, force)
  BY <1>2, <1>3, <1>5, <1>6
<1>8. /\ ui'[p].pref = pref /\ (Shows(p) => Shows(p)')
      /\ \A q \in Contexts \ {p} : ui'[q].pref = ui[q].pref /\ (Shows(q) => Shows(q)')
  BY <1>1, <1>7, SetPreferenceKeeps
<1>9. ASSUME NEW q \in Pages, q # p PROVE LangInv(q)'
  <2>1. told'[q] = told[q] /\ ui'[q].pref = ui[q].pref /\ (Shows(q) => Shows(q)')
    BY <1>1, <1>2, <1>8, <1>9
  <2> QED BY <1>2, <2>1, LangStays DEF LanguagesAre
<1>10. LangInv(p)'
  <2>1. told'[p] = Tail(s) /\ LangInv(p)
    BY <1>1, <1>2, <1>3 DEF LanguagesAre
  <2>2. Last(s) = language
    BY <1>2, <1>3, <2>1 DEF LangInv
  <2> QED BY <1>2, <1>3, <1>4, <1>5, <1>8, <2>1, <2>2 DEF LangInv
<1> QED BY <1>9, <1>10 DEF LanguagesAre

LEMMA CatalogEndsTells ==
  ASSUME IInv, LanguagesAre, NEW p \in Pages, NEW catalog \in Locales, CatalogEnds(p, catalog)
  PROVE  LanguagesAre'
<1>1. /\ CatalogArrives(p, catalog) \/ CatalogFails(p, catalog)
      /\ UNCHANGED <<language, told, page>>
  BY DEF CatalogEnds, settingsVars, pagesVars
<1>2. \A q \in Pages : ui'[q].pref = ui[q].pref /\ (Shows(q) => Shows(q)')
  BY <1>1, CatalogKeeps, PagesAssumption DEF IInv, Pages
<1>3. ASSUME NEW q \in Pages PROVE LangInv(q)'
  BY <1>1, <1>2, LangStays DEF LanguagesAre
<1> QED BY <1>3 DEF LanguagesAre

\* The language that was saved is on its way to every page that is there.
LEMMA LanguageWrittenTells ==
  ASSUME IInv, LanguagesAre, LanguageWritten
  PROVE  LanguagesAre'
<1>1. PICK w : w = Head(writes)
  OBVIOUS
<1>2. /\ writes # << >> /\ w.op = "language" /\ language' = w.what
      /\ told' = [q \in Pages |-> IF page[q].pc = "closed" THEN << >>
                                  ELSE told[q] \o (IF q = w.page THEN <<w.what, w.what>> ELSE <<w.what>>)]
      /\ UNCHANGED <<page, localeVars>>
  BY <1>1 DEF LanguageWritten
<1>3. w.what \in Preferences
  <2>1. /\ w \in WriteRecords
        /\ Oldest(calls[w.page], Writing(w.page))
        /\ Matches(w, calls[w.page][Writing(w.page)])
    BY <1>1, <1>2, HeadOfChain DEF IInv
  <2>2. CallOK(w.page, calls[w.page][Writing(w.page)])
    BY <2>1 DEF Oldest, IInv, CallsInv, LineInv, WriteRecords
  <2> QED BY <1>2, <2>1, <2>2 DEF CallOK, Matches
<1>4. ASSUME NEW q \in Pages PROVE LangInv(q)'
  <2>1. told[q] \in Seq(Preferences) /\ LangInv(q) /\ q \in Contexts
    BY PagesAssumption DEF IInv, PagesTyped, LanguagesAre, Pages
  <2>2. ui'[q].pref = ui[q].pref /\ (Shows(q) => Shows(q)')
    BY <1>2, <2>1, LocaleStays DEF IInv
  <2>3. CASE page[q].pc = "closed"
    <3>1. told'[q] = << >>
      BY <1>2, <2>3
    <3> QED BY <1>2, <2>3, <3>1 DEF LangInv
  <2>4. CASE page[q].pc # "closed"
    <3>1. told'[q] = told[q] \o <<w.what, w.what>> \/ told'[q] = told[q] \o <<w.what>>
      BY <1>2, <2>4
    <3>2. told'[q] # << >> /\ Last(told'[q]) = w.what
      <4>1. PICK s \in Seq(Preferences), x \in Preferences : s = told[q] /\ x = w.what
        BY <1>3, <2>1
      <4>2. /\ s \o <<x>> # << >> /\ Last(s \o <<x>>) = x
            /\ s \o <<x, x>> # << >> /\ Last(s \o <<x, x>>) = x
        BY LastOfTold
      <4> QED BY <3>1, <4>1, <4>2
    <3> QED BY <1>2, <2>1, <2>2, <2>4, <3>2 DEF LangInv
  <2> QED BY <2>3, <2>4
<1> QED BY <1>4 DEF LanguagesAre

-----------------------------------------------------------------------------
(* What the actions do to the calls of a page *)

\* t is s with another call at i.
Replaced(t, s, i, d) ==
    \E n \in Nat : /\ DOMAIN s = 1..n /\ DOMAIN t = 1..n /\ i \in 1..n
                   /\ t[i] = d
                   /\ \A j \in 1..n : j # i => t[j] = s[j]

\* The same call, further on.
Goes(c, d, pc) ==
    /\ d.pc = pc /\ d.op = c.op /\ d.rule = c.rule /\ d.site = c.site /\ d.value = c.value

LEMMA ReplacedIs ==
  ASSUME NEW s, CallSeq(s), NEW i \in DOMAIN s, NEW d \in CallRecords
  PROVE  Replaced([s EXCEPT ![i] = d], s, i, d)
<1>1. PICK t : \E n \in Nat :
            /\ t = [s EXCEPT ![i] = d] /\ CallSeq(t)
            /\ DOMAIN s = 1..n /\ DOMAIN t = 1..n
            /\ \A j \in 1..n : t[j] = IF j = i THEN d ELSE s[j]
  BY CallReplaced
<1>2. t[i] = d /\ Replaced(t, s, i, d)
  BY <1>1 DEF Replaced
<1> QED BY <1>1, <1>2

\* The calls of the other page.
OthersSame(p) == \A q \in Pages : q # p => calls'[q] = calls[q]

LEMMA SendMoves ==
  ASSUME IInv, NEW p \in Pages, NEW call, CallOK(p, call), Send(p, call)
  PROVE  /\ Longer(calls'[p], calls[p], call) /\ OthersSame(p)
         /\ page[p].pc = "open"
         /\ UNCHANGED <<background, language, tab, doc, localeVars, page, told, behind>>
<1>1. /\ calls' = [calls EXCEPT ![p] = Append(@, call)]
      /\ page[p].pc = "open"
      /\ UNCHANGED <<background, language, tab, doc, localeVars, page, told, behind>>
  BY DEF Send, settingsVars, pageVars
<1>2. DOMAIN calls = Pages /\ CallSeq(calls[p]) /\ call \in CallRecords
  BY DEF IInv, CallsInv, LineInv, CallOK
<1>3. calls'[p] = Append(calls[p], call) /\ OthersSame(p)
  BY <1>1, <1>2 DEF OthersSame
<1>4. Longer(Append(calls[p], call), calls[p], call)
  BY <1>2, CallAppended
<1> QED BY <1>1, <1>3, <1>4

\* The rule that a call turns out to be about.
RuleOf(c) == IF c.op \in {"add", "copy"} THEN created + 1 ELSE c.rule

\* A call that is handled: c becomes d.
HandleIs(p, i, c, d) ==
    /\ c = calls[p][i] /\ CallOK(p, c)
    /\ c.pc = "sent" /\ c.op \notin {"pause", "language"}
    /\ c.op \in {"add", "copy"} => created + 1 \in RuleIds
    /\ created' = IF c.op \in {"add", "copy"} THEN created + 1 ELSE created
    /\ rules' = RulesAfter(c, created + 1)
    /\ blocked' = BlockedAfter(c)
    /\ d = Handled(c, RuleOf(c), IF RuleOf(c) = 0 THEN None ELSE rules'[RuleOf(c)])
    /\ Replaced(calls'[p], calls[p], i, d) /\ OthersSame(p)
    /\ \/ <<rules', blocked'>> = <<rules, blocked>> /\ UNCHANGED behind
       \/ \A q \in Pages : behind'[q] = (behind[q] \/ (q # p /\ page[q].pc \notin {"closed", "loading"}))
    /\ UNCHANGED <<enabled, language, tab, doc, localeVars, page, told, twice>>

LEMMA HandleMoves ==
  ASSUME IInv, NEW p \in Pages, NEW i \in DOMAIN calls[p], Handle(p, i)
  PROVE  \E c, d : HandleIs(p, i, c, d)
<1>1. PICK c, new, id, reply, d :
        /\ c = calls[p][i] /\ new = created + 1
        /\ id = IF c.op \in {"add", "copy"} THEN new ELSE c.rule
        /\ reply = IF id = 0 THEN None ELSE RulesAfter(c, new)[id]
        /\ d = Handled(c, id, reply)
  OBVIOUS
<1>2. /\ c.pc = "sent" /\ c.op \notin {"pause", "language"}
      /\ c.op \in {"add", "copy"} => new \in RuleIds
      /\ created' = IF c.op \in {"add", "copy"} THEN new ELSE created
      /\ rules' = RulesAfter(c, new)
      /\ blocked' = BlockedAfter(c)
      /\ calls' = [calls EXCEPT ![p][i].pc = "handled", ![p][i].rule = id, ![p][i].reply = reply]
      /\ IF <<rules', blocked'>> = <<rules, blocked>>
         THEN UNCHANGED <<behind, current>> ELSE Changed(p, c)
      /\ UNCHANGED <<enabled, language, tab, doc, localeVars, page, told, twice>>
  BY <1>1 DEF Handle, NextSent, settingsVars
<1>3. /\ DOMAIN calls = Pages /\ CallSeq(calls[p]) /\ CallOK(p, c) /\ c \in CallRecords
      /\ BackgroundTyped
  BY <1>1 DEF IInv, CallsInv, LineInv, CallOK
<1>4. /\ calls'[p] = [calls[p] EXCEPT ![i] = d]
      /\ OthersSame(p)
  <2>1. p \in DOMAIN calls
    BY <1>3
  <2>2. /\ calls'[p] = [calls[p] EXCEPT ![i] = Handled(calls[p][i], id, reply)]
        /\ DOMAIN calls' = DOMAIN calls
        /\ \A q \in DOMAIN calls : q # p => calls'[q] = calls[q]
    BY <1>2, <1>3, <2>1 DEF Handled
  <2> QED BY <1>1, <1>3, <2>2 DEF OthersSame
<1>5. d \in CallRecords
  <2>1. RulesAfter(c, new) \in [RuleIds -> {None} \cup RuleRecords]
    BY <1>1, <1>2, <1>3, RulesAfterTyped
  <2>2. id \in {0} \cup RuleIds
    BY <1>1, <1>2, <1>3 DEF CallRecords
  <2>3. reply \in {None} \cup RuleRecords
    BY <1>1, <2>1, <2>2
  <2> QED BY <1>1, <1>3, <2>2, <2>3 DEF Handled, CallRecords
<1>6. Replaced(calls'[p], calls[p], i, d)
  BY <1>3, <1>4, <1>5, ReplacedIs
<1>7. id = RuleOf(c) /\ reply = IF RuleOf(c) = 0 THEN None ELSE rules'[RuleOf(c)]
  BY <1>1, <1>2 DEF RuleOf
<1>8. \/ <<rules', blocked'>> = <<rules, blocked>> /\ UNCHANGED behind
      \/ \A q \in Pages : behind'[q] = (behind[q] \/ (q # p /\ page[q].pc \notin {"closed", "loading"}))
  BY <1>2 DEF Changed
<1> QED BY <1>1, <1>2, <1>3, <1>4, <1>6, <1>7, <1>8 DEF HandleIs

\* A setting that joins the chain, is written or fails to be: c becomes d.
SettingIs(p, i, c, d) ==
    /\ c = calls[p][i] /\ CallOK(p, c) /\ c.op \in {"pause", "language"}
    /\ c.pc \in {"sent", "writing"} /\ d.pc \in {"writing", "handled", "failed"} /\ Goes(c, d, d.pc)
    /\ c.pc = "writing" => Oldest(calls[p], i) /\ d.pc \in {"handled", "failed"}
    /\ c.pc = "sent" => d.pc = "writing"
    /\ Replaced(calls'[p], calls[p], i, d) /\ OthersSame(p)
    /\ IF d.pc = "handled" THEN c.op = "pause" /\ enabled' = c.value ELSE UNCHANGED enabled
    /\ \/ UNCHANGED <<enabled, behind>>
       \/ \A q \in Pages : behind'[q] = (behind[q] \/ (q # p /\ page[q].pc \notin {"closed", "loading"}))
    /\ UNCHANGED <<rules, created, blocked, language, tab, doc, localeVars, page, told, twice>>

LEMMA HandleSettingMoves ==
  ASSUME IInv, NEW p \in Pages, NEW i \in DOMAIN calls[p], HandleSetting(p, i)
  PROVE  \E c, d : SettingIs(p, i, c, d)
<1>1. PICK c, d : c = calls[p][i] /\ d = [c EXCEPT !.pc = "writing"]
  OBVIOUS
<1>2. /\ c.pc = "sent" /\ c.op \in {"pause", "language"}
      /\ calls' = [calls EXCEPT ![p][i].pc = "writing"]
      /\ UNCHANGED <<background, language, tab, doc, localeVars, page, told, behind, twice>>
  BY <1>1 DEF HandleSetting, NextSent, pageVars, ghosts
<1>3. /\ DOMAIN calls = Pages /\ CallSeq(calls[p]) /\ CallOK(p, c) /\ c \in CallRecords
  BY <1>1 DEF IInv, CallsInv, LineInv, CallOK
<1>4. d \in CallRecords /\ Goes(c, d, "writing")
  BY <1>1, <1>3 DEF CallRecords, Goes
<1>5. calls'[p] = [calls[p] EXCEPT ![i] = d] /\ OthersSame(p)
  BY <1>1, <1>2, <1>3 DEF OthersSame
<1>6. Replaced(calls'[p], calls[p], i, d)
  BY <1>3, <1>4, <1>5, ReplacedIs
<1> QED BY <1>1, <1>2, <1>3, <1>4, <1>5, <1>6 DEF SettingIs, Goes, background

LEMMA ChainMoves ==
  ASSUME IInv, PauseWritten \/ WriteFails
  PROVE  \E p \in Pages : \E i \in DOMAIN calls[p] : \E c, d : SettingIs(p, i, c, d)
<1>1. PICK how \in {"handled", "failed"} : how = IF PauseWritten THEN "handled" ELSE "failed"
  OBVIOUS
<1>2. PICK w, p, i, c, d :
        /\ w = Head(writes) /\ p = w.page /\ i = Writing(p) /\ c = calls[p][i]
        /\ d = [c EXCEPT !.pc = how]
  OBVIOUS
<1>3. /\ writes # << >>
      /\ calls' = [calls EXCEPT ![p][i].pc = how]
      /\ UNCHANGED <<rules, created, blocked, language, tab, doc, localeVars, page, told, twice>>
      /\ how = "handled" => /\ w.op = "pause" /\ enabled' = w.value
                            /\ IF enabled' = enabled THEN UNCHANGED <<behind, current>> ELSE Changed(p, c)
      /\ how = "failed" => UNCHANGED <<enabled, behind>>
  BY <1>1, <1>2 DEF PauseWritten, WriteFails, background, ghosts
<1>4. w \in WriteRecords /\ Oldest(calls[p], i) /\ Matches(w, c)
  BY <1>2, <1>3, HeadOfChain DEF IInv
<1>5. p \in Pages /\ c.op \in {"pause", "language"} /\ c.op = w.op /\ c.value = w.value
  BY <1>2, <1>4 DEF WriteRecords, Matches
<1>6. /\ DOMAIN calls = Pages /\ CallSeq(calls[p]) /\ CallOK(p, c) /\ c \in CallRecords
      /\ i \in DOMAIN calls[p] /\ c.pc = "writing"
  BY <1>2, <1>4, <1>5 DEF IInv, CallsInv, LineInv, CallOK, Oldest
<1>7. d \in CallRecords /\ Goes(c, d, how)
  BY <1>2, <1>6 DEF CallRecords, Goes
<1>8. calls'[p] = [calls[p] EXCEPT ![i] = d] /\ OthersSame(p)
  BY <1>2, <1>3, <1>5, <1>6 DEF OthersSame
<1>9. Replaced(calls'[p], calls[p], i, d)
  BY <1>6, <1>7, <1>8, ReplacedIs
<1>10. /\ IF d.pc = "handled" THEN c.op = "pause" /\ enabled' = c.value ELSE UNCHANGED enabled
       /\ \/ UNCHANGED <<enabled, behind>>
          \/ \A q \in Pages : behind'[q] = (behind[q] \/ (q # p /\ page[q].pc \notin {"closed", "loading"}))
  <2>1. d.pc = how
    BY <1>7 DEF Goes
  <2>2. CASE how = "failed"
    BY <1>3, <2>1, <2>2
  <2>3. CASE how = "handled"
    BY <1>3, <1>5, <2>1, <2>3 DEF Changed
  <2> QED BY <2>2, <2>3
<1>11. SettingIs(p, i, c, d)
  <2>1. d.pc = how /\ Goes(c, d, d.pc)
    BY <1>7 DEF Goes
  <2>2. c = calls[p][i] /\ Oldest(calls[p], i)
    BY <1>2, <1>4
  <2> QED BY <1>3, <1>5, <1>6, <1>8, <1>9, <1>10, <2>1, <2>2 DEF SettingIs
<1> QED BY <1>5, <1>6, <1>11

\* A call that leaves: a choice of language that is written, or one that is answered.
LeaveIs(p, i, c) ==
    /\ c = calls[p][i] /\ CallOK(p, c)
    /\ Shorter(calls'[p], calls[p], i) /\ OthersSame(p)
    /\ UNCHANGED <<background, tab, doc, localeVars, behind, twice>>

LEMMA LanguageMoves ==
  ASSUME IInv, LanguageWritten
  PROVE  \E p \in Pages : \E i \in DOMAIN calls[p] : \E c :
            LeaveIs(p, i, c) /\ c.pc = "writing" /\ page' = page
<1>1. PICK w, p, i, c :
        /\ w = Head(writes) /\ p = w.page /\ i = Writing(p) /\ c = calls[p][i]
  OBVIOUS
<1>2. /\ writes # << >>
      /\ calls' = [calls EXCEPT ![p] = RemoveAt(@, i)]
      /\ UNCHANGED <<background, tab, doc, localeVars, page, behind, twice>>
  BY <1>1 DEF LanguageWritten, pageVars, ghosts
<1>3. w \in WriteRecords /\ Oldest(calls[p], i)
  BY <1>1, <1>2, HeadOfChain DEF IInv
<1>4. p \in Pages
  BY <1>1, <1>3 DEF WriteRecords
<1>5. /\ DOMAIN calls = Pages /\ CallSeq(calls[p]) /\ CallOK(p, c)
      /\ i \in DOMAIN calls[p] /\ c.pc = "writing"
  BY <1>1, <1>3, <1>4 DEF IInv, CallsInv, LineInv, Oldest
<1>6. calls'[p] = RemoveAt(calls[p], i) /\ OthersSame(p)
  BY <1>2, <1>4, <1>5 DEF OthersSame
<1>7. Shorter(RemoveAt(calls[p], i), calls[p], i)
  BY <1>5, CallRemoved
<1> QED BY <1>1, <1>2, <1>4, <1>5, <1>6, <1>7 DEF LeaveIs

LEMMA AnswerMoves ==
  ASSUME IInv, NEW p \in Pages, NEW i \in DOMAIN calls[p], Answer(p, i)
  PROVE  \E c : /\ LeaveIs(p, i, c) /\ c.pc \in {"handled", "failed"}
                /\ \A j \in 1..(i - 1) : Lane(calls[p][j].op) # Lane(c.op)
                /\ page' = IF page[p].pc = "open" THEN [page EXCEPT ![p] = ViewAfter(p, c)] ELSE page
                /\ UNCHANGED <<language, told>>
<1>1. PICK c : c = calls[p][i]
  OBVIOUS
<1>2. /\ c.pc \in {"handled", "failed"}
      /\ \A j \in 1..(i - 1) : Lane(calls[p][j].op) # Lane(c.op)
      /\ calls' = [calls EXCEPT ![p] = RemoveAt(@, i)]
      /\ page' = IF page[p].pc = "open" THEN [page EXCEPT ![p] = ViewAfter(p, c)] ELSE page
      /\ UNCHANGED <<background, language, tab, doc, localeVars, told, behind, twice>>
  BY <1>1 DEF Answer, settingsVars, pageVars
<1>3. DOMAIN calls = Pages /\ CallSeq(calls[p]) /\ CallOK(p, c)
  BY <1>1 DEF IInv, CallsInv, LineInv
<1>4. calls'[p] = RemoveAt(calls[p], i) /\ OthersSame(p)
  BY <1>2, <1>3 DEF OthersSame
<1>5. Shorter(RemoveAt(calls[p], i), calls[p], i)
  BY <1>3, CallRemoved
<1> QED BY <1>1, <1>2, <1>3, <1>4, <1>5 DEF LeaveIs

-----------------------------------------------------------------------------
(* What an answer makes of a view, part by part *)

LEMMA ViewAfterIs ==
  ASSUME PagesTyped, NEW p \in Pages, NEW c, CallOK(p, c), c.pc \in {"handled", "failed"},
         NEW a, a = ViewAfter(p, c)
  PROVE  /\ a.pc = page[p].pc /\ a.language = page[p].language /\ a.site = page[p].site
         /\ a.rules = After(p, "rules", page[p].rules, c)
         /\ a.enabled = After(p, "settings", page[p].enabled, c)
         /\ p = "popup" => a.off = After(p, "site", page[p].off, c)
<1>1. PICK v \in PageRecords : v = page[p]
  BY DEF PagesTyped
<1>2. /\ v.rules \in [RuleIds -> {None} \cup RuleRecords]
      /\ c.op \in Ops
      /\ c.pc = "failed" => c.op \in {"pause", "language"}
      /\ c.op = "language" => c.pc # "handled"
      /\ p = "popup" => c.op \in {"pause", "file", "site"}
      /\ p = "options" => c.op # "site"
  BY DEF PageRecords, CallOK, CallRecords
<1>3. ASSUME NEW u
      PROVE  /\ [v EXCEPT !.rules = u].pc = v.pc /\ [v EXCEPT !.rules = u].language = v.language
             /\ [v EXCEPT !.rules = u].site = v.site /\ [v EXCEPT !.rules = u].rules = u
             /\ [v EXCEPT !.rules = u].enabled = v.enabled /\ [v EXCEPT !.rules = u].off = v.off
  BY DEF PageRecords
<1>4. ASSUME NEW e
      PROVE  /\ [v EXCEPT !.enabled = e].pc = v.pc /\ [v EXCEPT !.enabled = e].language = v.language
             /\ [v EXCEPT !.enabled = e].site = v.site /\ [v EXCEPT !.enabled = e].rules = v.rules
             /\ [v EXCEPT !.enabled = e].enabled = e /\ [v EXCEPT !.enabled = e].off = v.off
             /\ [v EXCEPT !.off = e].pc = v.pc /\ [v EXCEPT !.off = e].language = v.language
             /\ [v EXCEPT !.off = e].site = v.site /\ [v EXCEPT !.off = e].rules = v.rules
             /\ [v EXCEPT !.off = e].enabled = v.enabled /\ [v EXCEPT !.off = e].off = e
  BY DEF PageRecords
<1>5. CASE c.pc = "failed"
  <2>1. a = v
    BY <1>1, <1>5 DEF ViewAfter
  <2>2. \A lane, x : After(p, lane, x, c) = x
    BY <1>5, NothingAfter DEF Counts
  <2> QED BY <1>1, <2>1, <2>2
<1>6. CASE c.pc = "handled" /\ c.op = "pause"
  <2>1. a = [v EXCEPT !.enabled = c.value]
    BY <1>1, <1>6 DEF ViewAfter, OptionsAfter, PopupAfter
  <2>2. \A x : /\ After(p, "rules", x, c) = x /\ After(p, "site", x, c) = x
               /\ After(p, "settings", x, c) = c.value
    BY <1>6 DEF After, Counts, Lane
  <2> QED BY <1>1, <1>4, <2>1, <2>2
<1>7. CASE c.pc = "handled" /\ c.op = "site"
  <2>1. a = [v EXCEPT !.off = c.value] /\ p = "popup"
    BY <1>1, <1>2, <1>7 DEF ViewAfter, PopupAfter, Pages
  <2>2. \A x : /\ After(p, "rules", x, c) = x /\ After(p, "settings", x, c) = x
               /\ After(p, "site", x, c) = c.value
    BY <1>7 DEF After, Counts, Lane
  <2> QED BY <1>1, <1>4, <2>1, <2>2
<1>8. CASE c.pc = "handled" /\ c.op \notin {"pause", "site", "language"}
  <2>1. \A x : /\ After(p, "settings", x, c) = x /\ After(p, "site", x, c) = x
               /\ After(p, "rules", x, c) = RuleStep(p, x, c)
    BY <1>8 DEF After, Counts, Lane
  <2>2. a = [v EXCEPT !.rules = RuleStep(p, v.rules, c)]
    <3>0. [v EXCEPT !.rules = v.rules] = v
      BY DEF PageRecords
    <3>1. CASE p = "popup"
      <4>1. a = IF c.reply = None THEN v ELSE [v EXCEPT !.rules[c.rule] = c.reply]
        BY <1>1, <1>8, <3>1 DEF ViewAfter, PopupAfter
      <4>2. RuleStep(p, v.rules, c) = IF c.reply = None THEN v.rules ELSE [v.rules EXCEPT ![c.rule] = c.reply]
        BY <3>1 DEF RuleStep
      <4> QED BY <3>0, <4>1, <4>2
    <3>2. CASE p # "popup"
      <4>1. a = OptionsAfter(v, c)
        BY <1>1, <1>8, <3>2 DEF ViewAfter
      <4>2. CASE c.op = "remove"
        <5>1. a = [v EXCEPT !.rules[c.rule] = None]
          BY <4>1, <4>2 DEF OptionsAfter
        <5>2. RuleStep(p, v.rules, c) = [v.rules EXCEPT ![c.rule] = None]
          BY <3>2, <4>2 DEF RuleStep
        <5> QED BY <5>1, <5>2
      <4>3. CASE c.op = "switch"
        <5>1. a = IF v.rules[c.rule] = None THEN v ELSE [v EXCEPT !.rules[c.rule].on = ~@]
          BY <4>1, <4>3 DEF OptionsAfter
        <5>2. RuleStep(p, v.rules, c) =
                IF v.rules[c.rule] = None THEN v.rules ELSE [v.rules EXCEPT ![c.rule].on = ~@]
          BY <3>2, <4>3 DEF RuleStep
        <5> QED BY <3>0, <5>1, <5>2
      <4>4. CASE c.op \in {"add", "copy"}
        <5>1. a = [v EXCEPT !.rules[c.rule] = c.reply]
          BY <4>1, <4>4 DEF OptionsAfter
        <5>2. RuleStep(p, v.rules, c) = [v.rules EXCEPT ![c.rule] = c.reply]
          BY <3>2, <4>4 DEF RuleStep
        <5> QED BY <5>1, <5>2
      <4>5. CASE c.op \notin {"remove", "switch", "add", "copy"}
        <5>1. a = IF c.reply = None \/ v.rules[c.rule] = None THEN v ELSE [v EXCEPT !.rules[c.rule] = c.reply]
          BY <1>8, <4>1, <4>5 DEF OptionsAfter
        <5>2. RuleStep(p, v.rules, c) =
                IF c.reply = None \/ v.rules[c.rule] = None THEN v.rules
                ELSE [v.rules EXCEPT ![c.rule] = c.reply]
          BY <3>2, <4>5 DEF RuleStep
        <5> QED BY <3>0, <5>1, <5>2
      <4> QED BY <4>2, <4>3, <4>4, <4>5
    <3> QED BY <3>1, <3>2
  <2>3. PICK u : u = RuleStep(p, v.rules, c)
    OBVIOUS
  <2>4. a = [v EXCEPT !.rules = u]
    BY <2>2, <2>3
  <2>5. /\ a.pc = v.pc /\ a.language = v.language /\ a.site = v.site /\ a.rules = u
        /\ a.enabled = v.enabled /\ a.off = v.off
    BY <1>3, <2>4
  <2> QED BY <1>1, <2>1, <2>3, <2>5
<1> QED BY <1>2, <1>5, <1>6, <1>7, <1>8

\* The pages after an answer.
LEMMA PagesAfterAnswer ==
  ASSUME IInv, NEW p \in Pages, NEW c, CallOK(p, c), c.pc \in {"handled", "failed"},
         page' = IF page[p].pc = "open" THEN [page EXCEPT ![p] = ViewAfter(p, c)] ELSE page
  PROVE  /\ \A q \in Pages : /\ page'[q].pc = page[q].pc /\ page'[q].language = page[q].language
                             /\ page'[q].site = page[q].site
                             /\ q # p => page'[q] = page[q]
         /\ page[p].pc # "open" => page'[p] = page[p]
         /\ page[p].pc = "open" =>
              /\ page'[p].rules = After(p, "rules", page[p].rules, c)
              /\ page'[p].enabled = After(p, "settings", page[p].enabled, c)
              /\ p = "popup" => page'[p].off = After(p, "site", page[p].off, c)
<1>1. PagesTyped /\ page \in [Pages -> PageRecords]
  BY DEF IInv, PagesTyped
<1>2. PICK a : a = ViewAfter(p, c)
  OBVIOUS
<1>3. /\ a.pc = page[p].pc /\ a.language = page[p].language /\ a.site = page[p].site
      /\ a.rules = After(p, "rules", page[p].rules, c)
      /\ a.enabled = After(p, "settings", page[p].enabled, c)
      /\ p = "popup" => a.off = After(p, "site", page[p].off, c)
  BY <1>1, <1>2, ViewAfterIs
<1>4. CASE page[p].pc = "open"
  <2>1. page' = [page EXCEPT ![p] = a]
    BY <1>2, <1>4
  <2>2. page'[p] = a /\ \A q \in Pages : q # p => page'[q] = page[q]
    BY <1>1, <2>1
  <2> QED BY <1>3, <1>4, <2>2
<1>5. CASE page[p].pc # "open"
  BY <1>5
<1> QED BY <1>4, <1>5

LEMMA AnswerTells ==
  ASSUME IInv, LanguagesAre, NEW p \in Pages, NEW i \in DOMAIN calls[p], Answer(p, i)
  PROVE  LanguagesAre'
<1>1. PICK c : /\ LeaveIs(p, i, c) /\ c.pc \in {"handled", "failed"}
               /\ page' = IF page[p].pc = "open" THEN [page EXCEPT ![p] = ViewAfter(p, c)] ELSE page
               /\ UNCHANGED <<language, told>>
  BY AnswerMoves
<1>2. CallOK(p, c) /\ UNCHANGED localeVars
  BY <1>1 DEF LeaveIs
<1>3. \A q \in Pages : page'[q].pc = page[q].pc /\ page'[q].language = page[q].language
  BY <1>1, <1>2, PagesAfterAnswer
<1> QED BY <1>1, <1>2, <1>3, LanguagesStay

-----------------------------------------------------------------------------
(* Rules that have been made, settings that wait for each other *)

\* The rules in a view, and those of the calls, are among the first n.
RulesWithin(x, n) == \A r \in RuleIds : x[r] # None => r <= n
RulesUpTo(s, n) == \A j \in DOMAIN s : s[j].rule <= n

\* Only rules that have been made are shown and asked for, so that a new rule is
\* new to everybody.
Known ==
    /\ RulesWithin(rules, created)
    /\ \A p \in Pages : RulesWithin(page[p].rules, created) /\ RulesUpTo(calls[p], created)

\* No setting is done with before an earlier one of its page.
WritesInOrder(s) ==
    \A i, j \in DOMAIN s :
        i < j /\ s[i].pc = "writing" /\ Lane(s[j].op) = "settings" => s[j].pc \in {"writing", "sent"}

\* Calls are those of a page that is shown, or of a popup that has closed since.
OnlyOpen(p) == calls[p] # << >> => page[p].pc = "open" \/ (p = "popup" /\ page[p].pc = "closed")

LinesAre ==
    /\ Known
    /\ \A p \in Pages : WritesInOrder(calls[p]) /\ OnlyOpen(p)

LEMMA OrderLonger ==
  ASSUME NEW s, NEW t, NEW c, Longer(t, s, c), c.pc = "sent", WritesInOrder(s)
  PROVE  WritesInOrder(t)
<1>1. PICK n \in Nat : /\ DOMAIN s = 1..n /\ DOMAIN t = 1..(n + 1)
                       /\ \A j \in 1..n : t[j] = s[j]
                       /\ t[n + 1] = c
  BY DEF Longer
<1> SUFFICES ASSUME NEW i \in 1..(n + 1), NEW j \in 1..(n + 1), i < j, t[i].pc = "writing",
                    Lane(t[j].op) = "settings"
             PROVE  t[j].pc \in {"writing", "sent"}
  BY <1>1 DEF WritesInOrder
<1>2. CASE j = n + 1
  BY <1>1, <1>2
<1>3. CASE j # n + 1
  <2>1. i \in 1..n /\ j \in 1..n
    BY <1>3
  <2> QED BY <1>1, <2>1 DEF WritesInOrder
<1> QED BY <1>2, <1>3

LEMMA OrderShorter ==
  ASSUME NEW s, NEW i \in DOMAIN s, NEW t, Shorter(t, s, i), WritesInOrder(s)
  PROVE  WritesInOrder(t)
<1>1. PICK n \in Nat : /\ DOMAIN s = 1..n /\ DOMAIN t = 1..(n - 1)
                       /\ \A j \in 1..(n - 1) : t[j] = IF j < i THEN s[j] ELSE s[j + 1]
  BY DEF Shorter
<1> SUFFICES ASSUME NEW j \in 1..(n - 1), NEW k \in 1..(n - 1), j < k, t[j].pc = "writing",
                    Lane(t[k].op) = "settings"
             PROVE  t[k].pc \in {"writing", "sent"}
  BY <1>1 DEF WritesInOrder
<1>2. PICK jj, kk : jj = (IF j < i THEN j ELSE j + 1) /\ kk = (IF k < i THEN k ELSE k + 1)
  OBVIOUS
<1>3. jj \in 1..n /\ kk \in 1..n /\ jj < kk
  BY <1>1, <1>2
<1>4. t[j] = s[jj] /\ t[k] = s[kk]
  BY <1>1, <1>2
<1> QED BY <1>1, <1>3, <1>4 DEF WritesInOrder

LEMMA OrderReplaced ==
  ASSUME NEW s, NEW t, NEW i, NEW d, Replaced(t, s, i, d), d.pc # "writing", Lane(d.op) # "settings",
         WritesInOrder(s)
  PROVE  WritesInOrder(t)
<1>1. PICK n \in Nat : /\ DOMAIN s = 1..n /\ DOMAIN t = 1..n /\ i \in 1..n
                       /\ t[i] = d
                       /\ \A j \in 1..n : j # i => t[j] = s[j]
  BY DEF Replaced
<1> SUFFICES ASSUME NEW j \in 1..n, NEW k \in 1..n, j < k, t[j].pc = "writing",
                    Lane(t[k].op) = "settings"
             PROVE  t[k].pc \in {"writing", "sent"}
  BY <1>1 DEF WritesInOrder
<1>2. j # i /\ k # i
  BY <1>1
<1> QED BY <1>1, <1>2 DEF WritesInOrder

LEMMA OrderSetting ==
  ASSUME NEW s, NEW t, NEW i, NEW d, Replaced(t, s, i, d), SentLast(s), WritesInOrder(s),
         s[i].pc = "sent" => d.pc = "writing",
         s[i].pc # "sent" => Oldest(s, i) /\ d.pc # "writing"
  PROVE  WritesInOrder(t)
<1>1. PICK n \in Nat : /\ DOMAIN s = 1..n /\ DOMAIN t = 1..n /\ i \in 1..n
                       /\ t[i] = d
                       /\ \A j \in 1..n : j # i => t[j] = s[j]
  BY DEF Replaced
<1> SUFFICES ASSUME NEW j \in 1..n, NEW k \in 1..n, j < k, t[j].pc = "writing",
                    Lane(t[k].op) = "settings"
             PROVE  t[k].pc \in {"writing", "sent"}
  BY <1>1 DEF WritesInOrder
<1>2. CASE s[i].pc = "sent"
  <2>1. CASE j = i
    <3>1. s[k].pc = "sent" /\ t[k] = s[k]
      BY <1>1, <1>2, <2>1 DEF SentLast
    <3> QED BY <3>1
  <2>2. CASE k = i
    BY <1>1, <1>2, <2>2
  <2>3. CASE j # i /\ k # i
    BY <1>1, <2>3 DEF WritesInOrder
  <2> QED BY <2>1, <2>2, <2>3
<1>3. CASE s[i].pc # "sent"
  <2>1. j # i
    BY <1>1, <1>3
  <2>2. k # i
    <3> SUFFICES ASSUME k = i PROVE FALSE
      OBVIOUS
    <3>1. j \in 1..(i - 1) /\ s[j].pc = "writing"
      BY <1>1, <2>1
    <3> QED BY <1>3, <3>1 DEF Oldest
  <2> QED BY <1>1, <2>1, <2>2 DEF WritesInOrder
<1> QED BY <1>2, <1>3

LEMMA RuleNumbers ==
  ASSUME BackgroundTyped
  PROVE  created \in Nat /\ RuleIds \subseteq Nat /\ \A r \in RuleIds : 1 <= r
<1>1. PICK n \in Nat : n = Cardinality(RuleIds) /\ RuleIds = 1..n
  BY PageAssumption, FS_CardinalityType
<1>2. created \in 0..n
  BY <1>1 DEF BackgroundTyped
<1> QED BY <1>1, <1>2

\* Which rules a call makes or leaves alone.
LEMMA RulesAfterIs ==
  ASSUME BackgroundTyped, NEW p, NEW c, CallOK(p, c), NEW new,
         NEW after, after = RulesAfter(c, new)
  PROVE  /\ c.op \in {"add", "copy"} => \A r \in RuleIds : r # new => after[r] = rules[r]
         /\ c.op \notin {"add", "copy"} =>
               \A r \in RuleIds : /\ after[r] # None => rules[r] # None
                                  /\ r # c.rule => after[r] = rules[r]
         /\ c.op \notin {"add", "copy", "update", "file", "switch", "remove"} => after = rules
<1>1. /\ rules \in [RuleIds -> {None} \cup RuleRecords]
      /\ c.op \in {"update", "file", "switch", "remove"} => c.rule \in RuleIds
  BY DEF BackgroundTyped, CallOK
<1>2. CASE c.op \in {"add", "copy"}
  <2>1. after = [rules EXCEPT ![new] = [site |-> c.site, on |-> c.value, js |-> TRUE, css |-> TRUE]]
    BY <1>2 DEF RulesAfter
  <2> QED BY <1>1, <1>2, <2>1
<1>3. CASE c.op = "update" /\ rules[c.rule] # None
  <2>1. after = [rules EXCEPT ![c.rule].site = c.site]
    BY <1>3 DEF RulesAfter
  <2> QED BY <1>1, <1>3, <2>1
<1>4. CASE c.op = "file" /\ rules[c.rule] # None
  <2>1. after = [rules EXCEPT ![c.rule][c.what] = c.value]
    BY <1>4 DEF RulesAfter
  <2> QED BY <1>1, <1>4, <2>1
<1>5. CASE c.op = "switch" /\ rules[c.rule] # None
  <2>1. after = [rules EXCEPT ![c.rule].on = c.value]
    BY <1>5 DEF RulesAfter
  <2> QED BY <1>1, <1>5, <2>1
<1>6. CASE c.op = "remove"
  <2>1. after = [rules EXCEPT ![c.rule] = None]
    BY <1>6 DEF RulesAfter
  <2> QED BY <1>1, <1>6, <2>1
<1>7. CASE ~(c.op \in {"add", "copy"}) /\ c.op # "remove"
           /\ ~(c.op \in {"update", "file", "switch"} /\ rules[c.rule] # None)
  <2>1. after = rules
    BY <1>7 DEF RulesAfter
  <2> QED BY <1>1, <1>7, <2>1
<1> QED BY <1>2, <1>3, <1>4, <1>5, <1>6, <1>7

LEMMA WithinAfter ==
  ASSUME NEW x \in [RuleIds -> {None} \cup RuleRecords], NEW p, NEW c, NEW n,
         RulesWithin(x, n), c.rule <= n
  PROVE  RulesWithin(After(p, "rules", x, c), n)
<1>1. PICK a : a = After(p, "rules", x, c)
  OBVIOUS
<1>2. \/ a = x \/ \E e : a = [x EXCEPT ![c.rule] = e]
  BY <1>1 DEF After, RuleStep
<1> SUFFICES ASSUME NEW r \in RuleIds, a[r] # None PROVE r <= n
  BY <1>1 DEF RulesWithin
<1>3. r = c.rule \/ a[r] = x[r]
  BY <1>2
<1> QED BY <1>3 DEF RulesWithin

LEMMA HandledFields ==
  ASSUME NEW c \in CallRecords, NEW id, NEW reply, NEW d, d = Handled(c, id, reply)
  PROVE  /\ d.pc = "handled" /\ d.rule = id /\ d.reply = reply
         /\ d.op = c.op /\ d.site = c.site /\ d.value = c.value /\ d.what = c.what
BY DEF Handled, CallRecords

\* Nothing of this changes.
LEMMA LinesStay ==
  ASSUME LinesAre, UNCHANGED <<rules, created, calls, page>>
  PROVE  LinesAre'
BY DEF LinesAre, Known, OnlyOpen

\* A page opens, is told, is shown or closes.
LEMMA LinesOpen ==
  ASSUME LinesAre, UNCHANGED <<rules, created, calls>>,
         \A p \in Pages : RulesWithin(page'[p].rules, created) /\ (OnlyOpen(p) => OnlyOpen(p)')
  PROVE  LinesAre'
BY DEF LinesAre, Known

LEMMA LinesSend ==
  ASSUME IInv, LinesAre, NEW p \in Pages, NEW call, CallOK(p, call), call.pc = "sent",
         Send(p, call), call.rule <= created
  PROVE  LinesAre'
<1>1. /\ Longer(calls'[p], calls[p], call) /\ OthersSame(p)
      /\ page[p].pc = "open"
      /\ UNCHANGED <<rules, created, page>>
  BY SendMoves DEF background
<1>2. WritesInOrder(calls'[p])
  BY <1>1, OrderLonger DEF LinesAre
<1>3. RulesUpTo(calls'[p], created)
  <2>1. PICK n \in Nat : /\ DOMAIN calls[p] = 1..n /\ DOMAIN calls'[p] = 1..(n + 1)
                         /\ \A j \in 1..n : calls'[p][j] = calls[p][j]
                         /\ calls'[p][n + 1] = call
    BY <1>1 DEF Longer
  <2>2. \A j \in 1..(n + 1) : j \in 1..n \/ j = n + 1
    OBVIOUS
  <2> QED BY <2>1, <2>2 DEF RulesUpTo, LinesAre, Known
<1> QED BY <1>1, <1>2, <1>3 DEF LinesAre, Known, OnlyOpen, OthersSame

LEMMA LinesHandle ==
  ASSUME IInv, LinesAre, NEW p \in Pages, NEW i \in DOMAIN calls[p], NEW c, NEW d, HandleIs(p, i, c, d)
  PROVE  LinesAre'
<1>1. /\ c = calls[p][i] /\ CallOK(p, c) /\ c \in CallRecords
      /\ c.op \notin {"pause", "language"}
      /\ created' = IF c.op \in {"add", "copy"} THEN created + 1 ELSE created
      /\ rules' = RulesAfter(c, created + 1)
      /\ d = Handled(c, RuleOf(c), IF RuleOf(c) = 0 THEN None ELSE rules'[RuleOf(c)])
      /\ Replaced(calls'[p], calls[p], i, d) /\ OthersSame(p)
      /\ page' = page
  BY DEF HandleIs, CallOK
<1>2. /\ BackgroundTyped /\ created \in Nat /\ RuleIds \subseteq Nat /\ created' \in Nat
      /\ created <= created'
  BY <1>1, RuleNumbers DEF IInv
<1>3. d.pc = "handled" /\ d.op = c.op /\ d.rule = RuleOf(c)
  BY <1>1, HandledFields
<1>4. WritesInOrder(calls'[p])
  <2>1. d.pc # "writing" /\ Lane(d.op) # "settings"
    BY <1>1, <1>3 DEF Lane
  <2> QED BY <1>1, <2>1, OrderReplaced DEF LinesAre
<1>5. \A q \in Pages : \A j \in DOMAIN calls[q] : calls[q][j].rule \in Nat /\ calls[q][j].rule <= created'
  <2> SUFFICES ASSUME NEW q \in Pages, NEW j \in DOMAIN calls[q]
               PROVE  calls[q][j].rule \in Nat /\ calls[q][j].rule <= created'
    OBVIOUS
  <2>1. calls[q][j] \in CallRecords /\ calls[q][j].rule <= created
    BY DEF IInv, CallsInv, LineInv, CallOK, LinesAre, Known, RulesUpTo
  <2>2. calls[q][j].rule \in {0} \cup RuleIds
    BY <2>1 DEF CallRecords
  <2>3. calls[q][j].rule \in Nat
    <3>1. RuleIds \subseteq Nat /\ 0 \in Nat
      BY <1>2
    <3> QED BY <2>2, <3>1, Zenon
  <2> QED BY <1>2, <2>1, <2>3
<1>6. d.rule <= created'
  BY <1>1, <1>2, <1>3, <1>5 DEF RuleOf
<1>7. RulesUpTo(calls'[p], created')
  <2>1. PICK n \in Nat : /\ DOMAIN calls[p] = 1..n /\ DOMAIN calls'[p] = 1..n
                         /\ calls'[p][i] = d
                         /\ \A j \in 1..n : j # i => calls'[p][j] = calls[p][j]
    BY <1>1 DEF Replaced
  <2> QED BY <1>5, <1>6, <2>1 DEF RulesUpTo
<1>8. \A x : RulesWithin(x, created) => RulesWithin(x, created')
  BY <1>2 DEF RulesWithin
<1>9. RulesWithin(rules', created')
  <2> SUFFICES ASSUME NEW r \in RuleIds, rules'[r] # None PROVE r <= created'
    BY DEF RulesWithin
  <2>1. \/ c.op \in {"add", "copy"} /\ (r # created + 1 => rules'[r] = rules[r])
        \/ c.op \notin {"add", "copy"} /\ rules[r] # None
    BY <1>1, <1>2, RulesAfterIs
  <2>2. rules[r] # None => r <= created'
    BY <1>2, <1>8 DEF LinesAre, Known, RulesWithin
  <2> QED BY <1>1, <1>2, <2>1, <2>2
<1>10. \A q \in Pages : RulesWithin(page'[q].rules, created') /\ RulesUpTo(calls'[q], created')
  BY <1>1, <1>5, <1>7, <1>8 DEF LinesAre, Known, OthersSame, RulesUpTo
<1>11. \A q \in Pages : WritesInOrder(calls'[q]) /\ OnlyOpen(q)'
  <2>1. calls[p] # << >>
    OBVIOUS
  <2> QED BY <1>1, <1>4, <2>1 DEF LinesAre, OnlyOpen, OthersSame
<1> QED BY <1>9, <1>10, <1>11 DEF LinesAre, Known

LEMMA LinesSetting ==
  ASSUME IInv, LinesAre, NEW p \in Pages, NEW i \in DOMAIN calls[p], NEW c, NEW d, SettingIs(p, i, c, d)
  PROVE  LinesAre'
<1>1. /\ c = calls[p][i] /\ Goes(c, d, d.pc)
      /\ c.pc \in {"sent", "writing"} /\ d.pc \in {"writing", "handled", "failed"}
      /\ c.pc = "writing" => Oldest(calls[p], i) /\ d.pc \in {"handled", "failed"}
      /\ c.pc = "sent" => d.pc = "writing"
      /\ Replaced(calls'[p], calls[p], i, d) /\ OthersSame(p)
      /\ UNCHANGED <<rules, created, page>>
  BY DEF SettingIs
<1>2. WritesInOrder(calls'[p])
  <2>1. SentLast(calls[p]) /\ WritesInOrder(calls[p])
    BY DEF IInv, CallsInv, LineInv, LinesAre
  <2>2. /\ calls[p][i].pc = "sent" => d.pc = "writing"
        /\ calls[p][i].pc # "sent" => Oldest(calls[p], i) /\ d.pc # "writing"
    BY <1>1
  <2> QED BY <1>1, <2>1, <2>2, OrderSetting
<1>3. RulesUpTo(calls'[p], created)
  <2>1. PICK n \in Nat : /\ DOMAIN calls[p] = 1..n /\ DOMAIN calls'[p] = 1..n
                         /\ calls'[p][i] = d
                         /\ \A j \in 1..n : j # i => calls'[p][j] = calls[p][j]
    BY <1>1 DEF Replaced
  <2>2. d.rule = calls[p][i].rule
    BY <1>1 DEF Goes
  <2> QED BY <2>1, <2>2 DEF RulesUpTo, LinesAre, Known
<1>4. calls[p] # << >>
  OBVIOUS
<1> QED BY <1>1, <1>2, <1>3, <1>4 DEF LinesAre, Known, OnlyOpen, OthersSame

LEMMA LinesLeave ==
  ASSUME IInv, LinesAre, NEW p \in Pages, NEW i \in DOMAIN calls[p], NEW c, LeaveIs(p, i, c),
         \A q \in Pages : page'[q].pc = page[q].pc /\ RulesWithin(page'[q].rules, created)
  PROVE  LinesAre'
<1>1. /\ Shorter(calls'[p], calls[p], i) /\ OthersSame(p)
      /\ UNCHANGED <<rules, created>>
  BY DEF LeaveIs, background
<1>2. WritesInOrder(calls'[p])
  BY <1>1, OrderShorter DEF LinesAre
<1>3. RulesUpTo(calls'[p], created)
  <2>1. Among(calls'[p], calls[p])
    BY <1>1, ShorterKeeps DEF IInv, CallsInv, LineInv
  <2> QED BY <2>1 DEF Among, RulesUpTo, LinesAre, Known
<1>4. calls[p] # << >>
  OBVIOUS
<1> QED BY <1>1, <1>2, <1>3, <1>4 DEF LinesAre, Known, OnlyOpen, OthersSame

-----------------------------------------------------------------------------
(* The view of the options page *)

\* A page that was told, and nobody else has changed anything since.
Live(p) == page[p].pc \in {"told", "localizing", "open"} /\ ~behind[p]

\* A switch of rule r takes effect at m, and its answer is not there yet.
SwitchedAt(s, m, r) == s[m].op = "switch" /\ s[m].rule = r /\ s[m].pc = "handled"

\* The answer to a switch turns the row over, whatever was asked for.  That comes
\* to the same as long as, between two switches of it, each row of the story is
\* as on as its rule is.
OnsAgree(s, b) ==
    \A j \in Nat \ {0} : \A r \in RuleIds :
        b[j][r] # None =>
            /\ r <= created
            /\ rules[r] # None /\ (\A m \in DOMAIN s : j <= m => ~SwitchedAt(s, m, r)) =>
                  b[j][r].on = rules[r].on

\* No switch was clicked twice, and each asks for what its rule is not.
SwitchesApart(s) ==
    \A i, j \in DOMAIN s : s[i].op = "switch" /\ s[j].op = "switch" /\ s[i].rule = s[j].rule => i = j
SwitchesAsk(s) ==
    \A i \in DOMAIN s :
        s[i].op = "switch" /\ s[i].pc = "sent" /\ rules[s[i].rule] # None =>
            s[i].value = ~rules[s[i].rule].on

RulesStory(s, b) ==
    /\ Story("options", "rules", s, b, page["options"].rules, rules)
    /\ OnsAgree(s, b) /\ SwitchesApart(s) /\ SwitchesAsk(s)

SettingsTold(p) == Told(p, "settings", calls[p], page[p].enabled, enabled)

OptionsTold ==
    Live("options") =>
        /\ SettingsTold("options")
        /\ ~twice => \E b : RulesStory(calls["options"], b)

LEMMA OptionsStay ==
  ASSUME OptionsTold, UNCHANGED <<rules, created, enabled, twice>>,
         Live("options")' =>
            /\ Live("options") /\ calls'["options"] = calls["options"]
            /\ page'["options"].rules = page["options"].rules
            /\ page'["options"].enabled = page["options"].enabled
  PROVE  OptionsTold'
<1>1. SUFFICES ASSUME Live("options")'
               PROVE  SettingsTold("options")' /\ (~twice' => \E b : RulesStory(calls["options"], b)')
  BY DEF OptionsTold
<1>2. /\ SettingsTold("options")
      /\ ~twice => \E b : RulesStory(calls["options"], b)
      /\ calls'["options"] = calls["options"]
      /\ page'["options"].rules = page["options"].rules
      /\ page'["options"].enabled = page["options"].enabled
  BY <1>1 DEF OptionsTold
<1>3. SettingsTold("options")'
  BY <1>2 DEF SettingsTold
<1>4. ASSUME ~twice' PROVE \E b : RulesStory(calls["options"], b)'
  <2>1. PICK b : RulesStory(calls["options"], b)
    BY <1>2, <1>4
  <2>2. RulesStory(calls["options"], b)'
    BY <1>2, <2>1 DEF RulesStory, OnsAgree, SwitchesAsk
  <2> QED BY <2>2
<1> QED BY <1>3, <1>4

\* The page is told.
OptionsAsIs ==
    /\ Known /\ calls["options"] = << >>
    /\ page["options"].rules = rules /\ page["options"].enabled = enabled

LEMMA OptionsBegin == OptionsAsIs => OptionsTold
<1> SUFFICES ASSUME OptionsAsIs PROVE OptionsTold
  OBVIOUS
<1> USE DEF OptionsAsIs
<1>1. SettingsTold("options")
  <2>1. Story("options", "settings", << >>, [j \in Nat |-> enabled], enabled, enabled)
    BY EmptyStory
  <2> QED BY <2>1 DEF SettingsTold, Told
<1>2. PICK b : b = [j \in Nat |-> rules]
  OBVIOUS
<1>3. Story("options", "rules", calls["options"], b, page["options"].rules, rules)
  BY <1>2, EmptyStory
<1>4. OnsAgree(calls["options"], b)
  <2>1. \A j \in Nat : b[j] = rules
    BY <1>2
  <2> QED BY <2>1 DEF OnsAgree, Known, RulesWithin
<1>5. SwitchesApart(calls["options"]) /\ SwitchesAsk(calls["options"])
  BY DEF SwitchesApart, SwitchesAsk
<1> QED BY <1>1, <1>3, <1>4, <1>5 DEF OptionsTold, RulesStory

\* A click of the options page.
LEMMA OptionsSend ==
  ASSUME IInv, LinesAre, OptionsTold, NEW call, CallOK("options", call), call.pc = "sent",
         Send("options", call), twice => twice',
         call.op = "switch" /\ ~twice' =>
            /\ InView("options", call.rule) /\ call.value = ~page["options"].rules[call.rule].on
            /\ \A j \in DOMAIN calls["options"] :
                  ~(calls["options"][j].op = "switch" /\ calls["options"][j].rule = call.rule)
  PROVE  OptionsTold'
<1>1. "options" \in Pages
  BY DEF Pages
<1>2. /\ Longer(calls'["options"], calls["options"], call)
      /\ UNCHANGED <<rules, created, enabled, page, behind>>
  BY <1>1, SendMoves DEF background
<1>3. PICK s, t : s = calls["options"] /\ t = calls'["options"]
  OBVIOUS
<1>4. PICK n \in Nat : /\ DOMAIN s = 1..n /\ DOMAIN t = 1..(n + 1)
                       /\ \A j \in 1..n : t[j] = s[j]
                       /\ t[n + 1] = call
  BY <1>2, <1>3 DEF Longer
<1>5. SUFFICES ASSUME Live("options")
               PROVE  SettingsTold("options")' /\ (~twice' => \E b : RulesStory(calls["options"], b)')
  BY <1>2 DEF OptionsTold, Live
<1>6. SettingsTold("options") /\ (~twice => \E b : RulesStory(s, b))
  BY <1>3, <1>5 DEF OptionsTold
<1>7. SettingsTold("options")'
  <2>1. PICK b : Story("options", "settings", s, b, page["options"].enabled, enabled)
    BY <1>3, <1>6 DEF SettingsTold, Told
  <2>2. Story("options", "settings", t, b, page["options"].enabled, enabled)
    BY <1>2, <1>3, <2>1, StoryLonger
  <2> QED BY <1>2, <1>3, <2>2 DEF SettingsTold, Told
<1>8. ASSUME ~twice' PROVE \E b : RulesStory(calls["options"], b)'
  <2>1. PICK b : RulesStory(s, b)
    BY <1>6, <1>8
  <2>2. Story("options", "rules", t, b, page["options"].rules, rules)
    <3>1. Story("options", "rules", s, b, page["options"].rules, rules)
      BY <2>1 DEF RulesStory
    <3> QED BY <1>2, <1>3, <3>1, StoryLonger
  <2>3. OnsAgree(t, b)
    <3> SUFFICES ASSUME NEW j \in Nat \ {0}, NEW r \in RuleIds, b[j][r] # None
                 PROVE  /\ r <= created
                        /\ rules[r] # None /\ (\A m \in DOMAIN t : j <= m => ~SwitchedAt(t, m, r)) =>
                              b[j][r].on = rules[r].on
      BY DEF OnsAgree
    <3>1. \A m \in DOMAIN s : m \in DOMAIN t /\ t[m] = s[m]
      BY <1>4
    <3>2. (\A m \in DOMAIN t : j <= m => ~SwitchedAt(t, m, r)) =>
              \A m \in DOMAIN s : j <= m => ~SwitchedAt(s, m, r)
      BY <3>1 DEF SwitchedAt
    <3> QED BY <2>1, <3>2 DEF RulesStory, OnsAgree
  <2>4. SwitchesApart(t)
    <3> SUFFICES ASSUME NEW j \in 1..(n + 1), NEW k \in 1..(n + 1),
                        t[j].op = "switch", t[k].op = "switch", t[j].rule = t[k].rule
                 PROVE  j = k
      BY <1>4 DEF SwitchesApart
    <3>1. CASE j \in 1..n /\ k \in 1..n
      BY <1>4, <2>1, <3>1 DEF RulesStory, SwitchesApart
    <3>2. CASE j \in 1..n /\ k = n + 1
      BY <1>3, <1>4, <1>8, <3>2
    <3>3. CASE j = n + 1 /\ k \in 1..n
      BY <1>3, <1>4, <1>8, <3>3
    <3>4. (j \in 1..n \/ j = n + 1) /\ (k \in 1..n \/ k = n + 1)
      OBVIOUS
    <3> QED BY <3>1, <3>2, <3>3, <3>4
  <2>5. SwitchesAsk(t)
    <3> SUFFICES ASSUME NEW k \in 1..(n + 1), t[k].op = "switch", t[k].pc = "sent",
                        rules[t[k].rule] # None
                 PROVE  t[k].value = ~rules[t[k].rule].on
      BY <1>4 DEF SwitchesAsk
    <3>1. CASE k \in 1..n
      BY <1>4, <2>1, <3>1 DEF RulesStory, SwitchesAsk
    <3>2. CASE k = n + 1
      <4>1. PICK r \in RuleIds : r = call.rule
        BY <1>4, <3>2 DEF CallOK
      <4>2. b[1] = page["options"].rules /\ b[1][r] # None
        BY <1>4, <1>8, <2>1, <3>2, <4>1 DEF RulesStory, Story, InView
      <4>3. \A m \in DOMAIN s : ~SwitchedAt(s, m, r)
        BY <1>3, <1>4, <1>8, <3>2, <4>1 DEF SwitchedAt
      <4>4. b[1][r].on = rules[r].on
        BY <1>4, <2>1, <3>2, <4>1, <4>2, <4>3 DEF RulesStory, OnsAgree
      <4> QED BY <1>4, <1>8, <3>2, <4>1, <4>2, <4>4
    <3> QED BY <3>1, <3>2
  <2>6. RulesStory(calls["options"], b)'
    <3>1. OnsAgree(t, b)' /\ SwitchesAsk(t)'
      BY <1>2, <2>3, <2>5 DEF OnsAgree, SwitchesAsk
    <3>2. Story("options", "rules", t, b, page'["options"].rules, rules')
      BY <1>2, <2>2
    <3> QED BY <1>3, <2>4, <3>1, <3>2 DEF RulesStory, OnsAgree, SwitchesAsk, SwitchedAt
  <2> QED BY <2>6
<1> QED BY <1>7, <1>8


\* What the answer will make of the rules is what the call made of them.
LEMMA AnswerIsEffect ==
  ASSUME BackgroundTyped, NEW i, NEW c, NEW d, HandleIs("options", i, c, d),
         c.op = "switch" /\ rules[c.rule] # None => c.value = ~rules[c.rule].on
  PROVE  After("options", "rules", rules, d) = rules'
<1>1. /\ CallOK("options", c) /\ c \in CallRecords
      /\ c.op \in {"add", "copy"} => created + 1 \in RuleIds
      /\ rules' = RulesAfter(c, created + 1)
      /\ d = Handled(c, RuleOf(c), IF RuleOf(c) = 0 THEN None ELSE rules'[RuleOf(c)])
      /\ c.op \notin {"pause", "language"}
  BY DEF HandleIs, CallOK
<1>2. PICK new, id, reply :
        /\ new = created + 1 /\ id = RuleOf(c)
        /\ reply = IF id = 0 THEN None ELSE rules'[id]
  OBVIOUS
<1>3. d.pc = "handled" /\ d.rule = id /\ d.reply = reply /\ d.op = c.op
  BY <1>1, <1>2, HandledFields
<1>4. /\ rules \in [RuleIds -> {None} \cup RuleRecords]
      /\ c.op \in {"update", "file", "switch", "remove"} => c.rule \in RuleIds
      /\ c.op # "site" /\ c.op \in Ops
      /\ rules' = RulesAfter(c, new)
  BY <1>1, <1>2 DEF BackgroundTyped, CallOK, CallRecords
<1>5. After("options", "rules", rules, d) = RuleStep("options", rules, d)
  BY <1>1, <1>3, <1>4 DEF After, Counts, Lane
<1>6. CASE c.op \in {"add", "copy"}
  <2>1. id = new /\ new \in RuleIds /\ id # 0
    BY <1>1, <1>2, <1>6, NoneIsNoRule DEF RuleOf
  <2>2. PICK x : x = [site |-> c.site, on |-> c.value, js |-> TRUE, css |-> TRUE]
    OBVIOUS
  <2>3. rules' = [rules EXCEPT ![new] = x]
    BY <1>4, <1>6, <2>2 DEF RulesAfter
  <2>4. reply = x
    BY <1>2, <1>4, <2>1, <2>3
  <2>5. RuleStep("options", rules, d) = [rules EXCEPT ![new] = x]
    BY <1>3, <1>6, <2>1, <2>4 DEF RuleStep
  <2> QED BY <1>5, <2>3, <2>5
<1>7. CASE c.op = "remove"
  <2>1. id = c.rule
    BY <1>2, <1>7 DEF RuleOf
  <2>2. rules' = [rules EXCEPT ![c.rule] = None]
    BY <1>4, <1>7 DEF RulesAfter
  <2>3. RuleStep("options", rules, d) = [rules EXCEPT ![c.rule] = None]
    BY <1>3, <1>7, <2>1 DEF RuleStep
  <2> QED BY <1>5, <2>2, <2>3
<1>8. CASE c.op = "switch"
  <2>1. id = c.rule /\ c.rule \in RuleIds
    BY <1>2, <1>4, <1>8 DEF RuleOf
  <2>2. CASE rules[c.rule] = None
    <3>1. rules' = rules
      BY <1>4, <1>8, <2>2 DEF RulesAfter
    <3>2. RuleStep("options", rules, d) = rules
      BY <1>3, <1>8, <2>1, <2>2 DEF RuleStep
    <3> QED BY <1>5, <3>1, <3>2
  <2>3. CASE rules[c.rule] # None
    <3>1. rules' = [rules EXCEPT ![c.rule].on = c.value]
      BY <1>4, <1>8, <2>3 DEF RulesAfter
    <3>2. RuleStep("options", rules, d) = [rules EXCEPT ![c.rule].on = ~@]
      BY <1>3, <1>8, <2>1, <2>3 DEF RuleStep
    <3>3. PICK value, y : value = c.value /\ y = rules[c.rule] /\ value = ~y.on
      BY <1>8, <2>3
    <3>4. rules' = [rules EXCEPT ![c.rule] = [y EXCEPT !.on = value]]
      BY <1>4, <2>1, <3>1, <3>3
    <3>5. RuleStep("options", rules, d) = [rules EXCEPT ![c.rule] = [y EXCEPT !.on = value]]
      BY <1>4, <2>1, <3>2, <3>3
    <3> QED BY <1>5, <3>4, <3>5
  <2> QED BY <2>2, <2>3
<1>9. CASE c.op \in {"update", "file"}
  <2>1. id = c.rule /\ c.rule \in RuleIds /\ id # 0
    BY <1>2, <1>4, <1>9, NoneIsNoRule DEF RuleOf
  <2>2. reply = rules'[c.rule]
    BY <1>2, <2>1
  <2>3. RuleStep("options", rules, d) =
           IF reply = None \/ rules[c.rule] = None THEN rules ELSE [rules EXCEPT ![c.rule] = reply]
    BY <1>3, <1>9, <2>1 DEF RuleStep
  <2>4. CASE rules[c.rule] = None
    <3>1. rules' = rules
      BY <1>4, <1>9, <2>4 DEF RulesAfter
    <3> QED BY <1>5, <2>3, <2>4, <3>1
  <2>5. CASE rules[c.rule] # None
    <3>1. PICK x : rules' = [rules EXCEPT ![c.rule] = x]
      <4>1. CASE c.op = "update"
        <5>1. rules' = [rules EXCEPT ![c.rule].site = c.site]
          BY <1>4, <2>5, <4>1 DEF RulesAfter
        <5> QED BY <5>1
      <4>2. CASE c.op = "file"
        <5>1. rules' = [rules EXCEPT ![c.rule][c.what] = c.value]
          BY <1>4, <2>5, <4>2 DEF RulesAfter
        <5> QED BY <5>1
      <4> QED BY <1>9, <4>1, <4>2
    <3>2. reply = x
      BY <1>4, <2>1, <2>2, <3>1
    <3>3. rules'[c.rule] # None
      <4>1. rules'[c.rule] \in RuleRecords
        <5>1. PICK y \in RuleRecords : y = rules[c.rule]
          BY <1>4, <2>1, <2>5
        <5>2. c.op = "update" => c.site \in Sites
          BY <1>1 DEF CallOK
        <5>3. c.op = "file" => c.what \in Kinds
          BY <1>1 DEF CallOK
        <5>4. c.value \in BOOLEAN
          BY <1>1 DEF CallRecords
        <5>5. CASE c.op = "update"
          <6>1. rules' = [rules EXCEPT ![c.rule].site = c.site]
            BY <1>4, <2>5, <5>5 DEF RulesAfter
          <6>2. rules'[c.rule] = [y EXCEPT !.site = c.site]
            BY <1>4, <2>1, <5>1, <6>1
          <6> QED BY <5>2, <5>5, <6>2 DEF RuleRecords
        <5>6. CASE c.op = "file"
          <6>1. rules' = [rules EXCEPT ![c.rule][c.what] = c.value]
            BY <1>4, <2>5, <5>6 DEF RulesAfter
          <6>2. rules'[c.rule] = [y EXCEPT ![c.what] = c.value]
            BY <1>4, <2>1, <5>1, <6>1
          <6> QED BY <5>3, <5>4, <5>6, <6>2 DEF RuleRecords, Kinds
        <5> QED BY <1>9, <5>5, <5>6
      <4> QED BY <4>1, NoneIsNoRule
    <3> QED BY <1>5, <2>2, <2>3, <2>5, <3>1, <3>2, <3>3
  <2> QED BY <2>4, <2>5
<1> QED BY <1>1, <1>4, <1>6, <1>7, <1>8, <1>9 DEF Ops


\* Only a switch turns a rule on or off.
LEMMA OnsAfter ==
  ASSUME BackgroundTyped, NEW p, NEW c, CallOK(p, c), NEW new, NEW after, after = RulesAfter(c, new),
         NEW r \in RuleIds, after[r] # None, c.op \in {"add", "copy"} => r # new
  PROVE  /\ rules[r] # None
         /\ ~(c.op = "switch" /\ c.rule = r) => after[r].on = rules[r].on
         /\ c.op # "update" => after[r].site = rules[r].site
<1>1. /\ rules \in [RuleIds -> {None} \cup RuleRecords]
      /\ c.op \in {"update", "file", "switch", "remove"} => c.rule \in RuleIds
      /\ c.op = "file" => c.what \in Kinds
  BY DEF BackgroundTyped, CallOK
<1>2. rules[r] # None
  BY RulesAfterIs
<1>3. PICK y \in RuleRecords : y = rules[r]
  BY <1>1, <1>2
<1>4. CASE after[r] = rules[r]
  BY <1>2, <1>4
<1>5. CASE after[r] # rules[r]
  <2>1. c.rule = r /\ c.op \in {"update", "file", "switch", "remove"}
    BY <1>5, RulesAfterIs
  <2>2. c.op # "remove"
    <3> SUFFICES ASSUME c.op = "remove" PROVE FALSE
      OBVIOUS
    <3>1. after = [rules EXCEPT ![r] = None]
      BY <2>1 DEF RulesAfter
    <3> QED BY <1>1, <3>1
  <2>3. CASE c.op = "update"
    <3>1. after = [rules EXCEPT ![r].site = c.site]
      BY <1>2, <2>1, <2>3 DEF RulesAfter
    <3>2. after[r] = [y EXCEPT !.site = c.site]
      BY <1>1, <1>3, <3>1
    <3>3. after[r].on = y.on
      BY <3>2 DEF RuleRecords
    <3> QED BY <1>2, <1>3, <2>3, <3>3
  <2>4. CASE c.op = "file"
    <3>1. after = [rules EXCEPT ![r][c.what] = c.value]
      BY <1>2, <2>1, <2>4 DEF RulesAfter
    <3>2. after[r] = [y EXCEPT ![c.what] = c.value] /\ c.what \in Kinds
      BY <1>1, <1>3, <2>4, <3>1
    <3>3. after[r].on = y.on /\ after[r].site = y.site
      BY <3>2 DEF RuleRecords, Kinds
    <3> QED BY <1>2, <1>3, <3>3
  <2>5. CASE c.op = "switch"
    <3>1. after = [rules EXCEPT ![r].on = c.value]
      BY <1>2, <2>1, <2>5 DEF RulesAfter
    <3>2. after[r] = [y EXCEPT !.on = c.value]
      BY <1>1, <1>3, <3>1
    <3>3. after[r].site = y.site
      BY <3>2 DEF RuleRecords
    <3> QED BY <1>2, <1>3, <2>1, <2>5, <3>3
  <2> QED BY <2>1, <2>2, <2>3, <2>4, <2>5
<1> QED BY <1>4, <1>5

\* Nothing behind a call that is handled now is further than it was.
LEMMA NoneAfterSent ==
  ASSUME NEW s, CallSeq(s), SentLast(s), NEW i \in DOMAIN s, s[i].pc = "sent", NEW lane
  PROVE  NoneFrom(s, lane, i)
<1>1. PICK n \in Nat : DOMAIN s = 1..n
  BY CallPlaces
<1>2. \A j \in i..n : s[j].pc = "sent"
  <2> SUFFICES ASSUME NEW j \in i..n PROVE s[j].pc = "sent"
    OBVIOUS
  <2>1. j \in 1..n /\ (j = i \/ i < j)
    BY <1>1
  <2> QED BY <1>1, <2>1 DEF SentLast
<1>3. i \in 1..(n + 1)
  BY <1>1
<1> QED BY <1>1, <1>2, <1>3 DEF NoneFrom, Counts

\* The rules of the options page, when one of its calls is handled.
LEMMA HandledOns ==
  ASSUME BackgroundTyped, BackgroundTyped', NEW i, NEW c, NEW d, HandleIs("options", i, c, d),
         RulesWithin(rules', created'),
         NEW s, NEW t, Replaced(t, s, i, d), s[i] = c,
         NEW b, OnsAgree(s, b), NEW e, e = Raised(b, i, rules')
  PROVE  OnsAgree(t, e)'
<1>1. /\ CallOK("options", c) /\ c \in CallRecords /\ c.pc = "sent"
      /\ created' = IF c.op \in {"add", "copy"} THEN created + 1 ELSE created
      /\ rules' = RulesAfter(c, created + 1)
      /\ d = Handled(c, RuleOf(c), IF RuleOf(c) = 0 THEN None ELSE rules'[RuleOf(c)])
  BY DEF HandleIs, CallOK
<1>2. d.pc = "handled" /\ d.op = c.op /\ d.rule = RuleOf(c)
  BY <1>1, HandledFields
<1>3. PICK n \in Nat : /\ DOMAIN s = 1..n /\ DOMAIN t = 1..n /\ i \in 1..n
                       /\ t[i] = d
                       /\ \A j \in 1..n : j # i => t[j] = s[j]
  BY DEF Replaced
<1>4. created \in Nat /\ created' \in Nat /\ RuleIds \subseteq Nat
  <2>1. created \in Nat /\ RuleIds \subseteq Nat
    BY RuleNumbers
  <2> QED BY <1>1, <2>1
<1>5. \A j \in Nat : e[j] = IF j <= i THEN b[j] ELSE rules'
  BY DEF Raised
<1> SUFFICES ASSUME NEW j \in Nat \ {0}, NEW r \in RuleIds, e[j][r] # None
             PROVE  /\ r <= created'
                    /\ rules'[r] # None /\ (\A m \in DOMAIN t : j <= m => ~SwitchedAt(t, m, r)) =>
                          e[j][r].on = rules'[r].on
  BY DEF OnsAgree, SwitchedAt
<1>6. CASE ~(j <= i)
  BY <1>5, <1>6 DEF RulesWithin
<1>7. CASE j <= i
  <2>1. e[j] = b[j] /\ b[j][r] # None
    BY <1>5, <1>7
  <2>2. r <= created /\ r \in Nat
    BY <1>4, <2>1 DEF OnsAgree
  <2>3. r <= created'
    BY <1>1, <1>4, <2>2
  <2>4. ASSUME rules'[r] # None, \A m \in DOMAIN t : j <= m => ~SwitchedAt(t, m, r)
        PROVE  e[j][r].on = rules'[r].on
    <3>1. ~(c.op = "switch" /\ c.rule = r)
      <4>1. ~SwitchedAt(t, i, r)
        BY <1>3, <1>7, <2>4
      <4> QED BY <1>2, <1>3, <4>1 DEF SwitchedAt, RuleOf
    <3>2. \A m \in DOMAIN s : j <= m => ~SwitchedAt(s, m, r)
      <4> SUFFICES ASSUME NEW m \in 1..n, j <= m, SwitchedAt(s, m, r) PROVE FALSE
        BY <1>3
      <4>1. m # i
        BY <1>1 DEF SwitchedAt
      <4>2. SwitchedAt(t, m, r)
        BY <1>3, <4>1 DEF SwitchedAt
      <4> QED BY <1>3, <2>4, <4>2
    <3>3. r # created + 1
      BY <1>4, <2>2
    <3>4. PICK after : after = rules'
      OBVIOUS
    <3>5. rules[r] # None /\ after[r].on = rules[r].on
      BY <1>1, <2>4, <3>1, <3>3, <3>4, OnsAfter
    <3> QED BY <2>1, <3>2, <3>4, <3>5 DEF OnsAgree
  <2> QED BY <2>3, <2>4
<1> QED BY <1>6, <1>7

LEMMA HandledAsk ==
  ASSUME BackgroundTyped, NEW i, NEW c, NEW d, HandleIs("options", i, c, d),
         NEW s, NEW t, Replaced(t, s, i, d), s[i] = c, RulesUpTo(s, created),
         SwitchesApart(s), SwitchesAsk(s), \A j \in DOMAIN s : CallOK("options", s[j])
  PROVE  SwitchesApart(t) /\ SwitchesAsk(t)'
<1>1. /\ CallOK("options", c) /\ c \in CallRecords /\ c.pc = "sent"
      /\ rules' = RulesAfter(c, created + 1)
      /\ d = Handled(c, RuleOf(c), IF RuleOf(c) = 0 THEN None ELSE rules'[RuleOf(c)])
  BY DEF HandleIs, CallOK
<1>2. d.pc = "handled" /\ d.op = c.op /\ (d.op = "switch" => d.rule = c.rule)
  BY <1>1, HandledFields DEF RuleOf
<1>3. PICK n \in Nat : /\ DOMAIN s = 1..n /\ DOMAIN t = 1..n /\ i \in 1..n
                       /\ t[i] = d
                       /\ \A j \in 1..n : j # i => t[j] = s[j]
  BY DEF Replaced
<1>4. \A j \in 1..n : t[j].op = s[j].op /\ (t[j].op = "switch" => t[j].rule = s[j].rule)
  BY <1>2, <1>3
<1>5. SwitchesApart(t)
  BY <1>3, <1>4 DEF SwitchesApart
<1>6. ASSUME NEW j \in 1..n, t[j].op = "switch", t[j].pc = "sent", rules'[t[j].rule] # None
      PROVE  t[j].value = ~rules'[t[j].rule].on
  <2>1. j # i /\ t[j] = s[j]
    BY <1>2, <1>3, <1>6
  <2>2. PICK r \in RuleIds : r = s[j].rule
    BY <1>3, <1>6, <2>1 DEF CallOK
  <2>3. created \in Nat /\ RuleIds \subseteq Nat
    BY RuleNumbers
  <2>4. r # created + 1
    BY <1>3, <2>2, <2>3 DEF RulesUpTo
  <2>5. ~(c.op = "switch" /\ c.rule = r)
    BY <1>3, <1>6, <2>1, <2>2 DEF SwitchesApart
  <2>6. PICK after : after = rules'
    OBVIOUS
  <2>7. rules[r] # None /\ after[r].on = rules[r].on
    BY <1>1, <1>6, <2>1, <2>2, <2>4, <2>5, <2>6, OnsAfter
  <2> QED BY <1>3, <1>6, <2>1, <2>2, <2>6, <2>7 DEF SwitchesAsk
<1>7. SwitchesAsk(t)'
  BY <1>3, <1>6 DEF SwitchesAsk
<1> QED BY <1>5, <1>7

\* A call changes that is none of the settings, or none of the rules.
LEMMA StoryBeside ==
  ASSUME NEW s, NEW t, NEW i, NEW d, Replaced(t, s, i, d), NEW lane,
         Lane(s[i].op) # lane, Lane(d.op) # lane,
         NEW p, NEW b, NEW x, NEW y, Story(p, lane, s, b, x, y)
  PROVE  Story(p, lane, t, b, x, y)
<1>1. DOMAIN t = DOMAIN s
  BY DEF Replaced
<1>2. \A j \in DOMAIN s : t[j] = s[j] \/ (~Counts(s[j], lane) /\ ~Counts(t[j], lane))
  BY DEF Replaced, Counts
<1> QED BY <1>1, <1>2, StorySame

LEMMA OptionsHandle ==
  ASSUME IInv, IInv', LinesAre, LinesAre', OptionsTold,
         NEW p \in Pages, NEW i \in DOMAIN calls[p], NEW c, NEW d, HandleIs(p, i, c, d)
  PROVE  OptionsTold'
<1>1. /\ c = calls[p][i] /\ CallOK(p, c) /\ c.pc = "sent" /\ c.op \notin {"pause", "language"}
      /\ c \in CallRecords
      /\ created' = IF c.op \in {"add", "copy"} THEN created + 1 ELSE created
      /\ d = Handled(c, RuleOf(c), IF RuleOf(c) = 0 THEN None ELSE rules'[RuleOf(c)])
      /\ Replaced(calls'[p], calls[p], i, d) /\ OthersSame(p)
      /\ \/ <<rules', blocked'>> = <<rules, blocked>> /\ UNCHANGED behind
         \/ \A q \in Pages : behind'[q] = (behind[q] \/ (q # p /\ page[q].pc \notin {"closed", "loading"}))
      /\ UNCHANGED <<enabled, page, twice>>
  BY DEF HandleIs, CallOK
<1>2. "options" \in Pages /\ BackgroundTyped /\ BackgroundTyped'
  BY DEF Pages, IInv
<1>3. CASE p = "popup"
  <2>1. c.op \in {"file", "site"} /\ created' = created
    BY <1>1, <1>3 DEF CallOK
  <2>2. calls'["options"] = calls["options"]
    BY <1>1, <1>2, <1>3 DEF OthersSame
  <2>3. CASE <<rules', blocked'>> = <<rules, blocked>> /\ UNCHANGED behind
    BY <1>1, <2>1, <2>2, <2>3, OptionsStay DEF Live
  <2>4. CASE \A q \in Pages : behind'[q] = (behind[q] \/ (q # p /\ page[q].pc \notin {"closed", "loading"}))
    BY <1>1, <1>2, <1>3, <2>4 DEF OptionsTold, Live
  <2> QED BY <1>1, <2>3, <2>4
<1>4. CASE p = "options"
  <2>1. PICK s, t : s = calls["options"] /\ t = calls'["options"]
    OBVIOUS
  <2>2. /\ Replaced(t, s, i, d) /\ c = s[i] /\ i \in DOMAIN s
        /\ CallSeq(s) /\ SentLast(s) /\ \A j \in DOMAIN s : CallOK("options", s[j])
        /\ RulesUpTo(s, created) /\ RulesWithin(rules', created')
    BY <1>1, <1>2, <1>4, <2>1 DEF IInv, CallsInv, LineInv, LinesAre, Known
  <2>3. behind'["options"] = behind["options"]
    BY <1>1, <1>2, <1>4 DEF IInv, RestTyped
  <2>4. SUFFICES ASSUME Live("options")
                 PROVE  SettingsTold("options")' /\ (~twice' => \E b : RulesStory(calls["options"], b)')
    BY <1>1, <2>3 DEF OptionsTold, Live
  <2>5. SettingsTold("options") /\ (~twice => \E b : RulesStory(s, b))
    BY <2>1, <2>4 DEF OptionsTold
  <2>6. d.op = c.op /\ d.pc = "handled"
    BY <1>1, HandledFields
  <2>7. SettingsTold("options")'
    <3>1. PICK b : Story("options", "settings", s, b, page["options"].enabled, enabled)
      BY <2>1, <2>5 DEF SettingsTold, Told
    <3>2. Lane(s[i].op) # "settings" /\ Lane(d.op) # "settings"
      BY <1>1, <2>2, <2>6 DEF Lane
    <3>3. Story("options", "settings", t, b, page["options"].enabled, enabled)
      BY <2>2, <3>1, <3>2, StoryBeside
    <3> QED BY <1>1, <2>1, <3>3 DEF SettingsTold, Told
  <2>8. ASSUME ~twice' PROVE \E b : RulesStory(calls["options"], b)'
    <3>1. PICK b : RulesStory(s, b)
      BY <1>1, <2>5, <2>8
    <3>2. PICK n \in Nat : /\ DOMAIN s = 1..n /\ DOMAIN t = 1..n /\ i \in 1..n
                           /\ t[i] = d
                           /\ \A j \in 1..n : j # i => t[j] = s[j]
      BY <2>2 DEF Replaced
    <3>3. c.op = "switch" /\ rules[c.rule] # None => c.value = ~rules[c.rule].on
      BY <1>1, <2>2, <3>1 DEF RulesStory, SwitchesAsk
    <3>4. HandleIs("options", i, c, d)
      BY <1>4
    <3>5. After("options", "rules", rules, t[i]) = rules'
      <4>1. After("options", "rules", rules, d) = rules'
        BY <1>2, <3>3, <3>4, AnswerIsEffect
      <4> QED BY <3>2, <4>1
    <3>6. NoneFrom(s, "rules", i)
      BY <1>1, <2>2, NoneAfterSent
    <3>7. Story("options", "rules", s, b, page["options"].rules, rules)
      BY <3>1 DEF RulesStory
    <3>8. PICK e : e = Raised(b, i, rules')
      OBVIOUS
    <3>9. Story("options", "rules", t, e, page["options"].rules, rules')
      <4>1. Story("options", "rules", t, Raised(b, i, After("options", "rules", rules, t[i])),
                  page["options"].rules, After("options", "rules", rules, t[i]))
        BY <3>2, <3>6, <3>7, StoryRaised
      <4> QED BY <3>5, <3>8, <4>1
    <3>10. OnsAgree(t, e)'
      <4>1. OnsAgree(s, b)
        BY <3>1 DEF RulesStory
      <4> QED BY <1>2, <2>2, <3>4, <3>8, <4>1, HandledOns
    <3>11. SwitchesApart(t) /\ SwitchesAsk(t)'
      <4>1. SwitchesApart(s) /\ SwitchesAsk(s)
        BY <3>1 DEF RulesStory
      <4> QED BY <1>2, <2>2, <3>4, <4>1, HandledAsk
    <3>12. RulesStory(calls["options"], e)'
      <4>1. Story("options", "rules", t, e, page'["options"].rules, rules')
        BY <1>1, <3>9
      <4> QED BY <2>1, <3>10, <3>11, <4>1 DEF RulesStory, OnsAgree, SwitchesApart, SwitchesAsk, SwitchedAt
    <3> QED BY <3>12
  <2> QED BY <2>7, <2>8
<1> QED BY <1>3, <1>4 DEF Pages


\* A setting joins the chain, is written or fails to be: for its own page.
LEMMA SettingStory ==
  ASSUME IInv, LinesAre, NEW p \in Pages, NEW i \in DOMAIN calls[p], NEW c, NEW d, SettingIs(p, i, c, d),
         SettingsTold(p)
  PROVE  SettingsTold(p)'
<1>1. PICK s, t : s = calls[p] /\ t = calls'[p]
  OBVIOUS
<1>2. /\ c = s[i] /\ CallOK(p, c) /\ c.op \in {"pause", "language"}
      /\ c.pc \in {"sent", "writing"} /\ d.pc \in {"writing", "handled", "failed"} /\ Goes(c, d, d.pc)
      /\ c.pc = "sent" => d.pc = "writing"
      /\ Replaced(t, s, i, d)
      /\ IF d.pc = "handled" THEN c.op = "pause" /\ enabled' = c.value ELSE UNCHANGED enabled
      /\ page' = page
      /\ WritesInOrder(s)
  BY <1>1 DEF SettingIs, LinesAre
<1>3. PICK b : Story(p, "settings", s, b, page[p].enabled, enabled)
  BY <1>1 DEF SettingsTold, Told
<1>4. PICK n \in Nat : /\ DOMAIN s = 1..n /\ DOMAIN t = 1..n /\ i \in 1..n
                       /\ t[i] = d
                       /\ \A j \in 1..n : j # i => t[j] = s[j]
  BY <1>2 DEF Replaced
<1>5. CASE d.pc # "handled"
  <2>1. \A j \in DOMAIN s : t[j] = s[j] \/ (~Counts(s[j], "settings") /\ ~Counts(t[j], "settings"))
    BY <1>2, <1>4, <1>5 DEF Counts
  <2>2. DOMAIN t = DOMAIN s
    BY <1>4
  <2>3. Story(p, "settings", t, b, page[p].enabled, enabled)
    BY <1>3, <2>1, <2>2, StorySame
  <2> QED BY <1>1, <1>2, <1>5, <2>3 DEF SettingsTold, Told
<1>6. CASE d.pc = "handled"
  <2>1. c.pc = "writing"
    BY <1>2, <1>6
  <2>2. NoneFrom(s, "settings", i)
    <3>1. \A j \in i..n : ~Counts(s[j], "settings")
      <4> SUFFICES ASSUME NEW j \in i..n, Counts(s[j], "settings") PROVE FALSE
        OBVIOUS
      <4>1. j \in 1..n /\ (j = i \/ i < j)
        BY <1>4
      <4>2. s[j].pc = "handled" /\ Lane(s[j].op) = "settings"
        BY DEF Counts
      <4>3. CASE j = i
        BY <1>2, <2>1, <4>2, <4>3
      <4>4. CASE i < j
        BY <1>2, <1>4, <2>1, <4>1, <4>2, <4>4 DEF WritesInOrder
      <4> QED BY <4>1, <4>3, <4>4
    <3>2. i \in 1..(n + 1)
      BY <1>4
    <3> QED BY <1>4, <3>1, <3>2 DEF NoneFrom
  <2>3. After(p, "settings", enabled, t[i]) = enabled'
    <3>1. Counts(d, "settings") /\ d.value = c.value
      BY <1>2, <1>6 DEF Counts, Goes, Lane
    <3>2. After(p, "settings", enabled, d) = d.value
      BY <3>1 DEF After
    <3> QED BY <1>2, <1>4, <1>6, <3>1, <3>2
  <2>4. Story(p, "settings", t, Raised(b, i, After(p, "settings", enabled, t[i])),
              page[p].enabled, After(p, "settings", enabled, t[i]))
    BY <1>3, <1>4, <2>2, StoryRaised
  <2> QED BY <1>1, <1>2, <2>3, <2>4 DEF SettingsTold, Told
<1> QED BY <1>5, <1>6

LEMMA OptionsSetting ==
  ASSUME IInv, LinesAre, OptionsTold,
         NEW p \in Pages, NEW i \in DOMAIN calls[p], NEW c, NEW d, SettingIs(p, i, c, d)
  PROVE  OptionsTold'
<1>1. /\ c = calls[p][i] /\ CallOK(p, c) /\ c.op \in {"pause", "language"}
      /\ Goes(c, d, d.pc)
      /\ Replaced(calls'[p], calls[p], i, d) /\ OthersSame(p)
      /\ \/ UNCHANGED <<enabled, behind>>
         \/ \A q \in Pages : behind'[q] = (behind[q] \/ (q # p /\ page[q].pc \notin {"closed", "loading"}))
      /\ UNCHANGED <<rules, created, page, twice>>
  BY DEF SettingIs
<1>2. "options" \in Pages
  BY DEF Pages
<1>3. CASE p = "popup"
  <2>1. calls'["options"] = calls["options"]
    BY <1>1, <1>2, <1>3 DEF OthersSame
  <2>2. CASE UNCHANGED <<enabled, behind>>
    BY <1>1, <2>1, <2>2, OptionsStay DEF Live
  <2>3. CASE \A q \in Pages : behind'[q] = (behind[q] \/ (q # p /\ page[q].pc \notin {"closed", "loading"}))
    BY <1>1, <1>2, <1>3, <2>3 DEF OptionsTold, Live
  <2> QED BY <1>1, <2>2, <2>3
<1>4. CASE p = "options"
  <2>1. PICK s, t : s = calls["options"] /\ t = calls'["options"]
    OBVIOUS
  <2>2. behind'["options"] = behind["options"]
    BY <1>1, <1>2, <1>4 DEF IInv, RestTyped
  <2>3. SUFFICES ASSUME Live("options")
                 PROVE  SettingsTold("options")' /\ (~twice' => \E b : RulesStory(calls["options"], b)')
    BY <1>1, <2>2 DEF OptionsTold, Live
  <2>4. SettingsTold("options") /\ (~twice => \E b : RulesStory(s, b))
    BY <2>1, <2>3 DEF OptionsTold
  <2>5. SettingsTold("options")'
    BY <1>4, <2>4, SettingStory
  <2>6. ASSUME ~twice' PROVE \E b : RulesStory(calls["options"], b)'
    <3>1. PICK b : RulesStory(s, b)
      BY <1>1, <2>4, <2>6
    <3>2. PICK n \in Nat : /\ DOMAIN s = 1..n /\ DOMAIN t = 1..n /\ i \in 1..n
                           /\ t[i] = d
                           /\ \A j \in 1..n : j # i => t[j] = s[j]
      BY <1>1, <1>4, <2>1 DEF Replaced
    <3>3. c = s[i] /\ d.op = c.op /\ c.op # "switch"
      BY <1>1, <1>4, <2>1 DEF Goes
    <3>4. Story("options", "rules", t, b, page["options"].rules, rules)
      <4>1. Story("options", "rules", s, b, page["options"].rules, rules)
        BY <3>1 DEF RulesStory
      <4>2. Lane(s[i].op) # "rules" /\ Lane(d.op) # "rules"
        BY <1>1, <3>3 DEF Lane
      <4>3. Replaced(t, s, i, d)
        BY <1>1, <1>4, <2>1
      <4> QED BY <4>1, <4>2, <4>3, StoryBeside
    <3>5. \A m, r : SwitchedAt(t, m, r) /\ m \in DOMAIN t <=> SwitchedAt(s, m, r) /\ m \in DOMAIN s
      BY <3>2, <3>3 DEF SwitchedAt
    <3>6. OnsAgree(t, b)
      BY <3>1, <3>5 DEF RulesStory, OnsAgree
    <3>7. SwitchesApart(t)
      BY <3>1, <3>2, <3>3 DEF RulesStory, SwitchesApart
    <3>8. SwitchesAsk(t)
      BY <3>1, <3>2, <3>3 DEF RulesStory, SwitchesAsk
    <3>9. RulesStory(calls["options"], b)'
      BY <1>1, <2>1, <3>4, <3>6, <3>7, <3>8 DEF RulesStory, OnsAgree, SwitchesApart, SwitchesAsk, SwitchedAt
    <3> QED BY <3>9
  <2> QED BY <2>5, <2>6
<1> QED BY <1>3, <1>4 DEF Pages

-----------------------------------------------------------------------------
(* A call leaves its page *)

\* The answer is the first of its lane, or nothing is answered.
InTurn(s, i) == s[i].pc = "writing" \/ \A j \in 1..(i - 1) : Lane(s[j].op) # Lane(s[i].op)

Left(b, i, c, lane) == IF Counts(c, lane) THEN Taken(b, i) ELSE Skipped(b, i)

LEMMA StoryLeft ==
  ASSUME NEW p, NEW lane, NEW s, CallSeq(s), NEW i \in DOMAIN s, NEW t, Shorter(t, s, i),
         InTurn(s, i),
         NEW b, NEW x, NEW y, Story(p, lane, s, b, x, y)
  PROVE  Story(p, lane, t, Left(b, i, s[i], lane), After(p, lane, x, s[i]), y)
<1>1. CASE Counts(s[i], lane)
  <2>1. PICK n \in Nat : DOMAIN s = 1..n
    BY CallPlaces
  <2>2. NoneBefore(s, lane, i)
    BY <1>1, <2>1 DEF NoneBefore, Counts, InTurn
  <2> QED BY <1>1, <2>2, StoryTaken DEF Left
<1>2. CASE ~Counts(s[i], lane)
  <2>1. After(p, lane, x, s[i]) = x
    BY <1>2, NothingAfter
  <2>2. Story(p, lane, t, Skipped(b, i), x, y)
    BY <1>2, StorySkipped
  <2> QED BY <1>2, <2>1, <2>2 DEF Left
<1> QED BY <1>1, <1>2

LEMMA OnsLeft ==
  ASSUME NEW s, CallSeq(s), NEW i \in DOMAIN s, NEW t, Shorter(t, s, i),
         NEW b, OnsAgree(s, b), NEW e, e = Left(b, i, s[i], "rules")
  PROVE  OnsAgree(t, e)
<1>1. PICK n \in Nat : /\ DOMAIN s = 1..n /\ DOMAIN t = 1..(n - 1)
                       /\ \A j \in 1..(n - 1) : t[j] = IF j < i THEN s[j] ELSE s[j + 1]
  BY DEF Shorter
<1>2. i \in 1..n
  BY <1>1
<1> SUFFICES ASSUME NEW j \in Nat \ {0}, NEW r \in RuleIds, e[j][r] # None
             PROVE  /\ r <= created
                    /\ rules[r] # None /\ (\A m \in DOMAIN t : j <= m => ~SwitchedAt(t, m, r)) =>
                          e[j][r].on = rules[r].on
  BY DEF OnsAgree
<1>3. PICK k \in Nat \ {0} :
        /\ e[j] = b[k]
        /\ \A m \in 1..n : k <= m =>
              \/ m = i /\ ~Counts(s[i], "rules")
              \/ m < i /\ j <= m
              \/ i < m /\ j <= m - 1
  <2>1. CASE Counts(s[i], "rules")
    <3>1. e[j] = IF j < i THEN b[i + 1] ELSE b[j + 1]
      BY <2>1 DEF Left, Taken
    <3>2. CASE j < i
      <4>1. i + 1 \in Nat \ {0} /\ e[j] = b[i + 1]
        BY <1>2, <3>1, <3>2
      <4>2. \A m \in 1..n : i + 1 <= m => i < m /\ j <= m - 1
        BY <1>2, <3>2
      <4> QED BY <4>1, <4>2
    <3>3. CASE ~(j < i)
      <4>1. j + 1 \in Nat \ {0} /\ e[j] = b[j + 1]
        BY <1>2, <3>1, <3>3
      <4>2. \A m \in 1..n : j + 1 <= m => i < m /\ j <= m - 1
        BY <1>2, <3>3
      <4> QED BY <4>1, <4>2
    <3> QED BY <3>2, <3>3
  <2>2. CASE ~Counts(s[i], "rules")
    <3>1. e[j] = IF j <= i THEN b[j] ELSE b[j + 1]
      BY <2>2 DEF Left, Skipped
    <3>2. CASE j <= i
      <4>1. e[j] = b[j]
        BY <3>1, <3>2
      <4>2. \A m \in 1..n : j <= m => m = i \/ (m < i /\ j <= m) \/ (i < m /\ j <= m - 1)
        BY <1>2, <3>2
      <4> QED BY <2>2, <4>1, <4>2
    <3>3. CASE ~(j <= i)
      <4>1. j + 1 \in Nat \ {0} /\ e[j] = b[j + 1]
        BY <1>2, <3>1, <3>3
      <4>2. \A m \in 1..n : j + 1 <= m => i < m /\ j <= m - 1
        BY <1>2, <3>3
      <4> QED BY <4>1, <4>2
    <3> QED BY <3>2, <3>3
  <2> QED BY <2>1, <2>2
<1>4. r <= created
  BY <1>3 DEF OnsAgree
<1>5. ASSUME rules[r] # None, \A m \in DOMAIN t : j <= m => ~SwitchedAt(t, m, r)
      PROVE  e[j][r].on = rules[r].on
  <2>1. ASSUME NEW m \in 1..n, k <= m, SwitchedAt(s, m, r) PROVE FALSE
    <3>1. CASE m = i
      <4>1. Counts(s[i], "rules")
        BY <2>1, <3>1 DEF SwitchedAt, Counts, Lane
      <4> QED BY <1>3, <2>1, <3>1, <4>1
    <3>2. CASE m < i
      <4>1. m \in 1..(n - 1) /\ j <= m
        BY <1>2, <1>3, <2>1, <3>2
      <4>2. SwitchedAt(t, m, r)
        BY <1>1, <2>1, <3>2, <4>1 DEF SwitchedAt
      <4> QED BY <1>1, <1>5, <4>1, <4>2
    <3>3. CASE i < m
      <4>1. PICK h : h = m - 1
        OBVIOUS
      <4>2. h \in 1..(n - 1) /\ j <= h /\ h + 1 = m /\ ~(h < i)
        BY <1>2, <1>3, <2>1, <3>3, <4>1
      <4>3. t[h] = s[m]
        BY <1>1, <4>2
      <4>4. SwitchedAt(t, h, r)
        BY <2>1, <4>3 DEF SwitchedAt
      <4> QED BY <1>1, <1>5, <4>2, <4>4
    <3>4. m = i \/ m < i \/ i < m
      BY <1>2
    <3> QED BY <3>1, <3>2, <3>3, <3>4
  <2>2. \A m \in DOMAIN s : k <= m => ~SwitchedAt(s, m, r)
    BY <1>1, <2>1
  <2> QED BY <1>3, <1>5, <2>2 DEF OnsAgree
<1> QED BY <1>4, <1>5

LEMMA SwitchesLeft ==
  ASSUME NEW s, CallSeq(s), NEW i \in DOMAIN s, NEW t, Shorter(t, s, i), SwitchesApart(s), SwitchesAsk(s)
  PROVE  SwitchesApart(t) /\ SwitchesAsk(t)
<1>1. PICK n \in Nat : /\ DOMAIN s = 1..n /\ DOMAIN t = 1..(n - 1)
                       /\ \A j \in 1..(n - 1) : t[j] = IF j < i THEN s[j] ELSE s[j + 1]
  BY DEF Shorter
<1>2. i \in 1..n
  BY <1>1
<1>3. SwitchesApart(t)
  <2> SUFFICES ASSUME NEW j \in 1..(n - 1), NEW k \in 1..(n - 1),
                      t[j].op = "switch", t[k].op = "switch", t[j].rule = t[k].rule
               PROVE  j = k
    BY <1>1 DEF SwitchesApart
  <2>1. PICK jj, kk : jj = (IF j < i THEN j ELSE j + 1) /\ kk = (IF k < i THEN k ELSE k + 1)
    OBVIOUS
  <2>2. jj \in 1..n /\ kk \in 1..n /\ (jj = kk => j = k)
    BY <1>2, <2>1
  <2>3. t[j] = s[jj] /\ t[k] = s[kk]
    BY <1>1, <2>1
  <2> QED BY <1>1, <2>2, <2>3 DEF SwitchesApart
<1>4. SwitchesAsk(t)
  <2> SUFFICES ASSUME NEW j \in 1..(n - 1),
                      t[j].op = "switch", t[j].pc = "sent", rules[t[j].rule] # None
               PROVE  t[j].value = ~rules[t[j].rule].on
    BY <1>1 DEF SwitchesAsk
  <2>1. PICK jj : jj = (IF j < i THEN j ELSE j + 1)
    OBVIOUS
  <2>2. jj \in 1..n
    BY <1>2, <2>1
  <2>3. t[j] = s[jj]
    BY <1>1, <2>1
  <2> QED BY <1>1, <2>2, <2>3 DEF SwitchesAsk
<1> QED BY <1>3, <1>4

\* What becomes of the page of a call that leaves.
PageTakes(p, c) ==
    /\ page'[p].pc = page[p].pc /\ page'[p].site = page[p].site
    /\ page[p].pc = "open" =>
          /\ page'[p].rules = After(p, "rules", page[p].rules, c)
          /\ page'[p].enabled = After(p, "settings", page[p].enabled, c)
          /\ p = "popup" => page'[p].off = After(p, "site", page[p].off, c)

LEMMA SettingsLeft ==
  ASSUME IInv, NEW p \in Pages, NEW i \in DOMAIN calls[p], NEW c, LeaveIs(p, i, c),
         InTurn(calls[p], i), PageTakes(p, c), page[p].pc = "open", SettingsTold(p)
  PROVE  SettingsTold(p)'
<1>1. PICK s, t : s = calls[p] /\ t = calls'[p]
  OBVIOUS
<1>2. /\ c = s[i] /\ Shorter(t, s, i) /\ enabled' = enabled /\ CallSeq(s) /\ InTurn(s, i)
      /\ i \in DOMAIN s
  BY <1>1 DEF LeaveIs, background, IInv, CallsInv, LineInv
<1>3. PICK b : Story(p, "settings", s, b, page[p].enabled, enabled)
  BY <1>1 DEF SettingsTold, Told
<1>4. Story(p, "settings", t, Left(b, i, s[i], "settings"), After(p, "settings", page[p].enabled, s[i]), enabled)
  BY <1>2, <1>3, StoryLeft
<1>5. page'[p].enabled = After(p, "settings", page[p].enabled, s[i])
  BY <1>2 DEF PageTakes
<1>6. Told(p, "settings", t, page'[p].enabled, enabled')
  BY <1>2, <1>4, <1>5 DEF Told
<1> QED BY <1>1, <1>6 DEF SettingsTold, Told

LEMMA OptionsLeave ==
  ASSUME IInv, LinesAre, OptionsTold,
         NEW p \in Pages, NEW i \in DOMAIN calls[p], NEW c, LeaveIs(p, i, c),
         InTurn(calls[p], i), PageTakes(p, c), \A q \in Pages : q # p => page'[q] = page[q]
  PROVE  OptionsTold'
<1>1. /\ c = calls[p][i] /\ CallOK(p, c)
      /\ Shorter(calls'[p], calls[p], i) /\ OthersSame(p)
      /\ UNCHANGED <<rules, created, enabled, behind, twice>>
  BY DEF LeaveIs, background
<1>2. "options" \in Pages
  BY DEF Pages
<1>3. CASE p = "popup"
  <2>1. calls'["options"] = calls["options"] /\ page'["options"] = page["options"]
    BY <1>1, <1>2, <1>3 DEF OthersSame
  <2> QED BY <1>1, <2>1, OptionsStay DEF Live
<1>4. CASE p = "options"
  <2>1. PICK s, t : s = calls["options"] /\ t = calls'["options"]
    OBVIOUS
  <2>2. s # << >> /\ page["options"].pc = "open"
    <3>1. s # << >>
      BY <1>4, <2>1
    <3> QED BY <1>2, <2>1, <3>1 DEF LinesAre, OnlyOpen
  <2>3. SUFFICES ASSUME Live("options")
                 PROVE  SettingsTold("options")' /\ (~twice' => \E b : RulesStory(calls["options"], b)')
    BY <1>1, <1>4 DEF OptionsTold, Live, PageTakes
  <2>4. SettingsTold("options") /\ (~twice => \E b : RulesStory(s, b))
    BY <2>1, <2>3 DEF OptionsTold
  <2>5. SettingsTold("options")'
    BY <1>4, <2>2, <2>4, SettingsLeft
  <2>6. ASSUME ~twice' PROVE \E b : RulesStory(calls["options"], b)'
    <3>1. PICK b : RulesStory(s, b)
      BY <1>1, <2>4, <2>6
    <3>2. /\ c = s[i] /\ Shorter(t, s, i) /\ CallSeq(s) /\ InTurn(s, i) /\ i \in DOMAIN s
      BY <1>1, <1>2, <1>4, <2>1 DEF IInv, CallsInv, LineInv
    <3>3. PICK e : e = Left(b, i, s[i], "rules")
      OBVIOUS
    <3>4. Story("options", "rules", t, e, After("options", "rules", page["options"].rules, s[i]), rules)
      <4>1. Story("options", "rules", s, b, page["options"].rules, rules)
        BY <3>1 DEF RulesStory
      <4> QED BY <3>2, <3>3, <4>1, StoryLeft
    <3>5. page'["options"].rules = After("options", "rules", page["options"].rules, s[i])
      BY <1>4, <2>2, <3>2 DEF PageTakes
    <3>6. OnsAgree(t, e)
      <4>1. OnsAgree(s, b)
        BY <3>1 DEF RulesStory
      <4> QED BY <3>2, <3>3, <4>1, OnsLeft
    <3>7. SwitchesApart(t) /\ SwitchesAsk(t)
      <4>1. SwitchesApart(s) /\ SwitchesAsk(s)
        BY <3>1 DEF RulesStory
      <4> QED BY <3>2, <4>1, SwitchesLeft
    <3>8. Story("options", "rules", t, e, page'["options"].rules, rules')
      BY <1>1, <3>4, <3>5
    <3>9. OnsAgree(t, e)' /\ SwitchesAsk(t)'
      BY <1>1, <3>6, <3>7 DEF OnsAgree, SwitchesAsk, SwitchedAt
    <3>10. RulesStory(calls["options"], e)'
      BY <2>1, <3>7, <3>8, <3>9 DEF RulesStory, OnsAgree, SwitchesApart, SwitchesAsk, SwitchedAt
    <3> QED BY <3>10
  <2> QED BY <2>5, <2>6
<1> QED BY <1>3, <1>4 DEF Pages

-----------------------------------------------------------------------------
(* The view of the popup *)

\* Rules the popup shows, or has asked to change.
Reached(v, s, r) == v[r] # None \/ \E j \in DOMAIN s : s[j].op = "file" /\ s[j].rule = r

\* They are those of its site, and it blocks or unblocks no other.
OfSite(v, s, x, site) ==
    /\ \A r \in RuleIds : Reached(v, s, r) /\ x[r] # None => x[r].site = site
    /\ \A j \in DOMAIN s : s[j].op = "site" => s[j].site = site

PopupIs(s, v, site) ==
    /\ v.site = site
    /\ Told("popup", "settings", s, v.enabled, enabled)
    /\ Told("popup", "rules", s, v.rules, Shown(site))
    /\ Told("popup", "site", s, v.off, site \in blocked)
    /\ OfSite(v.rules, s, rules, site)

PopupTold == Live("popup") => PopupIs(calls["popup"], page["popup"], doc[tab].site)

LEMMA ShownIs ==
  /\ \A site : \A r \in RuleIds : Shown(site)[r] = IF rules[r] # None /\ rules[r].site = site THEN rules[r] ELSE None
  /\ \A site : DOMAIN Shown(site) = RuleIds
BY DEF Shown, Matching

LEMMA ShownStays ==
  ASSUME rules' = rules, NEW site
  PROVE  Shown(site)' = Shown(site)
BY DEF Shown, Matching

\* Nothing of this changes.
LEMMA PopupStay ==
  ASSUME PopupTold, UNCHANGED <<rules, blocked, enabled>>,
         Live("popup")' =>
            /\ Live("popup") /\ calls'["popup"] = calls["popup"]
            /\ page'["popup"].site = page["popup"].site
            /\ page'["popup"].rules = page["popup"].rules
            /\ page'["popup"].enabled = page["popup"].enabled
            /\ page'["popup"].off = page["popup"].off
            /\ doc'[tab'].site = doc[tab].site
  PROVE  PopupTold'
<1>1. SUFFICES ASSUME Live("popup")'
               PROVE  PopupIs(calls["popup"], page["popup"], doc[tab].site)'
  BY DEF PopupTold
<1>2. PICK site, s, v, w :
        /\ site = doc[tab].site /\ s = calls["popup"] /\ v = page["popup"] /\ w = page'["popup"]
  OBVIOUS
<1>3. /\ PopupIs(s, v, site) /\ calls'["popup"] = s /\ doc'[tab'].site = site
      /\ w.site = v.site /\ w.rules = v.rules /\ w.enabled = v.enabled /\ w.off = v.off
  BY <1>1, <1>2 DEF PopupTold
<1>4. Shown(site)' = Shown(site)
  BY ShownStays
<1>5. PopupIs(s, w, site)'
  BY <1>3, <1>4 DEF PopupIs, OfSite
<1> QED BY <1>2, <1>3, <1>5

\* The popup is told.
PopupAsIs ==
    LET v == page["popup"] IN
    /\ calls["popup"] = << >>
    /\ v.rules = Shown(v.site) /\ v.enabled = enabled /\ v.off = (v.site \in blocked)
    /\ v.site = doc[tab].site

LEMMA PopupBegin == PopupAsIs => PopupTold
<1> SUFFICES ASSUME PopupAsIs PROVE PopupTold
  OBVIOUS
<1> USE DEF PopupAsIs
<1>1. PICK v : v = page["popup"]
  OBVIOUS
<1>2. ASSUME NEW lane, NEW x PROVE Told("popup", lane, << >>, x, x)
  <2>1. Story("popup", lane, << >>, [j \in Nat |-> x], x, x)
    BY EmptyStory
  <2> QED BY <2>1 DEF Told
<1>3. OfSite(v.rules, << >>, rules, v.site)
  <2> SUFFICES ASSUME NEW r \in RuleIds, v.rules[r] # None, rules[r] # None
               PROVE  rules[r].site = v.site
    BY DEF OfSite, Reached
  <2>1. Shown(v.site)[r] = IF rules[r] # None /\ rules[r].site = v.site THEN rules[r] ELSE None
    BY ShownIs
  <2> QED BY <1>1, <2>1
<1>4. Told("popup", "site", << >>, v.off, v.site \in blocked)
  <2>1. PICK off : off = (v.site \in blocked)
    OBVIOUS
  <2>2. v.off = off /\ Told("popup", "site", << >>, off, off)
    BY <1>1, <1>2, <2>1
  <2> QED BY <2>1, <2>2
<1>5. Told("popup", "rules", << >>, v.rules, Shown(v.site)) /\ Told("popup", "settings", << >>, v.enabled, enabled)
  BY <1>1, <1>2
<1> QED BY <1>1, <1>3, <1>4, <1>5 DEF PopupTold, PopupIs

\* A click of the popup.
LEMMA PopupSend ==
  ASSUME IInv, PopupTold, NEW call, CallOK("popup", call), call.pc = "sent",
         Send("popup", call),
         call.op = "file" => InView("popup", call.rule),
         call.op = "site" => call.site = doc[tab].site
  PROVE  PopupTold'
<1>1. "popup" \in Pages
  BY DEF Pages
<1>2. /\ Longer(calls'["popup"], calls["popup"], call)
      /\ UNCHANGED <<rules, blocked, enabled, page, behind, tab, doc>>
  BY <1>1, SendMoves DEF background
<1>3. PICK s, t, v, site : s = calls["popup"] /\ t = calls'["popup"] /\ v = page["popup"] /\ site = doc[tab].site
  OBVIOUS
<1>4. SUFFICES ASSUME Live("popup") PROVE PopupIs(t, v, site)
  <2>1. PopupIs(t, v, site) => PopupIs(t, v, site)'
    BY <1>2, ShownStays DEF PopupIs, OfSite
  <2> QED BY <1>2, <1>3, <2>1 DEF PopupTold, Live
<1>5. PopupIs(s, v, site)
  BY <1>3, <1>4 DEF PopupTold
<1>6. ASSUME NEW lane, NEW x, NEW y, Told("popup", lane, s, x, y)
      PROVE  Told("popup", lane, t, x, y)
  <2>1. PICK b : Story("popup", lane, s, b, x, y)
    BY <1>6 DEF Told
  <2>2. Story("popup", lane, t, b, x, y)
    BY <1>2, <1>3, <2>1, StoryLonger
  <2> QED BY <2>2 DEF Told
<1>7. PICK n \in Nat : /\ DOMAIN s = 1..n /\ DOMAIN t = 1..(n + 1)
                       /\ \A j \in 1..n : t[j] = s[j]
                       /\ t[n + 1] = call
  BY <1>2, <1>3 DEF Longer
<1>8. \A j \in 1..(n + 1) : j \in 1..n \/ j = n + 1
  OBVIOUS
<1>9. OfSite(v.rules, t, rules, site)
  <2>1. \A r \in RuleIds : Reached(v.rules, t, r) => Reached(v.rules, s, r)
    BY <1>3, <1>7, <1>8 DEF Reached, InView
  <2>2. \A j \in DOMAIN t : t[j].op = "site" => t[j].site = site
    BY <1>3, <1>5, <1>7, <1>8 DEF PopupIs, OfSite
  <2> QED BY <1>5, <2>1, <2>2 DEF PopupIs, OfSite
<1> QED BY <1>5, <1>6, <1>9 DEF PopupIs

\* A file of a rule is switched by the popup.
LEMMA FileIsEffect ==
  ASSUME BackgroundTyped, NEW c, CallOK("popup", c), c.op = "file", NEW new, rules' = RulesAfter(c, new),
         NEW d, d.op = c.op, d.pc = "handled", d.rule = c.rule, d.reply = rules'[c.rule],
         NEW site, rules[c.rule] # None => rules[c.rule].site = site
  PROVE  After("popup", "rules", Shown(site), d) = Shown(site)'
<1>1. /\ rules \in [RuleIds -> {None} \cup RuleRecords] /\ c.rule \in RuleIds /\ c.what \in Kinds
      /\ c.value \in BOOLEAN
  BY DEF BackgroundTyped, CallOK, CallRecords
<1>2. PICK x, y, z : x = Shown(site) /\ y = Shown(site)' /\ z = rules'
  OBVIOUS
<1>3. /\ \A r \in RuleIds : x[r] = IF rules[r] # None /\ rules[r].site = site THEN rules[r] ELSE None
      /\ \A r \in RuleIds : y[r] = IF z[r] # None /\ z[r].site = site THEN z[r] ELSE None
      /\ DOMAIN x = RuleIds /\ DOMAIN y = RuleIds
      /\ x = [r \in RuleIds |-> x[r]] /\ y = [r \in RuleIds |-> y[r]]
  BY <1>2 DEF Shown, Matching
<1>4. After("popup", "rules", x, d) = IF z[c.rule] = None THEN x ELSE [x EXCEPT ![c.rule] = z[c.rule]]
  BY <1>2 DEF After, Counts, Lane, RuleStep
<1>5. CASE rules[c.rule] = None
  <2>1. z = rules
    BY <1>2, <1>5 DEF RulesAfter
  <2>2. Shown(site)' = Shown(site)
    BY <1>2, <2>1, ShownStays
  <2> QED BY <1>2, <1>4, <1>5, <2>1, <2>2
<1>6. CASE rules[c.rule] # None
  <2>1. PICK u \in RuleRecords : u = rules[c.rule]
    BY <1>1, <1>6
  <2>2. z = [rules EXCEPT ![c.rule][c.what] = c.value]
    BY <1>2, <1>6 DEF RulesAfter
  <2>3. z[c.rule] = [u EXCEPT ![c.what] = c.value]
    BY <1>1, <2>1, <2>2
  <2>4. [u EXCEPT ![c.what] = c.value] \in RuleRecords /\ [u EXCEPT ![c.what] = c.value].site = u.site
    BY <1>1 DEF RuleRecords, Kinds
  <2>5. z[c.rule] # None /\ z[c.rule].site = site
    BY <1>6, <2>1, <2>3, <2>4, NoneIsNoRule
  <2>6. \A r \in RuleIds : r # c.rule => z[r] = rules[r]
    BY <1>1, <2>2
  <2>7. y[c.rule] = z[c.rule] /\ \A r \in RuleIds : r # c.rule => y[r] = x[r]
    BY <1>1, <1>3, <2>5, <2>6
  <2>8. y = [x EXCEPT ![c.rule] = z[c.rule]]
    BY <1>1, <1>3, <2>7
  <2> QED BY <1>2, <1>4, <2>5, <2>8
<1> QED BY <1>5, <1>6


LEMMA OneIsHandled ==
  ASSUME NEW p, NEW lane, NEW s, CallSeq(s), SentLast(s), NEW t, NEW i, NEW d, Replaced(t, s, i, d),
         i \in DOMAIN s, s[i].pc = "sent", NEW x, NEW y, Told(p, lane, s, x, y),
         NEW z, After(p, lane, y, d) = z
  PROVE  Told(p, lane, t, x, z)
<1>1. PICK n \in Nat : /\ DOMAIN s = 1..n /\ DOMAIN t = 1..n /\ i \in 1..n
                       /\ t[i] = d
                       /\ \A j \in 1..n : j # i => t[j] = s[j]
  BY DEF Replaced
<1>2. PICK b : Story(p, lane, s, b, x, y)
  BY DEF Told
<1>3. NoneFrom(s, lane, i)
  BY NoneAfterSent
<1>4. Story(p, lane, t, Raised(b, i, After(p, lane, y, t[i])), x, After(p, lane, y, t[i]))
  BY <1>1, <1>2, <1>3, StoryRaised
<1>5. After(p, lane, y, t[i]) = z
  BY <1>1
<1> QED BY <1>4, <1>5 DEF Told

LEMMA OneIsBeside ==
  ASSUME NEW p, NEW lane, NEW s, NEW t, NEW i, NEW d, Replaced(t, s, i, d),
         Lane(s[i].op) # lane, Lane(d.op) # lane, NEW x, NEW y, Told(p, lane, s, x, y)
  PROVE  Told(p, lane, t, x, y)
<1>1. PICK b : Story(p, lane, s, b, x, y)
  BY DEF Told
<1>2. Story(p, lane, t, b, x, y)
  BY <1>1, StoryBeside
<1> QED BY <1>2 DEF Told

\* Which rules the popup has to do with, when a call of its line changes.
LEMMA OfSiteReplaced ==
  ASSUME NEW v, NEW s, NEW t, NEW i, NEW d, Replaced(t, s, i, d),
         d.op = s[i].op, d.rule = s[i].rule, d.site = s[i].site,
         NEW site, OfSite(v, s, rules, site), NEW z,
         \A r \in RuleIds : z[r] # None => rules[r] # None /\ z[r].site = rules[r].site
  PROVE  OfSite(v, t, z, site)
<1>1. DOMAIN s = DOMAIN t /\ \A j \in DOMAIN s : t[j].op = s[j].op /\ t[j].rule = s[j].rule /\ t[j].site = s[j].site
  <2>1. PICK n \in Nat : /\ DOMAIN s = 1..n /\ DOMAIN t = 1..n /\ i \in 1..n
                         /\ t[i] = d
                         /\ \A j \in 1..n : j # i => t[j] = s[j]
    BY DEF Replaced
  <2> QED BY <2>1
<1>2. \A r : Reached(v, t, r) => Reached(v, s, r)
  BY <1>1 DEF Reached
<1>3. \A j \in DOMAIN t : t[j].op = "site" => t[j].site = site
  BY <1>1 DEF OfSite
<1> QED BY <1>2, <1>3 DEF OfSite

LEMMA PopupHandle ==
  ASSUME IInv, PopupTold,
         NEW p \in Pages, NEW i \in DOMAIN calls[p], NEW c, NEW d, HandleIs(p, i, c, d)
  PROVE  PopupTold'
<1>1. /\ c = calls[p][i] /\ CallOK(p, c) /\ c.pc = "sent" /\ c.op \notin {"pause", "language"}
      /\ c \in CallRecords
      /\ rules' = RulesAfter(c, created + 1)
      /\ blocked' = BlockedAfter(c)
      /\ d = Handled(c, RuleOf(c), IF RuleOf(c) = 0 THEN None ELSE rules'[RuleOf(c)])
      /\ Replaced(calls'[p], calls[p], i, d) /\ OthersSame(p)
      /\ \/ <<rules', blocked'>> = <<rules, blocked>> /\ UNCHANGED behind
         \/ \A q \in Pages : behind'[q] = (behind[q] \/ (q # p /\ page[q].pc \notin {"closed", "loading"}))
      /\ UNCHANGED <<enabled, page, tab, doc>>
  BY DEF HandleIs, CallOK
<1>2. "popup" \in Pages /\ BackgroundTyped
  BY DEF Pages, IInv
<1>3. CASE p = "options"
  <2>1. calls'["popup"] = calls["popup"]
    BY <1>1, <1>2, <1>3 DEF OthersSame
  <2>2. CASE <<rules', blocked'>> = <<rules, blocked>> /\ UNCHANGED behind
    BY <1>1, <2>1, <2>2, PopupStay DEF Live
  <2>3. CASE \A q \in Pages : behind'[q] = (behind[q] \/ (q # p /\ page[q].pc \notin {"closed", "loading"}))
    BY <1>1, <1>2, <1>3, <2>3 DEF PopupTold, Live
  <2> QED BY <1>1, <2>2, <2>3
<1>4. CASE p = "popup"
  <2>1. PICK s, t, v, site : /\ s = calls["popup"] /\ t = calls'["popup"]
                             /\ v = page["popup"] /\ site = doc[tab].site
    OBVIOUS
  <2>2. /\ Replaced(t, s, i, d) /\ c = s[i] /\ i \in DOMAIN s /\ CallSeq(s) /\ SentLast(s)
        /\ c.op \in {"file", "site"}
    BY <1>1, <1>2, <1>4, <2>1 DEF IInv, CallsInv, LineInv, CallOK
  <2>3. behind'["popup"] = behind["popup"]
    BY <1>1, <1>2, <1>4 DEF IInv, RestTyped
  <2>4. SUFFICES ASSUME Live("popup") PROVE PopupIs(t, v, site)'
    BY <1>1, <2>1, <2>3 DEF PopupTold, Live
  <2>5. /\ v.site = site
        /\ Told("popup", "settings", s, v.enabled, enabled)
        /\ Told("popup", "rules", s, v.rules, Shown(site))
        /\ Told("popup", "site", s, v.off, site \in blocked)
        /\ OfSite(v.rules, s, rules, site)
    BY <2>1, <2>4 DEF PopupTold, PopupIs
  <2>6. /\ d.op = c.op /\ d.pc = "handled" /\ d.rule = c.rule /\ d.site = c.site /\ d.value = c.value
        /\ d.reply = IF c.rule = 0 THEN None ELSE rules'[c.rule]
    <3>1. RuleOf(c) = c.rule
      BY <2>2 DEF RuleOf
    <3> QED BY <1>1, <3>1, HandledFields
  <2>7. Told("popup", "settings", t, v.enabled, enabled')
    <3>1. Lane(s[i].op) # "settings" /\ Lane(d.op) # "settings"
      BY <2>2, <2>6 DEF Lane
    <3>2. Told("popup", "settings", t, v.enabled, enabled)
      BY <2>2, <2>5, <3>1, OneIsBeside
    <3> QED BY <1>1, <3>2
  <2>8. PICK z : z = rules'
    OBVIOUS
  <2>9. OfSite(v.rules, t, z, site)
    <3>1. \A r \in RuleIds : z[r] # None => rules[r] # None /\ z[r].site = rules[r].site
      <4> SUFFICES ASSUME NEW r \in RuleIds, z[r] # None
                   PROVE  rules[r] # None /\ z[r].site = rules[r].site
        OBVIOUS
      <4>1. PICK new : z = RulesAfter(c, new)
        BY <1>1, <2>8
      <4>2. CallOK("popup", c) /\ c.op \notin {"add", "copy", "update"}
        BY <1>1, <1>4, <2>2
      <4> QED BY <1>2, <4>1, <4>2, OnsAfter
    <3>2. d.op = s[i].op /\ d.rule = s[i].rule /\ d.site = s[i].site
      BY <2>2, <2>6
    <3> QED BY <2>2, <2>5, <3>1, <3>2, OfSiteReplaced
  <2>10. CASE c.op = "site"
    <3>1. rules' = rules /\ blocked' = IF c.value THEN blocked \cup {c.site} ELSE blocked \ {c.site}
      BY <1>1, <2>10 DEF RulesAfter, BlockedAfter
    <3>2. Told("popup", "rules", t, v.rules, Shown(site))
      <4>1. Lane(s[i].op) # "rules" /\ Lane(d.op) # "rules"
        BY <2>2, <2>6, <2>10 DEF Lane
      <4> QED BY <2>2, <2>5, <4>1, OneIsBeside
    <3>3. c.site = site
      BY <2>2, <2>5, <2>10 DEF OfSite
    <3>4. PICK was, is : was = (site \in blocked) /\ is = (site \in blocked')
      OBVIOUS
    <3>5. After("popup", "site", was, d) = is
      <4>1. After("popup", "site", was, d) = c.value
        BY <2>6, <2>10 DEF After, Counts, Lane
      <4>2. c.value = is
        <5>1. c.value \in BOOLEAN
          BY <1>1 DEF CallRecords
        <5> QED BY <3>1, <3>3, <3>4, <5>1
      <4> QED BY <4>1, <4>2
    <3>6. Told("popup", "site", t, v.off, is)
      <4>1. Told("popup", "site", s, v.off, was)
        BY <2>5, <3>4
      <4>2. s[i].pc = "sent"
        BY <1>1, <2>2
      <4> QED BY <2>2, <3>5, <4>1, <4>2, OneIsHandled
    <3>7. Shown(site)' = Shown(site)
      BY <3>1, ShownStays
    <3> QED BY <1>1, <2>5, <2>7, <2>8, <2>9, <2>1, <3>2, <3>4, <3>6, <3>7 DEF PopupIs, OfSite
  <2>11. CASE c.op = "file"
    <3>1. blocked' = blocked
      BY <1>1, <2>11 DEF BlockedAfter
    <3>2. Told("popup", "site", t, v.off, site \in blocked)
      <4>1. Lane(s[i].op) # "site" /\ Lane(d.op) # "site"
        BY <2>2, <2>6, <2>11 DEF Lane
      <4>2. PICK was : was = (site \in blocked)
        OBVIOUS
      <4>3. Told("popup", "site", t, v.off, was)
        BY <2>2, <2>5, <4>1, <4>2, OneIsBeside
      <4> QED BY <4>2, <4>3
    <3>3. c.rule \in RuleIds /\ c.rule # 0
      BY <1>1, <2>11, NoneIsNoRule DEF CallOK
    <3>4. rules[c.rule] # None => rules[c.rule].site = site
      BY <2>2, <2>5, <2>11, <3>3 DEF OfSite, Reached
    <3>5. d.reply = rules'[c.rule]
      BY <2>6, <3>3
    <3>6. PICK was, is : was = Shown(site) /\ is = Shown(site)'
      OBVIOUS
    <3>7. After("popup", "rules", was, d) = is
      <4>1. PICK new : rules' = RulesAfter(c, new)
        BY <1>1
      <4>2. CallOK("popup", c)
        BY <1>1, <1>4
      <4>3. After("popup", "rules", Shown(site), d) = Shown(site)'
        BY <1>2, <2>6, <2>11, <3>4, <3>5, <4>1, <4>2, FileIsEffect
      <4> QED BY <3>6, <4>3
    <3>8. Told("popup", "rules", t, v.rules, is)
      <4>1. Told("popup", "rules", s, v.rules, was)
        BY <2>5, <3>6
      <4>2. s[i].pc = "sent"
        BY <1>1, <2>2
      <4> QED BY <2>2, <3>7, <4>1, <4>2, OneIsHandled
    <3>9. Told("popup", "site", t, v.off, site \in blocked')
      BY <3>1, <3>2
    <3> QED BY <1>1, <2>1, <2>5, <2>7, <2>8, <2>9, <3>6, <3>8, <3>9 DEF PopupIs, OfSite
  <2> QED BY <2>2, <2>10, <2>11
<1> QED BY <1>3, <1>4 DEF Pages


LEMMA PopupSetting ==
  ASSUME IInv, LinesAre, PopupTold,
         NEW p \in Pages, NEW i \in DOMAIN calls[p], NEW c, NEW d, SettingIs(p, i, c, d)
  PROVE  PopupTold'
<1>1. /\ c = calls[p][i] /\ c.op \in {"pause", "language"}
      /\ Goes(c, d, d.pc)
      /\ Replaced(calls'[p], calls[p], i, d) /\ OthersSame(p)
      /\ \/ UNCHANGED <<enabled, behind>>
         \/ \A q \in Pages : behind'[q] = (behind[q] \/ (q # p /\ page[q].pc \notin {"closed", "loading"}))
      /\ UNCHANGED <<rules, blocked, page, tab, doc>>
  BY DEF SettingIs
<1>2. "popup" \in Pages
  BY DEF Pages
<1>3. CASE p = "options"
  <2>1. calls'["popup"] = calls["popup"]
    BY <1>1, <1>2, <1>3 DEF OthersSame
  <2>2. CASE UNCHANGED <<enabled, behind>>
    BY <1>1, <2>1, <2>2, PopupStay DEF Live
  <2>3. CASE \A q \in Pages : behind'[q] = (behind[q] \/ (q # p /\ page[q].pc \notin {"closed", "loading"}))
    BY <1>1, <1>2, <1>3, <2>3 DEF PopupTold, Live
  <2> QED BY <1>1, <2>2, <2>3
<1>4. CASE p = "popup"
  <2>1. PICK s, t, v, site : /\ s = calls["popup"] /\ t = calls'["popup"]
                             /\ v = page["popup"] /\ site = doc[tab].site
    OBVIOUS
  <2>2. Replaced(t, s, i, d) /\ c = s[i]
    BY <1>1, <1>4, <2>1
  <2>3. behind'["popup"] = behind["popup"]
    BY <1>1, <1>2, <1>4 DEF IInv, RestTyped
  <2>4. SUFFICES ASSUME Live("popup") PROVE PopupIs(t, v, site)'
    BY <1>1, <2>1, <2>3 DEF PopupTold, Live
  <2>5. PopupIs(s, v, site)
    BY <2>1, <2>4 DEF PopupTold
  <2>6. d.op = c.op /\ d.rule = c.rule /\ d.site = c.site
    BY <1>1 DEF Goes
  <2>7. Told("popup", "settings", t, v.enabled, enabled')
    <3>1. SettingsTold("popup")
      BY <2>1, <2>5 DEF PopupIs, SettingsTold
    <3>2. SettingsTold("popup")'
      BY <1>4, <3>1, SettingStory
    <3> QED BY <1>1, <2>1, <3>2 DEF SettingsTold, Told
  <2>8. ASSUME NEW lane \in {"rules", "site"}, NEW x, NEW y, Told("popup", lane, s, x, y)
        PROVE  Told("popup", lane, t, x, y)
    <3>1. Lane(s[i].op) # lane /\ Lane(d.op) # lane
      BY <1>1, <2>2, <2>6 DEF Lane
    <3> QED BY <2>2, <2>8, <3>1, OneIsBeside
  <2>9. Told("popup", "rules", t, v.rules, Shown(site))
    BY <2>5, <2>8 DEF PopupIs
  <2>10. Told("popup", "site", t, v.off, site \in blocked)
    <3>1. PICK was : was = (site \in blocked)
      OBVIOUS
    <3>2. Told("popup", "site", t, v.off, was)
      BY <2>5, <2>8, <3>1 DEF PopupIs
    <3> QED BY <3>1, <3>2
  <2>11. OfSite(v.rules, t, rules, site)
    <3>1. \A r \in RuleIds : rules[r] # None => rules[r] # None /\ rules[r].site = rules[r].site
      OBVIOUS
    <3>2. d.op = s[i].op /\ d.rule = s[i].rule /\ d.site = s[i].site
      BY <2>2, <2>6
    <3>3. OfSite(v.rules, s, rules, site)
      BY <2>5 DEF PopupIs
    <3> QED BY <2>2, <3>1, <3>2, <3>3, OfSiteReplaced
  <2>12. Shown(site)' = Shown(site) /\ v.site = site
    BY <1>1, <2>5, ShownStays DEF PopupIs
  <2> QED BY <1>1, <2>1, <2>7, <2>9, <2>10, <2>11, <2>12 DEF PopupIs, OfSite
<1> QED BY <1>3, <1>4 DEF Pages

LEMMA OneHasLeft ==
  ASSUME NEW p, NEW lane, NEW s, CallSeq(s), NEW i \in DOMAIN s, NEW t, Shorter(t, s, i),
         InTurn(s, i), NEW x, NEW y, Told(p, lane, s, x, y), NEW z, z = After(p, lane, x, s[i])
  PROVE  Told(p, lane, t, z, y)
<1>1. PICK b : Story(p, lane, s, b, x, y)
  BY DEF Told
<1>2. Story(p, lane, t, Left(b, i, s[i], lane), After(p, lane, x, s[i]), y)
  BY <1>1, StoryLeft
<1> QED BY <1>2 DEF Told

LEMMA OfSiteLeft ==
  ASSUME NEW v \in [RuleIds -> {None} \cup RuleRecords], NEW s, SentLast(s), NEW i \in DOMAIN s,
         NEW t, Shorter(t, s, i), s[i].op \in {"pause", "file", "site", "language"},
         NEW site, OfSite(v, s, rules, site), NEW w, w = After("popup", "rules", v, s[i])
  PROVE  OfSite(w, t, rules, site)
<1>1. Among(t, s)
  BY ShorterKeeps
<1>2. ASSUME NEW r \in RuleIds, w[r] # None PROVE Reached(v, s, r)
  <2>1. CASE w = v
    BY <1>2, <2>1 DEF Reached
  <2>2. CASE w # v
    <3>1. Counts(s[i], "rules") /\ s[i].op = "file" /\ w = [v EXCEPT ![s[i].rule] = s[i].reply]
      BY <2>2 DEF After, RuleStep, Counts, Lane
    <3>2. r = s[i].rule \/ w[r] = v[r]
      BY <3>1
    <3> QED BY <1>2, <3>1, <3>2 DEF Reached
  <2> QED BY <2>1, <2>2
<1>3. \A r \in RuleIds : Reached(w, t, r) => Reached(v, s, r)
  BY <1>1, <1>2 DEF Reached, Among
<1>4. \A j \in DOMAIN t : t[j].op = "site" => t[j].site = site
  BY <1>1 DEF Among, OfSite
<1> QED BY <1>3, <1>4 DEF OfSite

LEMMA PopupLeave ==
  ASSUME IInv, LinesAre, PopupTold,
         NEW p \in Pages, NEW i \in DOMAIN calls[p], NEW c, LeaveIs(p, i, c),
         InTurn(calls[p], i), PageTakes(p, c), \A q \in Pages : q # p => page'[q] = page[q]
  PROVE  PopupTold'
<1>1. /\ c = calls[p][i] /\ CallOK(p, c)
      /\ Shorter(calls'[p], calls[p], i) /\ OthersSame(p)
      /\ UNCHANGED <<rules, blocked, enabled, behind, tab, doc>>
  BY DEF LeaveIs, background
<1>2. "popup" \in Pages
  BY DEF Pages
<1>3. CASE p = "options"
  <2>1. calls'["popup"] = calls["popup"] /\ page'["popup"] = page["popup"]
    BY <1>1, <1>2, <1>3 DEF OthersSame
  <2> QED BY <1>1, <2>1, PopupStay DEF Live
<1>4. CASE p = "popup"
  <2>1. PICK s, t, v, w, site : /\ s = calls["popup"] /\ t = calls'["popup"]
                                /\ v = page["popup"] /\ w = page'["popup"] /\ site = doc[tab].site
    OBVIOUS
  <2>2. /\ c = s[i] /\ i \in DOMAIN s /\ Shorter(t, s, i) /\ CallSeq(s) /\ SentLast(s)
        /\ InTurn(s, i) /\ c.op \in {"pause", "file", "site"}
    BY <1>1, <1>2, <1>4, <2>1 DEF IInv, CallsInv, LineInv, CallOK
  <2>3. SUFFICES ASSUME Live("popup") PROVE PopupIs(t, w, site)'
    BY <1>1, <1>4, <2>1 DEF PopupTold, Live, PageTakes
  <2>4. v.pc = "open"
    <3>1. calls["popup"] # << >>
      BY <2>1, <2>2
    <3> QED BY <1>2, <2>1, <2>3, <3>1 DEF LinesAre, OnlyOpen, Live
  <2>5. /\ w.site = v.site
        /\ w.rules = After("popup", "rules", v.rules, s[i])
        /\ w.enabled = After("popup", "settings", v.enabled, s[i])
        /\ w.off = After("popup", "site", v.off, s[i])
    BY <1>4, <2>1, <2>2, <2>4 DEF PageTakes
  <2>6. /\ v.site = site
        /\ Told("popup", "settings", s, v.enabled, enabled)
        /\ Told("popup", "rules", s, v.rules, Shown(site))
        /\ Told("popup", "site", s, v.off, site \in blocked)
        /\ OfSite(v.rules, s, rules, site)
    BY <2>1, <2>3 DEF PopupTold, PopupIs
  <2>7. Told("popup", "settings", t, w.enabled, enabled)
    BY <2>2, <2>5, <2>6, OneHasLeft
  <2>8. Told("popup", "rules", t, w.rules, Shown(site))
    BY <2>2, <2>5, <2>6, OneHasLeft
  <2>9. Told("popup", "site", t, w.off, site \in blocked)
    <3>1. PICK was : was = (site \in blocked)
      OBVIOUS
    <3>2. Told("popup", "site", s, v.off, was)
      BY <2>6, <3>1
    <3>3. Told("popup", "site", t, w.off, was)
      BY <2>2, <2>5, <3>2, OneHasLeft
    <3> QED BY <3>1, <3>3
  <2>10. OfSite(w.rules, t, rules, site)
    <3>1. PICK x \in [RuleIds -> {None} \cup RuleRecords] : x = v.rules
      BY <1>2, <2>1 DEF IInv, PagesTyped, PageRecords
    <3>2. s[i].op \in {"pause", "file", "site", "language"}
      BY <2>2
    <3> QED BY <2>2, <2>5, <2>6, <3>1, <3>2, OfSiteLeft
  <2>11. Shown(site)' = Shown(site)
    BY <1>1, ShownStays
  <2> QED BY <1>1, <2>1, <2>5, <2>6, <2>7, <2>8, <2>9, <2>10, <2>11 DEF PopupIs, OfSite
<1> QED BY <1>3, <1>4 DEF Pages

-----------------------------------------------------------------------------
(* What the pages show, step by step *)

VInv == LanguagesAre /\ LinesAre /\ OptionsTold /\ PopupTold

\* A step beside the pages, in the tab or on the card.
LEMMA BesideTells ==
  ASSUME IInv, VInv, UNCHANGED <<background, language, calls, page, told, behind, twice, localeVars>>,
         doc'[tab'].site = doc[tab].site
  PROVE  VInv'
<1>1. LanguagesAre'
  BY LanguagesStay DEF VInv
<1>2. LinesAre'
  BY LinesStay DEF VInv, background
<1>3. OptionsTold'
  BY OptionsStay DEF VInv, background, Live
<1>4. PopupTold'
  BY PopupStay DEF VInv, background, Live
<1> QED BY <1>1, <1>2, <1>3, <1>4 DEF VInv

LEMMA NavigateTells ==
  ASSUME IInv, VInv, NEW site \in Sites, Navigate(site)
  PROVE  VInv'
<1>1. /\ UNCHANGED <<background, language, calls, page, told, twice, localeVars>>
      /\ behind' = [behind EXCEPT !["popup"] = @ \/ (site # doc[tab].site)]
      /\ NewDocument(site)
  BY DEF Navigate, settingsVars, pagesVars
<1>2. LanguagesAre'
  BY <1>1, LanguagesStay DEF VInv
<1>3. LinesAre'
  BY <1>1, LinesStay DEF VInv, background
<1>4. /\ behind'["options"] = behind["options"]
      /\ behind'["popup"] = (behind["popup"] \/ (site # doc[tab].site))
  BY <1>1 DEF IInv, RestTyped, Pages
<1>5. OptionsTold'
  BY <1>1, <1>4, OptionsStay DEF VInv, background, Live
<1>6. doc'[tab'].site = site
  <2>1. tab + 1 \in Docs
    BY <1>1, PageAssumption DEF NewDocument, Docs, IInv, TabTyped
  <2>2. Blank(site).site = site
    BY DEF Blank
  <2> QED BY <1>1, <2>1, <2>2 DEF NewDocument, IInv, TabTyped
<1>7. PopupTold'
  <2>1. Live("popup")' => Live("popup") /\ doc'[tab'].site = doc[tab].site
    BY <1>1, <1>4, <1>6 DEF Live
  <2> QED BY <1>1, <2>1, PopupStay DEF VInv, background
<1> QED BY <1>2, <1>3, <1>5, <1>7 DEF VInv

\* The scripts leave the tab on its site.
LEMMA ScriptsKeepSite ==
  ASSUME TabTyped, PageStep \/ \E n \in 2..MaxScripts : StartScript(tab, n)
  PROVE  tab' = tab /\ doc'[tab].site = doc[tab].site
<1>1. /\ doc \in [Docs -> DocRecords] /\ tab \in Docs
      /\ \A d \in Docs : doc[d] \in DocRecords
  BY DEF TabTyped
<1>2. ASSUME NEW n, StartScript(tab, n) PROVE tab' = tab /\ doc'[tab].site = doc[tab].site
  BY <1>1, <1>2 DEF StartScript, DocRecords
<1>3. ASSUME NEW s \in Scripts, HandleRequest(s) \/ Resolved(s) \/ Receive(s)
      PROVE  tab' = tab /\ doc'[tab].site = doc[tab].site
  BY <1>3 DEF HandleRequest, Resolved, Receive
<1>4. ASSUME NEW s \in Scripts, Insert(s) PROVE tab' = tab /\ doc'[tab].site = doc[tab].site
  <2>1. PICK e : \/ doc' = doc
                 \/ doc' = [doc EXCEPT ![s[1]].styled = @ \cup e]
    BY <1>4 DEF Insert
  <2>2. tab' = tab
    BY <1>4 DEF Insert
  <2> QED BY <1>1, <2>1, <2>2 DEF DocRecords
<1>5. ASSUME NEW m \in toTab, Execute(m) \/ ExecuteFails(m)
      PROVE  tab' = tab /\ doc'[tab].site = doc[tab].site
  <2>1. \/ doc' = doc
        \/ doc' = [doc EXCEPT ![tab].ran = @ \cup {m}]
    BY <1>5 DEF Execute, ExecuteFails
  <2>2. tab' = tab
    BY <1>5 DEF Execute, ExecuteFails
  <2> QED BY <1>1, <2>1, <2>2 DEF DocRecords
<1> QED BY <1>2, <1>3, <1>4, <1>5 DEF PageStep

LEMMA TabTells ==
  ASSUME IInv, VInv,
         Reload \/ AnotherScript \/ ScriptsWork \/ ClickRunDemo \/ CardWorks \/ UNCHANGED vars
  PROVE  VInv'
<1>1. CASE Reload
  <2>1. UNCHANGED <<background, language, calls, page, told, behind, twice, localeVars>>
    BY <1>1 DEF Reload, settingsVars, pagesVars, ghosts
  <2>2. NewDocument(doc[tab].site)
    BY <1>1 DEF Reload, ReloadTab
  <2>3. tab + 1 \in Docs
    BY <2>2, PageAssumption DEF NewDocument, Docs, IInv, TabTyped
  <2>4. PICK site : site = doc[tab].site
    OBVIOUS
  <2>5. Blank(site).site = site
    BY DEF Blank
  <2>6. doc'[tab'].site = site
    BY <2>2, <2>3, <2>4, <2>5 DEF NewDocument, IInv, TabTyped
  <2> QED BY <2>1, <2>4, <2>6, BesideTells
<1>2. CASE AnotherScript \/ ScriptsWork
  <2>1. UNCHANGED <<background, language, calls, page, told, behind, twice, localeVars>>
    BY <1>2 DEF AnotherScript, ScriptsWork, settingsVars, pagesVars, ghosts
  <2>2. tab' = tab /\ doc'[tab].site = doc[tab].site
    BY <1>2, ScriptsKeepSite DEF AnotherScript, ScriptsWork, IInv
  <2> QED BY <2>1, <2>2, BesideTells
<1>3. CASE ClickRunDemo \/ CardWorks \/ UNCHANGED vars
  <2>1. UNCHANGED <<background, language, calls, page, told, behind, twice, localeVars, tab, doc>>
    BY <1>3 DEF ClickRunDemo, CardWorks, vars, settingsVars, pagesVars, pageVars, ghosts
  <2> QED BY <2>1, BesideTells
<1> QED BY <1>1, <1>2, <1>3

LEMMA ClickTells ==
  ASSUME IInv, VInv, Click
  PROVE  VInv'
<1>1. PICK p \in Pages : \E c : Clicked(p, c)
  BY DEF Click
<1>2. PICK c : Clicked(p, c)
  BY <1>1
<1>3. /\ CallOK(p, c) /\ c.pc = "sent" /\ Send(p, c)
      /\ c.rule = 0 \/ InView(p, c.rule)
      /\ c.op = "site" => c.site = doc[tab].site
      /\ c.op = "switch" =>
            /\ c.value = ~page[p].rules[c.rule].on
            /\ twice' = (twice \/ \E i \in DOMAIN calls[p] :
                                    calls[p][i].op = "switch" /\ calls[p][i].rule = c.rule)
      /\ c.op # "switch" => UNCHANGED twice
  BY <1>2 DEF Clicked
<1>4. /\ Longer(calls'[p], calls[p], c) /\ OthersSame(p)
      /\ UNCHANGED <<background, language, tab, doc, localeVars, page, told, behind>>
  BY <1>3, SendMoves
<1>5. LanguagesAre'
  BY <1>4, LanguagesStay DEF VInv
<1>6. c.rule <= created
  <2>1. /\ BackgroundTyped /\ RulesWithin(page[p].rules, created)
        /\ c.rule \in {0} \cup RuleIds
    BY <1>3 DEF VInv, LinesAre, Known, IInv, CallOK, CallRecords
  <2>2. created \in Nat
    BY <2>1, RuleNumbers
  <2>3. CASE c.rule = 0
    BY <2>2, <2>3
  <2>4. CASE c.rule # 0
    BY <1>3, <2>1, <2>4 DEF InView, RulesWithin
  <2> QED BY <2>3, <2>4
<1>7. LinesAre'
  BY <1>3, <1>6, LinesSend DEF VInv
<1>8. CASE p = "options"
  <2>1. /\ twice => twice'
        /\ c.op = "switch" /\ ~twice' =>
              /\ InView("options", c.rule) /\ c.value = ~page["options"].rules[c.rule].on
              /\ \A j \in DOMAIN calls["options"] :
                    ~(calls["options"][j].op = "switch" /\ calls["options"][j].rule = c.rule)
    <3>1. c.op = "switch" => InView("options", c.rule)
      <4>1. c.op = "switch" => c.rule \in RuleIds
        BY <1>3 DEF CallOK
      <4>2. 0 \notin RuleIds
        BY NoneIsNoRule
      <4> QED BY <1>3, <1>8, <4>1, <4>2
    <3>2. CASE c.op = "switch"
      <4>1. c.value = ~page["options"].rules[c.rule].on
        BY <1>3, <1>8, <3>2
      <4>2. twice' = (twice \/ \E j \in DOMAIN calls["options"] :
                        calls["options"][j].op = "switch" /\ calls["options"][j].rule = c.rule)
        BY <1>3, <1>8, <3>2
      <4> QED BY <3>1, <3>2, <4>1, <4>2
    <3>3. CASE c.op # "switch"
      BY <1>3, <3>3
    <3> QED BY <3>2, <3>3
  <2>2. OptionsTold'
    BY <1>3, <1>8, <2>1, OptionsSend DEF VInv
  <2>3. calls'["popup"] = calls["popup"]
    BY <1>4, <1>8 DEF OthersSame, Pages
  <2>4. PopupTold'
    BY <1>4, <2>3, PopupStay DEF VInv, background, Live
  <2> QED BY <1>5, <1>7, <2>2, <2>4 DEF VInv
<1>9. CASE p = "popup"
  <2>1. c.op # "switch" /\ UNCHANGED twice /\ (c.op = "file" => InView("popup", c.rule))
    BY <1>3, <1>9, NoneIsNoRule DEF CallOK
  <2>2. calls'["options"] = calls["options"]
    BY <1>4, <1>9 DEF OthersSame, Pages
  <2>3. OptionsTold'
    BY <1>4, <2>1, <2>2, OptionsStay DEF VInv, background, Live
  <2>4. PopupTold'
    BY <1>3, <1>9, <2>1, PopupSend DEF VInv
  <2> QED BY <1>5, <1>7, <2>3, <2>4 DEF VInv
<1> QED BY <1>8, <1>9 DEF Pages

LEMMA HandleTells ==
  ASSUME IInv, IInv', VInv, NEW p \in Pages, NEW i \in DOMAIN calls[p], Handle(p, i)
  PROVE  VInv'
<1>1. PICK c, d : HandleIs(p, i, c, d)
  BY HandleMoves
<1>2. UNCHANGED <<language, localeVars, page, told>>
  BY <1>1 DEF HandleIs
<1>3. LanguagesAre'
  BY <1>2, LanguagesStay DEF VInv
<1>4. LinesAre'
  BY <1>1, LinesHandle DEF VInv
<1>5. OptionsTold'
  BY <1>1, <1>4, OptionsHandle DEF VInv
<1>6. PopupTold'
  BY <1>1, PopupHandle DEF VInv
<1> QED BY <1>3, <1>4, <1>5, <1>6 DEF VInv

LEMMA SettingTells ==
  ASSUME IInv, VInv,
         \/ \E p \in Pages : \E i \in DOMAIN calls[p] : HandleSetting(p, i)
         \/ PauseWritten \/ WriteFails
  PROVE  VInv'
<1>1. \E p \in Pages : \E i \in DOMAIN calls[p] : \E c, d : SettingIs(p, i, c, d)
  BY HandleSettingMoves, ChainMoves
<1>2. PICK p \in Pages : \E i \in DOMAIN calls[p] : \E c, d : SettingIs(p, i, c, d)
  BY <1>1
<1>3. PICK i \in DOMAIN calls[p] : \E c, d : SettingIs(p, i, c, d)
  BY <1>2
<1>4. PICK c, d : SettingIs(p, i, c, d)
  BY <1>3
<1>5. UNCHANGED <<language, localeVars, page, told>>
  BY <1>4 DEF SettingIs
<1>6. LanguagesAre'
  BY <1>5, LanguagesStay DEF VInv
<1>7. LinesAre'
  BY <1>4, LinesSetting DEF VInv
<1>8. OptionsTold'
  BY <1>4, OptionsSetting DEF VInv
<1>9. PopupTold'
  BY <1>4, PopupSetting DEF VInv
<1> QED BY <1>6, <1>7, <1>8, <1>9 DEF VInv

LEMMA LanguageTells ==
  ASSUME IInv, VInv, LanguageWritten
  PROVE  VInv'
<1>1. PICK p \in Pages : \E i \in DOMAIN calls[p] : \E c :
          LeaveIs(p, i, c) /\ c.pc = "writing" /\ page' = page
  BY LanguageMoves
<1>2. PICK i \in DOMAIN calls[p] : \E c : LeaveIs(p, i, c) /\ c.pc = "writing" /\ page' = page
  BY <1>1
<1>3. PICK c : LeaveIs(p, i, c) /\ c.pc = "writing" /\ page' = page
  BY <1>2
<1>4. InTurn(calls[p], i)
  BY <1>3 DEF LeaveIs, InTurn
<1>5. PageTakes(p, c)
  <2>1. \A lane, x : After(p, lane, x, c) = x
    BY <1>3, NothingAfter DEF Counts
  <2> QED BY <1>3, <2>1 DEF PageTakes
<1>6. LanguagesAre'
  BY LanguageWrittenTells DEF VInv
<1>7. LinesAre'
  BY <1>3, LinesLeave DEF VInv, LinesAre, Known
<1>8. OptionsTold'
  BY <1>3, <1>4, <1>5, OptionsLeave DEF VInv
<1>9. PopupTold'
  BY <1>3, <1>4, <1>5, PopupLeave DEF VInv
<1> QED BY <1>6, <1>7, <1>8, <1>9 DEF VInv

LEMMA AnswerTellsAll ==
  ASSUME IInv, VInv, NEW p \in Pages, NEW i \in DOMAIN calls[p], Answer(p, i)
  PROVE  VInv'
<1>1. PICK c : /\ LeaveIs(p, i, c) /\ c.pc \in {"handled", "failed"}
               /\ \A j \in 1..(i - 1) : Lane(calls[p][j].op) # Lane(c.op)
               /\ page' = IF page[p].pc = "open" THEN [page EXCEPT ![p] = ViewAfter(p, c)] ELSE page
  BY AnswerMoves
<1>2. c = calls[p][i] /\ CallOK(p, c)
  BY <1>1 DEF LeaveIs
<1>3. InTurn(calls[p], i)
  BY <1>1, <1>2 DEF InTurn
<1>4. /\ \A q \in Pages : /\ page'[q].pc = page[q].pc
                          /\ page'[q].site = page[q].site
                          /\ q # p => page'[q] = page[q]
      /\ page[p].pc # "open" => page'[p] = page[p]
      /\ page[p].pc = "open" =>
           /\ page'[p].rules = After(p, "rules", page[p].rules, c)
           /\ page'[p].enabled = After(p, "settings", page[p].enabled, c)
           /\ p = "popup" => page'[p].off = After(p, "site", page[p].off, c)
  BY <1>1, <1>2, PagesAfterAnswer
<1>5. PageTakes(p, c)
  BY <1>4 DEF PageTakes
<1>6. LanguagesAre'
  BY AnswerTells DEF VInv
<1>7. LinesAre'
  <2>1. ASSUME NEW q \in Pages PROVE RulesWithin(page'[q].rules, created)
    <3>1. RulesWithin(page[q].rules, created) /\ c.rule <= created
      BY <1>2 DEF VInv, LinesAre, Known, RulesUpTo
    <3>2. CASE page'[q] = page[q]
      BY <3>1, <3>2
    <3>3. CASE page'[q] # page[q]
      <4>1. q = p /\ page[p].pc = "open"
        BY <1>4, <3>3
      <4>2. PICK x \in [RuleIds -> {None} \cup RuleRecords] : x = page[p].rules
        BY DEF IInv, PagesTyped, PageRecords
      <4>3. RulesWithin(After(p, "rules", x, c), created)
        BY <3>1, <4>1, <4>2, WithinAfter
      <4> QED BY <1>4, <4>1, <4>2, <4>3
    <3> QED BY <3>2, <3>3
  <2> QED BY <1>1, <1>4, <2>1, LinesLeave DEF VInv
<1>8. OptionsTold'
  BY <1>1, <1>3, <1>4, <1>5, OptionsLeave DEF VInv
<1>9. PopupTold'
  BY <1>1, <1>3, <1>4, <1>5, PopupLeave DEF VInv
<1> QED BY <1>6, <1>7, <1>8, <1>9 DEF VInv


LEMMA BeginsNext == (OptionsAsIs' => OptionsTold') /\ (PopupAsIs' => PopupTold')
BY OptionsBegin, PopupBegin, PTL

LEMMA ToldWithin ==
  ASSUME RulesWithin(rules, created), NEW p, NEW site
  PROVE  RulesWithin(ToldPage(p, site).rules, created)
<1>1. RulesWithin(Shown(site), created)
  BY ShownIs DEF RulesWithin
<1> QED BY <1>1 DEF ToldPage

LEMMA NoRulesWithin ==
  ASSUME NEW n
  PROVE  RulesWithin(NoRules, n)
BY DEF RulesWithin, NoRules

\* A page that is not shown yet takes a step.
LEMMA OpenTellsAll ==
  ASSUME IInv, VInv, NEW p \in Pages, Open(p) \/ Tell(p) \/ Localize(p) \/ Loaded(p)
  PROVE  VInv'
<1>1. /\ page \in [Pages -> PageRecords] /\ behind \in [Pages -> BOOLEAN]
      /\ UNCHANGED <<rules, created, enabled, blocked, calls, twice, tab, doc>>
  BY DEF IInv, PagesTyped, RestTyped, Open, Tell, Localize, Loaded, background, pageVars, ghosts
<1>2. PICK v \in PageRecords : v = page[p]
  BY <1>1
<1>3. PICK w : w = page'[p]
  OBVIOUS
<1>4. \/ Open(p) /\ v.pc = "closed" /\ w.pc = "loading" /\ w.rules = NoRules /\ calls[p] = << >>
      \/ Tell(p) /\ v.pc = "loading" /\ w = ToldPage(p, v.site) /\ w.pc = "told"
      \/ /\ Localize(p) \/ Loaded(p)
         /\ v.pc \in {"told", "localizing"} /\ w.pc \in {"localizing", "open"}
         /\ w.rules = v.rules /\ w.enabled = v.enabled /\ w.off = v.off /\ w.site = v.site
  <2>1. CASE Open(p)
    <3> DEFINE x == [Closed EXCEPT !.pc = "loading", !.site = IF p = "popup" THEN doc[tab].site ELSE None]
    <3>0. page' = [page EXCEPT ![p] = x]
      BY <2>1 DEF Open
    <3>1. w = x
      <4> HIDE DEF x
      <4> QED BY <1>1, <1>3, <3>0
    <3>2. w.pc = "loading" /\ w.rules = NoRules
      BY <3>1 DEF Closed
    <3> QED BY <1>2, <2>1, <3>2 DEF Open
  <2>2. CASE Tell(p)
    <3>1. w = ToldPage(p, v.site)
      BY <1>1, <1>2, <1>3, <2>2 DEF Tell
    <3>2. w.pc = "told"
      BY <3>1 DEF ToldPage
    <3> QED BY <1>2, <2>2, <3>1, <3>2 DEF Tell
  <2>3. CASE Localize(p) \/ Loaded(p)
    <3>1. w = [v EXCEPT !.pc = "localizing"] \/ w = [v EXCEPT !.pc = "open"]
      BY <1>1, <1>2, <1>3, <2>3 DEF Localize, Loaded
    <3>2. /\ w.pc \in {"localizing", "open"}
          /\ w.rules = v.rules /\ w.enabled = v.enabled /\ w.off = v.off /\ w.site = v.site
      BY <3>1 DEF PageRecords
    <3> QED BY <1>2, <2>3, <3>2 DEF Localize, Loaded
  <2> QED BY <2>1, <2>2, <2>3
<1>5. \A q \in Pages : q # p => page'[q] = page[q] /\ behind'[q] = behind[q]
  BY <1>1 DEF Open, Tell, Localize, Loaded, ghosts
<1>6. ~Tell(p) => UNCHANGED behind
  BY DEF Open, Tell, Localize, Loaded, ghosts
<1>7. LanguagesAre'
  BY OpenTells DEF VInv
<1>8. RulesWithin(rules, created) /\ RulesWithin(v.rules, created) /\ OnlyOpen(p)
  BY <1>2 DEF VInv, LinesAre, Known
<1>9. LinesAre'
  <2>1. RulesWithin(w.rules, created)
    <3>1. CASE w.rules = NoRules
      BY <3>1, NoRulesWithin
    <3>2. CASE w = ToldPage(p, v.site)
      BY <1>8, <3>2, ToldWithin
    <3>3. CASE w.rules = v.rules
      BY <1>8, <3>3
    <3> QED BY <1>4, <3>1, <3>2, <3>3
  <2>2. OnlyOpen(p)'
    BY <1>1, <1>2, <1>4, <1>8 DEF OnlyOpen
  <2>3. \A q \in Pages : RulesWithin(page'[q].rules, created) /\ (OnlyOpen(q) => OnlyOpen(q)')
    BY <1>1, <1>3, <1>5, <2>1, <2>2 DEF VInv, LinesAre, Known, OnlyOpen
  <2> QED BY <1>1, <2>3, LinesOpen DEF VInv
<1>10. v.pc # "open" /\ v.pc # "closed" => calls[p] = << >>
  BY <1>2, <1>8 DEF OnlyOpen
<1>11. OptionsTold'
  <2>1. CASE p = "popup"
    <3>1. page'["options"] = page["options"] /\ behind'["options"] = behind["options"]
      BY <1>5, <2>1 DEF Pages
    <3> QED BY <1>1, <3>1, OptionsStay DEF VInv, Live
  <2>2. CASE p = "options" /\ Open(p)
    BY <1>3, <1>4, <2>2 DEF OptionsTold, Live, Open, Tell
  <2>3. CASE p = "options" /\ Tell(p)
    <3>1. w = ToldPage(p, v.site) /\ v.pc = "loading"
      BY <1>2, <1>4, <2>3 DEF Tell, Open, Localize, Loaded
    <3>2. w.rules = rules /\ w.enabled = enabled
      BY <2>3, <3>1 DEF ToldPage
    <3>3. calls'["options"] = << >>
      BY <1>1, <1>10, <2>3, <3>1
    <3>4. OptionsAsIs'
      BY <1>1, <1>3, <1>9, <2>3, <3>2, <3>3 DEF OptionsAsIs, LinesAre
    <3> QED BY <3>4, BeginsNext
  <2>4. CASE p = "options" /\ (Localize(p) \/ Loaded(p))
    <3>1. /\ v.pc \in {"told", "localizing"}
          /\ w.rules = v.rules /\ w.enabled = v.enabled
      BY <1>2, <1>4, <2>4 DEF Tell, Open, Localize, Loaded
    <3>2. UNCHANGED behind
      BY <2>4 DEF Localize, Loaded, ghosts
    <3> QED BY <1>1, <1>2, <1>3, <2>4, <3>1, <3>2, OptionsStay DEF VInv, Live
  <2> QED BY <2>1, <2>2, <2>3, <2>4 DEF Pages
<1>12. PopupTold'
  <2>1. CASE p = "options"
    <3>1. page'["popup"] = page["popup"] /\ behind'["popup"] = behind["popup"]
      BY <1>5, <2>1 DEF Pages
    <3> QED BY <1>1, <3>1, PopupStay DEF VInv, Live
  <2>2. CASE p = "popup" /\ Open(p)
    BY <1>3, <1>4, <2>2 DEF PopupTold, Live, Open, Tell
  <2>3. CASE p = "popup" /\ Tell(p)
    <3>1. w = ToldPage(p, v.site) /\ v.pc = "loading"
      BY <1>2, <1>4, <2>3 DEF Tell, Open, Localize, Loaded
    <3>2. w.rules = Shown(v.site) /\ w.enabled = enabled /\ w.off = (v.site \in blocked) /\ w.site = v.site
      BY <2>3, <3>1 DEF ToldPage
    <3>3. calls'["popup"] = << >>
      BY <1>1, <1>10, <2>3, <3>1
    <3>4. behind'["popup"] = (v.site # doc[tab].site)
      BY <1>1, <1>2, <2>3 DEF Tell
    <3>5. CASE v.site = doc[tab].site
      <4>1. Shown(v.site)' = Shown(v.site)
        BY <1>1, ShownStays
      <4>2. PopupAsIs'
        BY <1>1, <1>3, <2>3, <3>2, <3>3, <3>5, <4>1 DEF PopupAsIs
      <4> QED BY <4>2, BeginsNext
    <3>6. CASE v.site # doc[tab].site
      BY <3>4, <3>6 DEF PopupTold, Live
    <3> QED BY <3>5, <3>6
  <2>4. CASE p = "popup" /\ (Localize(p) \/ Loaded(p))
    <3>1. /\ v.pc \in {"told", "localizing"}
          /\ w.rules = v.rules /\ w.enabled = v.enabled /\ w.off = v.off /\ w.site = v.site
      BY <1>2, <1>4, <2>4 DEF Tell, Open, Localize, Loaded
    <3>2. UNCHANGED behind
      BY <2>4 DEF Localize, Loaded, ghosts
    <3> QED BY <1>1, <1>2, <1>3, <2>4, <3>1, <3>2, PopupStay DEF VInv, Live
  <2> QED BY <2>1, <2>2, <2>3, <2>4 DEF Pages
<1> QED BY <1>7, <1>9, <1>11, <1>12 DEF VInv

LEMMA ClosePopupTellsAll ==
  ASSUME IInv, VInv, ClosePopup
  PROVE  VInv'
<1>1. /\ page' = [page EXCEPT !["popup"] = Closed]
      /\ UNCHANGED <<rules, created, enabled, blocked, calls, behind, twice, tab, doc>>
      /\ page \in [Pages -> PageRecords] /\ "popup" \in Pages /\ "options" \in Pages
  BY DEF ClosePopup, background, ghosts, IInv, PagesTyped, Pages
<1>2. /\ page'["popup"].pc = "closed" /\ page'["popup"].rules = NoRules
      /\ page'["options"] = page["options"]
  BY <1>1 DEF Closed
<1>3. LanguagesAre'
  BY ClosePopupTells DEF VInv
<1>4. LinesAre'
  <2>1. \A q \in Pages : RulesWithin(page'[q].rules, created) /\ (OnlyOpen(q) => OnlyOpen(q)')
    BY <1>1, <1>2, NoRulesWithin DEF VInv, LinesAre, Known, OnlyOpen, Pages
  <2> QED BY <1>1, <2>1, LinesOpen DEF VInv
<1>5. OptionsTold'
  BY <1>1, <1>2, OptionsStay DEF VInv, Live
<1>6. PopupTold'
  BY <1>2 DEF PopupTold, Live
<1> QED BY <1>3, <1>4, <1>5, <1>6 DEF VInv

\* The language of a page changes.
LEMMA LocaleTells ==
  ASSUME IInv, VInv,
         NEW p \in Pages, TakeLanguage(p) \/ \E catalog \in Locales : CatalogEnds(p, catalog)
  PROVE  VInv'
<1>1. UNCHANGED <<rules, created, enabled, blocked, calls, page, behind, twice, tab, doc>>
  BY DEF TakeLanguage, CatalogEnds, background, pageVars, pagesVars, ghosts
<1>2. LanguagesAre'
  BY TakeLanguageTells, CatalogEndsTells DEF VInv
<1>3. LinesAre'
  BY <1>1, LinesStay DEF VInv
<1>4. OptionsTold'
  BY <1>1, OptionsStay DEF VInv, Live
<1>5. PopupTold'
  BY <1>1, PopupStay DEF VInv, Live
<1> QED BY <1>2, <1>3, <1>4, <1>5 DEF VInv

LEMMA NextTells ==
  ASSUME IInv, IInv', VInv, [Next]_vars
  PROVE  VInv'
<1>1. ASSUME NEW p \in Pages,
             \/ Open(p) \/ Tell(p) \/ Localize(p) \/ Loaded(p) \/ TakeLanguage(p)
             \/ \E i \in DOMAIN calls[p] : Handle(p, i) \/ HandleSetting(p, i) \/ Answer(p, i)
             \/ \E catalog \in Locales : CatalogEnds(p, catalog)
      PROVE  VInv'
  <2>1. CASE Open(p) \/ Tell(p) \/ Localize(p) \/ Loaded(p)
    BY <2>1, OpenTellsAll
  <2>2. CASE TakeLanguage(p) \/ \E catalog \in Locales : CatalogEnds(p, catalog)
    BY <2>2, LocaleTells
  <2>3. ASSUME NEW i \in DOMAIN calls[p], Handle(p, i) PROVE VInv'
    BY <2>3, HandleTells
  <2>4. ASSUME NEW i \in DOMAIN calls[p], HandleSetting(p, i) PROVE VInv'
    BY <2>4, SettingTells
  <2>5. ASSUME NEW i \in DOMAIN calls[p], Answer(p, i) PROVE VInv'
    BY <2>5, AnswerTellsAll
  <2> QED BY <1>1, <2>1, <2>2, <2>3, <2>4, <2>5
<1>2. ASSUME NEW r \in RuleIds,
             Switch(r) \/ RowMenu(r) \/ ConfirmRemoval(r) \/ \E k \in Kinds : PopupFile(r, k)
      PROVE  VInv'
  BY <1>2, ClickSends, ClickTells
<1>3. ASSUME NEW site \in Sites, EditorSubmit(site) \/ Navigate(site)
      PROVE  VInv'
  BY <1>3, ClickSends, ClickTells, NavigateTells
<1>4. ASSUME NEW pref \in Offered, ChooseLanguage(pref)
      PROVE  VInv'
  BY <1>4, ClickSends, ClickTells
<1>5. ASSUME PauseOptions \/ PausePopup \/ PopupSite \/ ClosePopup
      PROVE  VInv'
  BY <1>5, ClickSends, ClickTells, ClosePopupTellsAll
<1>6. ASSUME PauseWritten \/ LanguageWritten \/ WriteFails
      PROVE  VInv'
  BY <1>6, SettingTells, LanguageTells
<1>7. ASSUME Reload \/ AnotherScript \/ ScriptsWork \/ ClickRunDemo \/ CardWorks \/ UNCHANGED vars
      PROVE  VInv'
  BY <1>7, TabTells
<1> QED BY <1>1, <1>2, <1>3, <1>4, <1>5, <1>6, <1>7 DEF Next


\* The pages that are there at first were told what there is.
LEMMA InitTells ==
  ASSUME Init, IInv
  PROVE  VInv
<1>1. PICK there \in SUBSET Pages :
            /\ LocaleInit(there)
            /\ page = [p \in Pages |-> IF p \in there THEN [ToldPage(p, doc[tab].site) EXCEPT !.pc = "open"]
                                                     ELSE Closed]
  BY DEF Init
<1>2. /\ language = LanguageAuto /\ told = [p \in Pages |-> << >>] /\ calls = [p \in Pages |-> << >>]
      /\ behind = [p \in Pages |-> FALSE]
  BY DEF Init
<1>3. PICK site : site = doc[tab].site
  OBVIOUS
<1>4. ASSUME NEW p \in Pages
      PROVE  \/ p \notin there /\ page[p].pc = "closed" /\ page[p].rules = NoRules
             \/ /\ p \in there /\ page[p].pc = "open"
                /\ page[p].rules = ToldPage(p, site).rules
                /\ page[p].enabled = enabled
                /\ p = "popup" => page[p].off = (site \in blocked) /\ page[p].site = site
  <2>1. CASE p \in there
    <3>1. PICK v : v = ToldPage(p, site)
      OBVIOUS
    <3>2. page[p] = [v EXCEPT !.pc = "open"]
      BY <1>1, <1>3, <2>1, <3>1
    <3>3. /\ page[p].pc = "open" /\ page[p].rules = v.rules /\ page[p].enabled = v.enabled
          /\ page[p].off = v.off /\ page[p].site = v.site
          /\ v.enabled = enabled /\ v.off = (p = "popup" /\ site \in blocked)
          /\ v.site = IF p = "popup" THEN site ELSE None
      BY <3>1, <3>2 DEF ToldPage
    <3> QED BY <2>1, <3>1, <3>3
  <2>2. CASE p \notin there
    <3>1. page[p] = Closed
      BY <1>1, <2>2
    <3> QED BY <2>2, <3>1 DEF Closed
  <2> QED BY <2>1, <2>2
<1>5. LanguagesAre
  <2> SUFFICES ASSUME NEW p \in Pages PROVE LangInv(p)
    BY DEF LanguagesAre
  <2>1. ui[p].pref = LanguageAuto /\ (p \in there => Shows(p))
    BY <1>1, LocaleStarts, PagesAssumption DEF Pages
  <2>2. told[p] = << >>
    BY <1>2
  <2> QED BY <1>2, <1>4, <2>1, <2>2 DEF LangInv
<1>6. RulesWithin(rules, created)
  <2>1. PICK r1 : /\ rules = [r \in RuleIds |-> IF r = 1 THEN r1 ELSE None]
                  /\ created = IF r1 = None THEN 0 ELSE 1
    BY DEF Init
  <2> QED BY <2>1 DEF RulesWithin
<1>7. LinesAre
  <2>1. ASSUME NEW p \in Pages
        PROVE  /\ RulesWithin(page[p].rules, created) /\ RulesUpTo(calls[p], created)
               /\ WritesInOrder(calls[p]) /\ OnlyOpen(p)
    <3>1. calls[p] = << >>
      BY <1>2
    <3>2. RulesWithin(page[p].rules, created)
      BY <1>4, <1>6, ToldWithin, NoRulesWithin
    <3> QED BY <3>1, <3>2 DEF RulesUpTo, WritesInOrder, OnlyOpen
  <2> QED BY <1>6, <2>1 DEF LinesAre, Known
<1>8. OptionsTold
  <2>1. SUFFICES ASSUME Live("options") PROVE OptionsAsIs
    BY OptionsBegin DEF OptionsTold
  <2>2. "options" \in Pages /\ calls["options"] = << >>
    BY <1>2 DEF Pages
  <2>3. page["options"].rules = ToldPage("options", site).rules /\ page["options"].enabled = enabled
    BY <1>4, <2>1, <2>2 DEF Live
  <2>4. page["options"].rules = rules
    BY <2>3 DEF ToldPage
  <2> QED BY <1>7, <2>2, <2>3, <2>4 DEF OptionsAsIs, LinesAre
<1>9. PopupTold
  <2>1. SUFFICES ASSUME Live("popup") PROVE PopupAsIs
    BY PopupBegin DEF PopupTold
  <2>2. "popup" \in Pages /\ calls["popup"] = << >>
    BY <1>2 DEF Pages
  <2>3. /\ page["popup"].rules = ToldPage("popup", site).rules /\ page["popup"].enabled = enabled
        /\ page["popup"].off = (site \in blocked) /\ page["popup"].site = site
    BY <1>4, <2>1, <2>2 DEF Live
  <2>4. page["popup"].rules = Shown(site)
    BY <2>3 DEF ToldPage
  <2> QED BY <1>3, <2>2, <2>3, <2>4 DEF PopupAsIs
<1> QED BY <1>5, <1>7, <1>8, <1>9 DEF VInv

\* The rules the popup counts are those that would be injected.
LEMMA CountedAreActive ==
  ASSUME IInv, NEW v, NEW site, v.rules = Shown(site), v.enabled = enabled, v.off = (site \in blocked)
  PROVE  ActiveCount(v) = Cardinality({f[1] : f \in Active(site)})
<1>1. rules \in [RuleIds -> {None} \cup RuleRecords]
  BY DEF IInv, BackgroundTyped
<1>2. CASE ~enabled \/ site \in blocked
  <2>1. Active(site) = {} /\ ActiveCount(v) = 0
    BY <1>2 DEF Active, ActiveCount
  <2>2. {f[1] : f \in Active(site)} = {}
    BY <2>1
  <2> QED BY <2>1, <2>2, FS_EmptySet
<1>3. CASE enabled /\ site \notin blocked
  <2>1. PICK active : active = Active(site)
    OBVIOUS
  <2>2. active = {f \in Matching(site) \X Kinds : rules[f[1]].on /\ rules[f[1]][f[2]]}
    BY <1>3, <2>1 DEF Active
  <2>3. ASSUME NEW r \in RuleIds
        PROVE  (v.rules[r] # None /\ v.rules[r].on /\ (v.rules[r].js \/ v.rules[r].css))
                  <=> \E k \in Kinds : <<r, k>> \in active
    <3>1. v.rules[r] = IF r \in Matching(site) THEN rules[r] ELSE None
      BY DEF Shown
    <3>2. r \in Matching(site) => rules[r] # None
      BY DEF Matching
    <3>3. ASSUME NEW x, x = rules[r]
          PROVE  (x.js \/ x.css) <=> \E k \in Kinds : x[k]
      BY DEF Kinds
    <3>4. \A k \in Kinds : <<r, k>> \in active <=> r \in Matching(site) /\ rules[r].on /\ rules[r][k]
      BY <2>2
    <3> QED BY <3>1, <3>2, <3>3, <3>4
  <2>4. {r \in RuleIds : v.rules[r] # None /\ v.rules[r].on /\ (v.rules[r].js \/ v.rules[r].css)}
          = {f[1] : f \in active}
    <3>1. \A f \in active : f[1] \in RuleIds /\ f[2] \in Kinds /\ f = <<f[1], f[2]>>
      BY <2>2 DEF Matching
    <3> QED BY <2>3, <3>1
  <2> QED BY <1>3, <2>1, <2>4 DEF ActiveCount
<1> QED BY <1>2, <1>3

LEMMA VInvShows ==
  ASSUME IInv, VInv
  PROVE  ViewIsTrue
<1>1. ASSUME Quiet("options"), ~behind["options"], ~twice
      PROVE  page["options"].rules = rules /\ page["options"].enabled = enabled
  <2>1. Live("options") /\ calls["options"] = << >>
    BY <1>1 DEF Quiet, Live
  <2>2. SettingsTold("options") /\ \E b : RulesStory(<< >>, b)
    BY <1>1, <2>1 DEF VInv, OptionsTold
  <2>3. Told("options", "settings", << >>, page["options"].enabled, enabled)
    BY <2>1, <2>2 DEF SettingsTold
  <2>4. Told("options", "rules", << >>, page["options"].rules, rules)
    BY <2>2 DEF RulesStory, Told
  <2> QED BY <2>3, <2>4, EmptyStory
<1>2. ASSUME Quiet("popup"), ~behind["popup"]
      PROVE  /\ page["popup"].rules = Shown(page["popup"].site)
             /\ page["popup"].enabled = enabled
             /\ page["popup"].off = (page["popup"].site \in blocked)
             /\ ActiveCount(page["popup"]) = Cardinality({f[1] : f \in Active(page["popup"].site)})
  <2>1. PICK v, site, off : v = page["popup"] /\ site = v.site /\ off = (site \in blocked)
    OBVIOUS
  <2>2. Live("popup") /\ calls["popup"] = << >>
    BY <1>2 DEF Quiet, Live
  <2>3. /\ v.site = doc[tab].site
        /\ Told("popup", "settings", << >>, v.enabled, enabled)
        /\ Told("popup", "rules", << >>, v.rules, Shown(doc[tab].site))
        /\ Told("popup", "site", << >>, v.off, doc[tab].site \in blocked)
    BY <2>1, <2>2 DEF VInv, PopupTold, PopupIs
  <2>4. v.enabled = enabled /\ v.rules = Shown(site) /\ v.off = off
    <3>1. Told("popup", "site", << >>, v.off, off)
      BY <2>1, <2>3
    <3> QED BY <2>1, <2>3, <3>1, EmptyStory
  <2>5. ActiveCount(v) = Cardinality({f[1] : f \in Active(site)})
    BY <2>1, <2>4, CountedAreActive
  <2> QED BY <2>1, <2>4, <2>5
<1>3. ASSUME NEW p \in Pages, page[p].pc = "open", told[p] = << >>, loads[p] = {}
      PROVE  RenderedAsTold(p, language)
  BY <1>3 DEF VInv, LanguagesAre, LangInv, Shows, RenderedAsTold
<1> QED BY <1>1, <1>2, <1>3 DEF ViewIsTrue

\* However many calls of a page overlapped, once they are all answered the page
\* shows what the background holds, unless another page changed that behind it or
\* a switch was clicked again before its answer; the popup calls as many rules
\* active as would be injected; and a page is in the language that was saved,
\* unless loads of catalogs overlapped or one failed (the stores of the pages,
\* messageHandler, the settings chain and its broadcast).
THEOREM PagesShowWhatIs == Spec => []ViewIsTrue
<1>1. Init => IInv /\ VInv
  BY InitKeeps, InitTells
<1>2. IInv /\ VInv /\ [Next]_vars => (IInv /\ VInv)'
  <2>1. ASSUME IInv, VInv, [Next]_vars PROVE IInv' /\ VInv'
    <3>1. IInv'
      BY <2>1, NextKeeps, StutterKeeps
    <3> QED BY <2>1, <3>1, NextTells
  <2> QED BY <2>1
<1>3. IInv /\ VInv => ViewIsTrue
  BY VInvShows
<1> QED BY <1>1, <1>2, <1>3, PTL DEF Spec

-----------------------------------------------------------------------------
(* The choice of a locale *)

Traditional(parts) == \E i \in DOMAIN parts : parts[i] \in {"hant", "tw", "hk", "mo"}
Simplified(parts) == Len(parts) = 1 \/ \E i \in DOMAIN parts : parts[i] \in {"hans", "cn", "sg"}
HasLocale(parts) == \E l \in Locales : Parts[l] = parts

\* Whatever languages there are and whichever are offered: a locale that is
\* offered is the one chosen; who reads another language gets some locale of it,
\* or the base if there is none; and of Chinese, the simplified one and only
\* when nothing asks for the traditional script (checkLocale).
THEOREM LocaleFits ==
  ASSUME NEW parts, NEW l, l = CheckLocale(parts)
  PROVE  /\ l \in Locales
         /\ HasLocale(parts) => Parts[l] = parts
         /\ ~HasLocale(parts) /\ parts[1] # "zh" =>
               IF \E x \in Locales : Parts[x][1] = parts[1]
               THEN Parts[l][1] = parts[1] ELSE l = BaseLocale
         /\ ~HasLocale(parts) /\ parts[1] = "zh" =>
               IF ~Traditional(parts) /\ Simplified(parts) /\ HasLocale(<<"zh", "cn">>)
               THEN Parts[l] = <<"zh", "cn">> ELSE l = BaseLocale
<1> DEFINE of(ps) == CHOOSE x \in Locales : Parts[x] = ps
           cousins == {i \in DOMAIN AvailableLocales : Parts[AvailableLocales[i]][1] = parts[1]}
           least(i) == \A j \in cousins : i <= j
           first == CHOOSE i \in cousins : least(i)
<1>1. \A ps : HasLocale(ps) => of(ps) \in Locales /\ Parts[of(ps)] = ps
  BY DEF HasLocale
<1>2. \A x \in Locales : \E i \in DOMAIN AvailableLocales : AvailableLocales[i] = x
  BY DEF Locales, Range
<1>3. cousins = {} <=> ~\E x \in Locales : Parts[x][1] = parts[1]
  <2>1. \A i \in DOMAIN AvailableLocales : AvailableLocales[i] \in Locales
    BY DEF Locales, Range
  <2> QED BY <1>2, <2>1
<1>4. cousins # {} => Parts[AvailableLocales[first]][1] = parts[1]
  <2> SUFFICES ASSUME cousins # {} PROVE Parts[AvailableLocales[first]][1] = parts[1]
    OBVIOUS
  <2>1. cousins \subseteq Nat
    BY LocaleAssumption, LenProperties
  <2>2. PICK i \in cousins : \A j \in cousins : i <= j
    <3> HIDE DEF cousins
    <3> QED BY <2>1, LeastNat
  <2>3. least(i)
    BY <2>2
  <2>4. first \in cousins
    <3> HIDE DEF least, cousins
    <3> QED BY <2>3
  <2> QED BY <2>4
<1>5. l = IF HasLocale(parts) THEN of(parts)
          ELSE IF parts[1] = "zh"
          THEN IF ~Traditional(parts) /\ Simplified(parts) /\ HasLocale(<<"zh", "cn">>)
               THEN of(<<"zh", "cn">>) ELSE BaseLocale
          ELSE IF HasLocale(<<parts[1]>>) THEN of(<<parts[1]>>)
          ELSE IF cousins # {} THEN AvailableLocales[first] ELSE BaseLocale
  BY DEF CheckLocale, HasLocale, Traditional, Simplified
<1> HIDE DEF of, cousins, first
<1>6. l \in Locales
  BY CheckLocaleFinds
<1>7. CASE HasLocale(parts)
  BY <1>1, <1>5, <1>6, <1>7
<1>8. CASE ~HasLocale(parts) /\ parts[1] = "zh"
  BY <1>1, <1>5, <1>6, <1>8
<1>9. CASE ~HasLocale(parts) /\ parts[1] # "zh"
  <2>1. CASE HasLocale(<<parts[1]>>)
    <3>1. l \in Locales /\ Parts[l] = <<parts[1]>>
      BY <1>1, <1>5, <1>9, <2>1
    <3>2. Parts[l][1] = parts[1]
      BY <3>1
    <3> QED BY <1>9, <3>1, <3>2
  <2>2. CASE ~HasLocale(<<parts[1]>>)
    BY <1>3, <1>4, <1>5, <1>6, <1>9, <2>2
  <2> QED BY <2>1, <2>2
<1> QED BY <1>7, <1>8, <1>9
=============================================================================
