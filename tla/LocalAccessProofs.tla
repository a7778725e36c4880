-------------------------- MODULE LocalAccessProofs --------------------------
(***************************************************************************)
(* Proofs about Settings and LocalAccess, for any number of probes, writes *)
(* and pages' calls and every value of the bounds.                         *)
(*                                                                         *)
(* The chain of writes: only its oldest write has been given to the        *)
(* browser, with the memory and the one setting it changes; so that the    *)
(* durable copy is the memory or that write.  The revision: a probe that   *)
(* is still the newest began after browser access was last selected, and   *)
(* so did the read.  The permission: while no call fails and nothing goes  *)
(* away, either the chain ends with native access or a page is on its way  *)
(* to give the permission up.                                              *)
(***************************************************************************)
EXTENDS LocalAccess, SequenceTheorems, TLAPS

-----------------------------------------------------------------------------
(* The inductive invariant *)

\* The oldest write and the rest of the chain.
SettingsInv ==
    /\ \A i \in 1..Len(writes) : i # 1 => writes[i].next = None
    /\ \A i \in 1..Len(writes) : writes[i].landed => writes[i].next # None
    /\ writes # << >> /\ writes[1].next # None
          => writes[1].next = Updated(settings, writes[1].update)
    /\ stored = IF writes # << >> /\ writes[1].landed THEN writes[1].next ELSE settings

UnderWay(k) == Probing(k, "contains") \/ Probing(k, "ping")

\* A probe that is still the newest began after browser access was last selected.
ProbeOK(call, newest, selected) ==
    /\ call.pc \in {"contains", "ping"}
          => /\ call.rev <= newest
             /\ call.rev = newest => call.since = selected
             /\ call.kind = "native"
    /\ call.pc = "allowed" => call.kind = "browser"
    /\ call.pc = "answered" => [kind |-> call.kind, host |-> call.host] \in Views

ProbesInv == \A k \in Asks : asks[k] # None => ProbeOK(asks[k], revision, switches)

ReadInv == reading # None => reading = switches /\ settings.method = "native"

\* What nobody has found out yet, the newest probe will.
CheckingInv ==
    access.host = "checking" /\ probed
        => \E k \in Asks : UnderWay(k) /\ IsNewest(k)

\* The access method once the chain is through.
EndsNative ==
    \/ \E i \in 1..Len(writes) :
          /\ writes[i].update = <<"method", "native">>
          /\ \A j \in 1..Len(writes) : j > i => writes[j].update[1] # "method"
    \/ /\ settings.method = "native"
       /\ \A i \in 1..Len(writes) : writes[i].update[1] # "method"

\* A page that will remove the permission.
OptionsRemoves ==
    options.target = "browser" /\ options.pc \in {"setting", "set", "checking", "removing"}
PopupRemoves == popup.pc \in {"setting", "set"}

PermissionInv ==
    closes = 0 /\ unloads = 0 /\ failures = 0 /\ permission
        => EndsNative \/ OptionsRemoves \/ PopupRemoves

IInv ==
    /\ TypeOK
    /\ SettingsInv
    /\ ProbesInv
    /\ EvidenceIsCurrent
    /\ ReadInv
    /\ CheckingInv
    /\ WarnsOfSelected
    /\ options.shown <= options.request
    /\ PermissionInv

-----------------------------------------------------------------------------
(* The chain of writes *)

LEMMA UpdatedIs ==
  ASSUME NEW s \in AppSettings, NEW u \in Updates
  PROVE  /\ Updated(s, u) \in AppSettings
         /\ \A f \in {"enabled", "method"} :
               Updated(s, u)[f] = IF u[1] = f THEN u[2] ELSE s[f]
         /\ u[1] \in {"enabled", "method"} /\ u = <<u[1], u[2]>>
         /\ u[1] = "method" => u[2] \in Methods
<1>1. CASE u \in {"enabled"} \X BOOLEAN
  BY <1>1 DEF Updated, AppSettings
<1>2. CASE u \in {"method"} \X Methods
  BY <1>2 DEF Updated, AppSettings
<1> QED BY <1>1, <1>2 DEF Updates

ChainInv == SettingsTypeOK /\ SettingsInv

LEMMA WritesAre ==
  ASSUME SettingsTypeOK
  PROVE  /\ writes \in Seq(Writes) /\ Len(writes) \in Nat
         /\ DOMAIN writes = 1..Len(writes)
         /\ \A i \in 1..Len(writes) : writes[i] \in Writes /\ writes[i].update \in Updates
         /\ writes = << >> <=> Len(writes) = 0
         /\ writes # << >> => Head(writes) = writes[1] /\ 1 \in 1..Len(writes)
<1>1. writes \in Seq(Writes)
  BY DEF SettingsTypeOK
<1>2. Len(writes) \in Nat /\ DOMAIN writes = 1..Len(writes)
      /\ (writes = << >> <=> Len(writes) = 0)
  BY <1>1, LenProperties, EmptySeq
<1>3. \A i \in 1..Len(writes) : writes[i] \in Writes
  BY <1>1, ElementOfSeq
<1>4. \A i \in 1..Len(writes) : writes[i].update \in Updates
  BY <1>3 DEF Writes
<1>5. writes # << >> => Head(writes) = writes[1]
  BY <1>1, HeadTailProperties
<1> QED BY <1>1, <1>2, <1>3, <1>4, <1>5

LEMMA TailIs ==
  ASSUME SettingsTypeOK, writes # << >>
  PROVE  /\ Tail(writes) \in Seq(Writes) /\ Len(Tail(writes)) = Len(writes) - 1
         /\ \A i \in 1..Len(Tail(writes)) : Tail(writes)[i] = writes[i + 1] /\ i + 1 \in 2..Len(writes)
         /\ \A i \in 2..Len(writes) : i - 1 \in 1..Len(Tail(writes))
         /\ Tail(writes) # << >> => 1 \in 1..Len(Tail(writes))
<1>1. /\ Tail(writes) \in Seq(Writes) /\ Len(Tail(writes)) = Len(writes) - 1
      /\ \A i \in 1..Len(Tail(writes)) : Tail(writes)[i] = writes[i + 1]
  BY WritesAre, HeadTailProperties
<1>2. Len(writes) \in Nat
  BY WritesAre
<1>3. Tail(writes) # << >> => Len(Tail(writes)) # 0
  BY <1>1, EmptySeq
<1> QED BY <1>1, <1>2, <1>3

LEMMA QueueIs ==
  ASSUME SettingsTypeOK, NEW update \in Updates, NEW page \in Pages \cup {None},
         queueSettingsWrite(update, page)
  PROVE  /\ writes' \in Seq(Writes) /\ Len(writes') = Len(writes) + 1
         /\ \A i \in 1..Len(writes) : writes'[i] = writes[i]
         /\ writes'[Len(writes')].update = update /\ writes'[Len(writes')].next = None
         /\ ~writes'[Len(writes')].landed
<1> DEFINE w == [update |-> update, from |-> page, next |-> None, landed |-> FALSE]
<1>1. w \in Writes /\ w.update = update /\ w.next = None /\ ~w.landed
  BY DEF Writes
<1>2. writes' = Append(writes, w)
  BY DEF queueSettingsWrite
<1> HIDE DEF w
<1>3. writes \in Seq(Writes) /\ Len(writes) \in Nat
  BY WritesAre
<1>4. /\ writes' \in Seq(Writes) /\ Len(writes') = Len(writes) + 1
      /\ \A i \in 1..Len(writes) : writes'[i] = writes[i]
      /\ writes'[Len(writes) + 1] = w
  BY <1>1, <1>2, <1>3, AppendProperties
<1> QED BY <1>1, <1>4

LEMMA QueueKeeps ==
  ASSUME ChainInv, NEW update \in Updates, NEW page \in Pages \cup {None},
         queueSettingsWrite(update, page)
  PROVE  ChainInv'
<1>1. /\ writes' \in Seq(Writes) /\ Len(writes') = Len(writes) + 1
      /\ \A i \in 1..Len(writes) : writes'[i] = writes[i]
      /\ writes'[Len(writes')].next = None
      /\ ~writes'[Len(writes')].landed
  BY QueueIs DEF ChainInv
<1>2. settings' = settings /\ stored' = stored
  BY DEF queueSettingsWrite
<1>3. Len(writes) \in Nat /\ (writes # << >> => 1 \in 1..Len(writes))
      /\ (writes = << >> <=> Len(writes) = 0)
  BY WritesAre DEF ChainInv
<1>4. SettingsTypeOK'
  BY <1>1, <1>2 DEF ChainInv, SettingsTypeOK
<1>5. SettingsInv'
  <2>1. CASE writes = << >>
    BY <2>1, <1>1, <1>2, <1>3 DEF ChainInv, SettingsInv
  <2>2. CASE writes # << >>
    <3>1. writes'[1] = writes[1] /\ 1 \in 1..Len(writes) /\ writes' # << >>
      BY <2>2, <1>1, <1>3, EmptySeq
    <3>2. \A i \in 1..Len(writes') : i \in 1..Len(writes) \/ i = Len(writes')
      BY <1>1, <1>3
    <3>3. \A i \in 1..Len(writes') : i # 1 => writes'[i].next = None
      BY <1>1, <3>2 DEF ChainInv, SettingsInv
    <3>4. \A i \in 1..Len(writes') : writes'[i].landed => writes'[i].next # None
      BY <1>1, <3>2 DEF ChainInv, SettingsInv
    <3>5. writes[1].next # None => writes[1].next = Updated(settings, writes[1].update)
      BY <2>2 DEF ChainInv, SettingsInv
    <3> QED BY <2>2, <1>2, <3>1, <3>3, <3>4, <3>5 DEF ChainInv, SettingsInv, Updated
  <2> QED BY <2>1, <2>2
<1> QED BY <1>4, <1>5 DEF ChainInv

\* Steps that change one write of the chain in place.
LEMMA ChangedWrite ==
  ASSUME SettingsTypeOK, NEW i \in 1..Len(writes), NEW w \in Writes,
         writes' = [writes EXCEPT ![i] = w]
  PROVE  /\ writes' \in Seq(Writes) /\ Len(writes') = Len(writes)
         /\ \A j \in 1..Len(writes) : writes'[j] = IF j = i THEN w ELSE writes[j]
         /\ writes' # << >>
BY WritesAre, ExceptSeq, EmptySeq

LEMMA IssueKeeps ==
  ASSUME ChainInv, IssueWrite
  PROVE  ChainInv'
<1>1. /\ 1 \in 1..Len(writes) /\ writes[1].next = None /\ settings' = settings /\ stored' = stored
      /\ writes' = [writes EXCEPT ![1].next = Updated(settings, writes[1].update)]
  BY WritesAre DEF IssueWrite, MayIssue, ChainInv
<1> DEFINE new == Updated(settings, writes[1].update)
           w == [writes[1] EXCEPT !.next = new]
<1>2. writes[1] \in Writes /\ writes[1].update \in Updates
  BY <1>1, WritesAre DEF ChainInv
<1>3. new \in AppSettings
  BY <1>2, UpdatedIs DEF ChainInv, SettingsTypeOK
<1>4. writes' = [writes EXCEPT ![1] = w]
  BY <1>1
<1> HIDE DEF new
<1>6. w \in Writes /\ w.next = new /\ w.update = writes[1].update /\ w.landed = writes[1].landed
  BY <1>2, <1>3 DEF Writes
<1>7. ~writes[1].landed
  BY <1>1 DEF ChainInv, SettingsInv
<1> HIDE DEF w
<1>8. /\ writes' \in Seq(Writes) /\ Len(writes') = Len(writes)
      /\ \A j \in 1..Len(writes) : writes'[j] = IF j = 1 THEN w ELSE writes[j]
      /\ writes' # << >> /\ writes'[1] = w
  BY <1>1, <1>4, <1>6, ChangedWrite DEF ChainInv
<1>9. writes # << >>
  BY <1>1, EmptySeq
<1>10. SettingsInv'
  BY <1>1, <1>6, <1>7, <1>8, <1>9 DEF ChainInv, SettingsInv, Updated, new
<1> QED BY <1>1, <1>8, <1>10 DEF ChainInv, SettingsTypeOK

LEMMA LandKeeps ==
  ASSUME ChainInv, LandWrite
  PROVE  /\ ChainInv'
         /\ 1 \in 1..Len(writes) /\ ~writes[1].landed /\ stored = settings
         /\ stored' = Updated(settings, writes[1].update)
         /\ Len(writes') = Len(writes)
         /\ \A j \in 1..Len(writes) : writes'[j].update = writes[j].update
<1>1. /\ 1 \in 1..Len(writes) /\ writes[1].next # None /\ ~writes[1].landed
      /\ settings' = settings /\ stored' = writes[1].next
      /\ writes' = [writes EXCEPT ![1].landed = TRUE]
  BY WritesAre DEF LandWrite, ChainInv, SettingsInv
<1> DEFINE w == [writes[1] EXCEPT !.landed = TRUE]
<1>2. writes[1] \in Writes /\ writes' = [writes EXCEPT ![1] = w]
  BY <1>1, WritesAre DEF ChainInv
<1>3. w \in Writes /\ w.next = writes[1].next /\ w.update = writes[1].update /\ w.landed
  BY <1>2 DEF Writes
<1> HIDE DEF w
<1>4. /\ writes' \in Seq(Writes) /\ Len(writes') = Len(writes)
      /\ \A j \in 1..Len(writes) : writes'[j] = IF j = 1 THEN w ELSE writes[j]
      /\ writes' # << >> /\ writes'[1] = w
  BY <1>1, <1>2, <1>3, ChangedWrite DEF ChainInv
<1>5. writes # << >>
  BY <1>1, EmptySeq
<1>6. writes[1].next = Updated(settings, writes[1].update) /\ stored = settings
  BY <1>1, <1>5 DEF ChainInv, SettingsInv
<1>7. writes[1].next \in AppSettings
  BY <1>1, <1>2 DEF Writes
<1>8. SettingsInv'
  <2>1. \A i \in 1..Len(writes') : i # 1 => writes'[i].next = None
    BY <1>4 DEF ChainInv, SettingsInv
  <2>2. \A i \in 1..Len(writes') : writes'[i].landed => writes'[i].next # None
    BY <1>1, <1>3, <1>4 DEF ChainInv, SettingsInv
  <2> QED BY <1>1, <1>3, <1>4, <1>6, <2>1, <2>2 DEF SettingsInv, Updated
<1>9. SettingsTypeOK'
  BY <1>1, <1>4, <1>7 DEF ChainInv, SettingsTypeOK
<1>10. \A j \in 1..Len(writes) : writes'[j].update = writes[j].update
  BY <1>3, <1>4
<1> QED BY <1>1, <1>4, <1>6, <1>8, <1>9, <1>10 DEF ChainInv

LEMMA SettleKeeps ==
  ASSUME ChainInv, SettleWrite
  PROVE  /\ ChainInv'
         /\ writes # << >> /\ settings' = Updated(settings, writes[1].update)
<1>1. /\ writes # << >> /\ writes[1].landed /\ settings' = Updated(settings, writes[1].update)
      /\ writes' = Tail(writes) /\ stored' = stored
  BY WritesAre DEF SettleWrite, Landed, ChainInv
<1>2. /\ Len(writes') = Len(writes) - 1 /\ writes' \in Seq(Writes)
      /\ \A i \in 1..Len(writes') : writes'[i] = writes[i + 1] /\ i + 1 \in 2..Len(writes)
      /\ writes' # << >> => 1 \in 1..Len(writes')
  BY <1>1, TailIs DEF ChainInv
<1>3. 1 \in 1..Len(writes) /\ writes[1].update \in Updates /\ Len(writes) \in Nat
  BY <1>1, WritesAre DEF ChainInv
<1>4. writes[1].next = settings' /\ stored = settings'
  BY <1>1, <1>3 DEF ChainInv, SettingsInv
<1>5. \A i \in 1..Len(writes') : writes'[i].next = None /\ ~writes'[i].landed
  <2>1. \A i \in 2..Len(writes) : writes[i].next = None /\ ~writes[i].landed
    BY <1>3 DEF ChainInv, SettingsInv
  <2> QED BY <1>2, <2>1
<1>6. SettingsInv'
  BY <1>1, <1>2, <1>4, <1>5 DEF SettingsInv
<1>7. settings' \in AppSettings
  BY <1>1, <1>3, UpdatedIs DEF ChainInv, SettingsTypeOK
<1> QED BY <1>1, <1>2, <1>6, <1>7 DEF ChainInv, SettingsTypeOK

LEMMA FailKeeps ==
  ASSUME ChainInv, FailWrite
  PROVE  ChainInv'
<1>1. /\ writes # << >> /\ writes[1].next # None /\ ~writes[1].landed
      /\ writes' = Tail(writes) /\ stored' = stored /\ settings' = settings
  BY WritesAre DEF FailWrite, Issued, ChainInv
<1>2. /\ Len(writes') = Len(writes) - 1 /\ writes' \in Seq(Writes)
      /\ \A i \in 1..Len(writes') : writes'[i] = writes[i + 1] /\ i + 1 \in 2..Len(writes)
      /\ writes' # << >> => 1 \in 1..Len(writes')
  BY <1>1, TailIs DEF ChainInv
<1>3. Len(writes) \in Nat
  BY <1>1, WritesAre DEF ChainInv
<1>4. \A i \in 1..Len(writes') : writes'[i].next = None /\ ~writes'[i].landed
  <2>1. \A i \in 2..Len(writes) : writes[i].next = None /\ ~writes[i].landed
    BY <1>3 DEF ChainInv, SettingsInv
  <2> QED BY <1>2, <2>1
<1>5. SettingsInv'
  BY <1>1, <1>2, <1>4 DEF ChainInv, SettingsInv
<1> QED BY <1>1, <1>2, <1>5 DEF ChainInv, SettingsTypeOK

LEMMA ReloadKeeps ==
  ASSUME ChainInv, ReloadSettings
  PROVE  /\ ChainInv' /\ settings' \in AppSettings
         /\ \/ stored' = stored
            \/ /\ 1 \in 1..Len(writes) /\ ~writes[1].landed /\ stored = settings
               /\ stored' = Updated(settings, writes[1].update)
<1>1. /\ stored' = settings' /\ writes' = << >>
      /\ \/ stored' = stored
         \/ Issued /\ stored' = Head(writes).next
  BY DEF ReloadSettings
<1>2. ASSUME Issued
      PROVE  /\ 1 \in 1..Len(writes) /\ ~writes[1].landed /\ stored = settings
             /\ writes[1].next = Updated(settings, writes[1].update)
             /\ writes[1].next = Head(writes).next
             /\ writes[1].next \in AppSettings
  <2>1. writes # << >> /\ writes[1].next # None /\ ~writes[1].landed /\ 1 \in 1..Len(writes)
        /\ Head(writes) = writes[1] /\ writes[1] \in Writes
    BY <1>2, WritesAre DEF Issued, ChainInv
  <2>2. writes[1].next \in AppSettings
    BY <2>1 DEF Writes
  <2> QED BY <2>1, <2>2 DEF ChainInv, SettingsInv
<1>3. stored' \in AppSettings
  BY <1>1, <1>2 DEF ChainInv, SettingsTypeOK
<1>4. SettingsTypeOK'
  BY <1>1, <1>3 DEF SettingsTypeOK
<1>5. SettingsInv'
  <2>1. Len(writes') = 0
    BY <1>1
  <2> QED BY <1>1, <2>1 DEF SettingsInv
<1> QED BY <1>1, <1>2, <1>3, <1>4, <1>5 DEF ChainInv

\* The popup's write goes on without the popup.
Relabel ==
    /\ writes' = [i \in DOMAIN writes |->
                    IF writes[i].from = "popup" THEN [writes[i] EXCEPT !.from = None]
                                                ELSE writes[i]]
    /\ UNCHANGED <<settings, stored>>

LEMMA RelabelKeeps ==
  ASSUME ChainInv, Relabel
  PROVE  /\ ChainInv' /\ Len(writes') = Len(writes)
         /\ \A i \in 1..Len(writes) : writes'[i].update = writes[i].update
<1>1. \A i \in 1..Len(writes) :
        LET w == IF writes[i].from = "popup" THEN [writes[i] EXCEPT !.from = None] ELSE writes[i]
        IN  w \in Writes /\ w.next = writes[i].next /\ w.update = writes[i].update
            /\ w.landed = writes[i].landed
  <2>1. \A w \in Writes : [w EXCEPT !.from = None] \in Writes
    BY DEF Writes
  <2> QED BY <2>1, WritesAre DEF ChainInv, Writes
<1>2. DOMAIN writes = 1..Len(writes) /\ Len(writes) \in Nat
  BY WritesAre DEF ChainInv
<1>3. /\ writes' \in Seq(Writes) /\ Len(writes') = Len(writes)
      /\ \A i \in 1..Len(writes) :
            /\ writes'[i].next = writes[i].next /\ writes'[i].update = writes[i].update
            /\ writes'[i].landed = writes[i].landed
  BY <1>1, <1>2 DEF Relabel
<1>4. settings' = settings /\ stored' = stored
  BY DEF Relabel
<1>5. (writes' = << >> <=> writes = << >>) /\ (writes # << >> => 1 \in 1..Len(writes))
  BY <1>3, WritesAre, EmptySeq DEF ChainInv
<1>6. SettingsInv'
  BY <1>3, <1>4, <1>5 DEF ChainInv, SettingsInv, Updated
<1> QED BY <1>3, <1>4, <1>6 DEF ChainInv, SettingsTypeOK

\* What a step may do to the chain.
SettingsStep ==
    \/ \E update \in Updates, page \in Pages \cup {None} : queueSettingsWrite(update, page)
    \/ IssueWrite \/ LandWrite \/ SettleWrite \/ FailWrite \/ ReloadSettings \/ Relabel
    \/ UNCHANGED settingsVars

LEMMA NextSettings == [Next]_vars => SettingsStep
<1> SUFFICES ASSUME [Next]_vars PROVE SettingsStep
  OBVIOUS
<1>1. "options" \in Pages /\ "popup" \in Pages
      /\ (\A m \in Methods : <<"method", m>> \in Updates)
      /\ (\A b \in BOOLEAN : <<"enabled", b>> \in Updates)
      /\ "browser" \in Methods /\ "native" \in Methods
  BY PagesAssumption DEF Updates, Methods
<1>2. CASE Storage \/ Settled \/ Unsettled
  BY <1>2 DEF Storage, Settled, Unsettled, SettingsStep
<1>3. CASE SetEnabled
  BY <1>1, <1>3 DEF SetEnabled, SettingsStep
<1>4. CASE StartRead \/ EndRead \/ HostDies
  BY <1>4 DEF StartRead, EndRead, HostDies, SettingsStep
<1>5. ASSUME NEW k \in Asks, PermissionChecked(k) \/ Pinged(k) \/ AllowedChecked(k) \/ Answer(k)
      PROVE  SettingsStep
  BY <1>5 DEF PermissionChecked, Pinged, AllowedChecked, Answer, SettingsStep
<1>6. ASSUME NEW method \in Methods, changeLocalSourceAccessMethod(method)
      PROVE  SettingsStep
  BY <1>1, <1>6 DEF changeLocalSourceAccessMethod, send, SettingsStep
<1>7. CASE RequestAnswered
  BY <1>1, <1>7 DEF RequestAnswered, send, SettingsStep, settingsVars
<1>8. CASE MethodSet \/ MethodNotSet \/ Focus \/ RemovePermission \/ OpenPopup \/ PopupSet
  BY <1>8 DEF MethodSet, MethodNotSet, Focus, RemovePermission, OpenPopup, PopupSet, SettingsStep
<1>9. CASE useBrowserFileAccess
  BY <1>1, <1>9 DEF useBrowserFileAccess, SettingsStep
<1>10. CASE ClosePopup
  BY <1>10 DEF ClosePopup, Relabel, SettingsStep
<1>11. CASE Unload
  BY <1>11 DEF Unload, SettingsStep
<1>12. CASE UNCHANGED vars
  BY <1>12 DEF vars, SettingsStep
<1> QED
  BY <1>2, <1>3, <1>4, <1>5, <1>6, <1>7, <1>8, <1>9, <1>10, <1>11, <1>12 DEF Next

LEMMA ChainKeeps == ChainInv /\ [Next]_vars => ChainInv'
<1>1. ASSUME ChainInv, UNCHANGED settingsVars PROVE ChainInv'
  BY <1>1 DEF ChainInv, settingsVars, SettingsTypeOK, SettingsInv, Updated
<1> QED
  BY <1>1, NextSettings, QueueKeeps, IssueKeeps, LandKeeps, SettleKeeps, FailKeeps, ReloadKeeps,
     RelabelKeeps DEF SettingsStep

\* What storage.set is given differs from the memory in one setting.
LEMMA OneSetting ==
  ASSUME ChainInv, 1 \in 1..Len(writes), ~writes[1].landed, stored = settings,
         stored' = Updated(settings, writes[1].update),
         NEW f \in {"enabled", "method"}, stored'[f] # stored[f]
  PROVE  \E w \in ToSet(writes) : ~w.landed /\ w.update = <<f, stored'[f]>>
<1>1. settings \in AppSettings /\ writes[1].update \in Updates /\ DOMAIN writes = 1..Len(writes)
  BY WritesAre DEF ChainInv, SettingsTypeOK
<1>2. writes[1].update = <<f, stored'[f]>>
  BY <1>1, UpdatedIs
<1>3. writes[1] \in ToSet(writes)
  BY <1>1 DEF ToSet
<1> QED BY <1>2, <1>3

LEMMA OnlyOne ==
  ASSUME ChainInv, [Next]_vars, NEW f \in {"enabled", "method"}, stored'[f] # stored[f]
  PROVE  \E w \in ToSet(writes) : ~w.landed /\ w.update = <<f, stored'[f]>>
<1>1. LandWrite \/ ReloadSettings
  BY NextSettings DEF SettingsStep, queueSettingsWrite, IssueWrite, SettleWrite, FailWrite, Relabel,
     settingsVars
<1> QED BY <1>1, LandKeeps, ReloadKeeps, OneSetting

-----------------------------------------------------------------------------
(* LocalSourceAccess: the state, its revision and the probes *)

AccessOK(state) ==
    /\ state \in [host : Hosts, since : Nat]
    /\ state.host # "checking" => state.since = switches

HostTypeOK ==
    /\ access \in [host : Hosts, since : Nat]
    /\ revision \in Nat /\ switches \in Nat /\ probed \in BOOLEAN
    /\ asks \in [Asks -> {None} \cup Calls]
    /\ reading = None \/ reading \in Nat

HostInv == HostTypeOK /\ ProbesInv /\ EvidenceIsCurrent /\ ReadInv /\ CheckingInv

LEMMA ProbesAre ==
  ASSUME HostInv, NEW k \in Asks
  PROVE  /\ asks[k] # None => asks[k] \in Calls /\ ProbeOK(asks[k], revision, switches)
         /\ \A pc : Probing(k, pc) => asks[k] # None /\ asks[k].pc = pc
         /\ AccessOK(access)
BY DEF HostInv, HostTypeOK, ProbesInv, Probing, AccessOK, EvidenceIsCurrent

LEMMA LaterProbe ==
  ASSUME NEW call \in Calls, NEW r1 \in Nat, NEW r2 \in Nat, NEW s1 \in Nat, NEW s2 \in Nat,
         ProbeOK(call, r1, s1), r1 < r2 \/ (r1 = r2 /\ s1 = s2)
  PROVE  ProbeOK(call, r2, s2)
BY DEF ProbeOK, Calls

LEMMA AppliedIs ==
  ASSUME HostInv, NEW k \in Asks, UnderWay(k), NEW host \in Hosts
  PROVE  AccessOK(applyProbeState(k, host))
<1>1. asks[k] \in Calls /\ ProbeOK(asks[k], revision, switches) /\ asks[k].pc \in {"contains", "ping"}
  BY ProbesAre DEF UnderWay
<1>2. AccessOK(access)
  BY ProbesAre
<1>3. asks[k].since \in Nat
  BY <1>1 DEF Calls
<1> QED BY <1>1, <1>2, <1>3 DEF AccessOK, applyProbeState, IsNewest, ProbeOK

\* A read that fails after the switch is not heard: there is none.
LEMMA MarkIs ==
  ASSUME HostInv, NEW state, AccessOK(state), markReadFailed(state), switches' = switches
  PROVE  /\ access' \in [host : Hosts, since : Nat]
         /\ revision' \in Nat /\ revision' >= revision /\ probed' \in BOOLEAN
         /\ EvidenceIsCurrent'
         /\ \/ access' = state /\ revision' = revision /\ probed' = probed
            \/ ~probed' /\ revision' = revision + 1
<1>1. revision \in Nat /\ probed \in BOOLEAN /\ (reading # None => reading \in Nat /\ reading = switches)
  BY DEF HostInv, HostTypeOK, ReadInv
<1>2. CASE reading = None \/ settings.method # "native"
  BY <1>1, <1>2 DEF markReadFailed, AccessOK, EvidenceIsCurrent
<1>3. CASE reading # None /\ settings.method = "native"
  <2> DEFINE h == IF state.host \in {"missing", "missingReadFailed"} THEN "missingReadFailed"
                                                                  ELSE "readFailed"
  <2>1. access' = [host |-> h, since |-> reading] /\ revision' = revision + 1 /\ probed' = FALSE
    BY <1>3 DEF markReadFailed
  <2>2. h \in Hosts
    BY DEF Hosts
  <2> HIDE DEF h
  <2>3. reading \in Nat /\ reading = switches' /\ revision \in Nat
    BY <1>1, <1>3
  <2>4. access' \in [host : Hosts, since : Nat] /\ access'.since = switches'
    BY <2>1, <2>2, <2>3
  <2>5. revision' \in Nat /\ revision' >= revision
    BY <2>1, <2>3
  <2> QED BY <2>1, <2>4, <2>5 DEF EvidenceIsCurrent
<1> QED BY <1>2, <1>3

LEMMA RejectedIs ==
  ASSUME NEW as \in [Asks -> {None} \cup Calls], NEW host \in Hosts,
         revision \in Nat, switches \in Nat,
         \A k \in Asks : as[k] # None => ProbeOK(as[k], revision, switches)
  PROVE  /\ Rejected(as, host) \in [Asks -> {None} \cup Calls]
         /\ \A k \in Asks : Rejected(as, host)[k] # None
               => ProbeOK(Rejected(as, host)[k], revision, switches)
         /\ \A k \in Asks : as[k] # None /\ as[k].pc = "contains" => Rejected(as, host)[k] = as[k]
<1> DEFINE new(k) == IF as[k] # None /\ as[k].pc = "ping"
                     THEN [as[k] EXCEPT !.pc = "answered",
                                  !.host = IF as[k].rev = revision THEN "disconnected" ELSE host]
                     ELSE as[k]
<1>1. Rejected(as, host) = [k \in Asks |-> new(k)]
  BY DEF Rejected
<1>2. ASSUME NEW k \in Asks
      PROVE  /\ new(k) \in {None} \cup Calls
             /\ new(k) # None => ProbeOK(new(k), revision, switches)
             /\ as[k] # None /\ as[k].pc = "contains" => new(k) = as[k]
  <2>1. CASE as[k] # None /\ as[k].pc = "ping"
    <3>1. as[k] \in Calls /\ as[k].kind = "native"
      BY <2>1 DEF ProbeOK
    <3> DEFINE h == IF as[k].rev = revision THEN "disconnected" ELSE host
    <3>2. h \in Hosts /\ new(k) = [as[k] EXCEPT !.pc = "answered", !.host = h]
      BY <2>1 DEF Hosts
    <3> HIDE DEF h, new
    <3>3. new(k) \in Calls /\ new(k).pc = "answered" /\ new(k).kind = "native" /\ new(k).host \in Hosts
      BY <3>1, <3>2 DEF Calls, Phases
    <3> QED BY <2>1, <3>3 DEF ProbeOK, Views
  <2>2. CASE ~(as[k] # None /\ as[k].pc = "ping")
    BY <2>2
  <2> QED BY <2>1, <2>2
<1> HIDE DEF new
<1> QED BY <1>1, <1>2

LEMMA SameHost ==
  ASSUME HostInv, UNCHANGED <<background, asks>>, settings'.method = settings.method
  PROVE  HostInv'
BY DEF HostInv, HostTypeOK, ProbesInv, EvidenceIsCurrent, ReadInv, CheckingInv, background,
       UnderWay, Probing, IsNewest

LEMMA AskKeeps ==
  ASSUME HostInv, NEW k \in Asks, NEW request \in Nat, getState(k, request), settings' = settings,
         settings.method \in Methods
  PROVE  HostInv'
<1>1. reading' = reading /\ switches' = switches /\ asks[k] = None
  BY DEF getState
<1>2. CASE settings.method = "browser"
  <2> DEFINE new == [pc |-> "allowed", rev |-> 0, since |-> 0, request |-> request,
                     kind |-> "browser", host |-> "denied"]
  <2>1. asks' = [asks EXCEPT ![k] = new] /\ UNCHANGED <<access, revision, probed>>
    BY <1>2 DEF getState
  <2>2. new \in Calls /\ ProbeOK(new, revision, switches) /\ new.pc = "allowed"
    BY DEF Calls, Phases, Methods, ProbeOK
  <2> HIDE DEF new
  <2>3. asks' \in [Asks -> {None} \cup Calls] /\ asks'[k] = new
        /\ \A j \in Asks \ {k} : asks'[j] = asks[j]
    BY <2>1, <2>2 DEF HostInv, HostTypeOK
  <2>4. ProbesInv'
    BY <1>1, <2>1, <2>2, <2>3 DEF ProbesInv, HostInv
  <2>5. CheckingInv'
    BY <1>1, <2>1, <2>3 DEF CheckingInv, HostInv, UnderWay, Probing, IsNewest
  <2> QED BY <1>1, <2>1, <2>3, <2>4, <2>5 DEF HostInv, HostTypeOK, EvidenceIsCurrent, ReadInv
<1>3. CASE settings.method # "browser"
  <2> DEFINE new == [pc |-> "contains", rev |-> revision + 1, since |-> switches,
                     request |-> request, kind |-> "native", host |-> "checking"]
  <2>1. asks' = [asks EXCEPT ![k] = new] /\ revision' = revision + 1 /\ probed' = TRUE
        /\ access' = Checking
    BY <1>3 DEF getState, Captured
  <2>2. revision \in Nat /\ switches \in Nat
    BY DEF HostInv, HostTypeOK
  <2>3. new \in Calls /\ ProbeOK(new, revision + 1, switches) /\ new.pc = "contains"
        /\ new.rev = revision + 1
    BY <2>2 DEF Calls, Phases, Methods, ProbeOK, Hosts
  <2> HIDE DEF new
  <2>4. asks' \in [Asks -> {None} \cup Calls] /\ asks'[k] = new
        /\ \A j \in Asks \ {k} : asks'[j] = asks[j]
    BY <2>1, <2>3 DEF HostInv, HostTypeOK
  <2>5. ProbesInv'
    <3>1. \A j \in Asks : asks[j] # None => ProbeOK(asks[j], revision + 1, switches)
      BY <2>2, ProbesAre, LaterProbe
    <3> QED BY <1>1, <2>1, <2>3, <2>4, <3>1 DEF ProbesInv
  <2>6. CheckingInv'
    <3>1. new # None
      BY <2>3, PagesAssumption
    <3> QED BY <2>1, <2>3, <2>4, <3>1 DEF CheckingInv, UnderWay, Probing, IsNewest
  <2>7. access' \in [host : Hosts, since : Nat] /\ access'.host = "checking"
    BY <2>1 DEF Checking, Hosts
  <2> QED BY <1>1, <2>1, <2>2, <2>4, <2>5, <2>6, <2>7
          DEF HostInv, HostTypeOK, EvidenceIsCurrent, ReadInv
<1> QED BY <1>2, <1>3

\* One call goes on.
LEMMA CallChanges ==
  ASSUME HostInv, NEW k \in Asks, NEW new \in Calls, asks[k] # None,
         ProbeOK(new, revision, switches)
  PROVE  /\ [asks EXCEPT ![k] = new] \in [Asks -> {None} \cup Calls]
         /\ \A j \in Asks : [asks EXCEPT ![k] = new][j] = IF j = k THEN new ELSE asks[j]
         /\ \A j \in Asks : [asks EXCEPT ![k] = new][j] # None
               => ProbeOK([asks EXCEPT ![k] = new][j], revision, switches)
BY DEF HostInv, HostTypeOK, ProbesInv

\* The state of the host after steps that end the pings.
LEMMA RejectingKeeps ==
  ASSUME HostInv, NEW as \in [Asks -> {None} \cup Calls], NEW host \in Hosts, NEW state,
         \A k \in Asks : as[k] # None => ProbeOK(as[k], revision, switches),
         AccessOK(state), markReadFailed(state), asks' = Rejected(as, host), reading' = None,
         switches' = switches,
         state.host = "checking" /\ probed
            => \E k \in Asks : as[k] # None /\ as[k].pc = "contains" /\ as[k].rev = revision
  PROVE  HostInv'
<1>1. revision \in Nat /\ switches \in Nat
  BY DEF HostInv, HostTypeOK
<1>2. /\ asks' \in [Asks -> {None} \cup Calls]
      /\ \A k \in Asks : asks'[k] # None => ProbeOK(asks'[k], revision, switches)
      /\ \A k \in Asks : as[k] # None /\ as[k].pc = "contains" => asks'[k] = as[k]
  BY <1>1, RejectedIs
<1>3. /\ access' \in [host : Hosts, since : Nat]
      /\ revision' \in Nat /\ revision' >= revision /\ probed' \in BOOLEAN
      /\ EvidenceIsCurrent'
      /\ \/ access' = state /\ revision' = revision /\ probed' = probed
         \/ ~probed' /\ revision' = revision + 1
  BY MarkIs
<1>4. ProbesInv'
  <2>1. \A k \in Asks : asks'[k] # None => ProbeOK(asks'[k], revision', switches)
    <3>1. ASSUME NEW k \in Asks, asks'[k] # None
          PROVE  ProbeOK(asks'[k], revision', switches)
      <4>1. asks'[k] \in Calls /\ ProbeOK(asks'[k], revision, switches)
        BY <1>2, <3>1
      <4>2. revision < revision' \/ revision = revision'
        BY <1>1, <1>3
      <4> QED BY <4>1, <4>2, <1>1, <1>3, LaterProbe
    <3> QED BY <3>1
  <2> QED BY <2>1 DEF ProbesInv
<1>5. CheckingInv'
  <2>1. ASSUME access'.host = "checking", probed'
        PROVE  \E k \in Asks : /\ asks'[k] # None /\ asks'[k].pc = "contains"
                              /\ asks'[k].rev = revision'
    <3>1. access' = state /\ revision' = revision /\ probed' = probed
      BY <2>1, <1>3
    <3> QED BY <2>1, <3>1, <1>2
  <2> QED BY <2>1 DEF CheckingInv, UnderWay, Probing, IsNewest
<1> QED BY <1>1, <1>2, <1>3, <1>4, <1>5 DEF HostInv, HostTypeOK, ReadInv

\* Where the newest probe is.
LEMMA NewestIs ==
  ASSUME HostInv, access.host = "checking", probed, NewestPing = {}
  PROVE  \E k \in Asks : asks[k] # None /\ asks[k].pc = "contains" /\ asks[k].rev = revision
BY DEF HostInv, CheckingInv, UnderWay, NewestPing, Probing, IsNewest

LEMMA NewestFails ==
  ASSUME HostInv, NewestPing # {}
  PROVE  LET state == applyProbeState(CHOOSE j \in NewestPing : TRUE, "disconnected")
         IN  AccessOK(state) /\ state.host = "disconnected"
<1> DEFINE j == CHOOSE i \in NewestPing : TRUE
<1>1. j \in NewestPing
  OBVIOUS
<1> HIDE DEF j
<1>2. j \in Asks /\ UnderWay(j) /\ IsNewest(j)
  BY <1>1 DEF NewestPing, UnderWay
<1>3. AccessOK(applyProbeState(j, "disconnected"))
  BY <1>2, AppliedIs DEF Hosts
<1>4. applyProbeState(j, "disconnected").host = "disconnected"
  BY <1>2 DEF applyProbeState
<1> QED BY <1>3, <1>4 DEF j

LEMMA FoundIs ==
  ASSUME HostInv
  PROVE  Found \subseteq Hosts
BY DEF HostInv, HostTypeOK, Found, Hosts

LEMMA PermissionCheckedHost ==
  ASSUME HostInv, NEW k \in Asks, PermissionChecked(k)
  PROVE  HostInv'
<1>1. /\ asks[k] # None /\ asks[k].pc = "contains" /\ asks[k] \in Calls
      /\ ProbeOK(asks[k], revision, switches)
      /\ settings' = settings /\ switches' = switches
  BY ProbesAre DEF PermissionChecked, settingsVars
<1>2. CASE /\ asks' = To(k, "ping")
           /\ UNCHANGED <<access, revision, probed, reading>>
  <2> DEFINE new == [asks[k] EXCEPT !.pc = "ping"]
  <2>1. asks' = [asks EXCEPT ![k] = new]
    BY <1>1, <1>2 DEF To, HostInv, HostTypeOK
  <2>2. new \in Calls /\ ProbeOK(new, revision, switches) /\ new.pc = "ping"
        /\ new.rev = asks[k].rev
    BY <1>1 DEF Calls, Phases, ProbeOK
  <2> HIDE DEF new
  <2>3. /\ asks' \in [Asks -> {None} \cup Calls]
        /\ \A j \in Asks : asks'[j] = IF j = k THEN new ELSE asks[j]
        /\ \A j \in Asks : asks'[j] # None => ProbeOK(asks'[j], revision, switches)
    BY <1>1, <2>1, <2>2, CallChanges
  <2>4. new # None
    BY <2>2, PagesAssumption
  <2>5. CheckingInv'
    <3>1. \A j \in Asks : UnderWay(j) /\ IsNewest(j) => (UnderWay(j) /\ IsNewest(j))'
      BY <1>1, <1>2, <2>2, <2>3, <2>4 DEF UnderWay, Probing, IsNewest
    <3> QED BY <1>2, <3>1 DEF CheckingInv, HostInv
  <2>6. ProbesInv'
    BY <1>1, <1>2, <2>3 DEF ProbesInv
  <2> QED BY <1>1, <1>2, <2>3, <2>5, <2>6 DEF HostInv, HostTypeOK, EvidenceIsCurrent, ReadInv
<1>3. CASE /\ \E host \in Found :
                 asks' = Rejected(Answered(k, IF IsNewest(k) THEN "missing" ELSE access.host), host)
           /\ markReadFailed(IF IsNewest(k) THEN applyProbeState(k, "missing")
                             ELSE IF NewestPing = {} THEN access
                             ELSE applyProbeState(CHOOSE j \in NewestPing : TRUE,
                                                  "disconnected"))
           /\ reading' = None
  <2> DEFINE h == IF IsNewest(k) THEN "missing" ELSE access.host
             new == [asks[k] EXCEPT !.pc = "answered", !.host = h]
             as == [asks EXCEPT ![k] = new]
             state == IF IsNewest(k) THEN applyProbeState(k, "missing")
                      ELSE IF NewestPing = {} THEN access
                      ELSE applyProbeState(CHOOSE j \in NewestPing : TRUE, "disconnected")
  <2>1. PICK host \in Hosts : asks' = Rejected(Answered(k, h), host)
    BY <1>3, FoundIs
  <2>2. Answered(k, h) = as
    BY <1>1 DEF Answered, HostInv, HostTypeOK
  <2>3. h \in Hosts
    BY DEF HostInv, HostTypeOK, Hosts
  <2>4. new \in Calls /\ new.pc = "answered" /\ ProbeOK(new, revision, switches)
    <3> HIDE DEF h
    <3>1. new \in Calls /\ new.pc = "answered" /\ new.kind = "native" /\ new.host \in Hosts
      BY <1>1, <2>3 DEF Calls, Phases, ProbeOK
    <3> HIDE DEF new
    <3> QED BY <3>1 DEF ProbeOK, Views
  <2>5. AccessOK(state)
        /\ (state.host = "checking" => ~IsNewest(k) /\ NewestPing = {} /\ state = access)
    <3>1. CASE IsNewest(k)
      <4>1. AccessOK(applyProbeState(k, "missing"))
        BY <1>1, AppliedIs DEF UnderWay, Probing, Hosts
      <4>2. applyProbeState(k, "missing").host = "missing"
        BY <3>1 DEF applyProbeState
      <4> QED BY <3>1, <4>1, <4>2
    <3>2. CASE ~IsNewest(k)
      BY <3>2, NewestFails, ProbesAre
    <3> QED BY <3>1, <3>2
  <2>6. ASSUME state.host = "checking", probed
        PROVE  \E j \in Asks : as[j] # None /\ as[j].pc = "contains" /\ as[j].rev = revision
    <3>1. ~IsNewest(k) /\ NewestPing = {} /\ access.host = "checking"
      BY <2>5, <2>6
    <3>2. PICK j \in Asks : asks[j] # None /\ asks[j].pc = "contains" /\ asks[j].rev = revision
      BY <2>6, <3>1, NewestIs
    <3>3. j # k
      BY <3>1, <3>2 DEF IsNewest
    <3>4. as[j] = asks[j]
      BY <3>3 DEF HostInv, HostTypeOK
    <3> QED BY <3>2, <3>4
  <2> HIDE DEF h, new
  <2>7. /\ as \in [Asks -> {None} \cup Calls]
        /\ \A j \in Asks : as[j] # None => ProbeOK(as[j], revision, switches)
    BY <1>1, <2>4, CallChanges
  <2>8. markReadFailed(state) /\ reading' = None /\ asks' = Rejected(as, host)
    BY <1>3, <2>1, <2>2
  <2> HIDE DEF as, state
  <2> QED BY <1>1, <2>5, <2>6, <2>7, <2>8, RejectingKeeps
<1> QED BY <1>2, <1>3 DEF PermissionChecked

LEMMA PingedHost ==
  ASSUME HostInv, NEW k \in Asks, Pinged(k)
  PROVE  HostInv'
<1>1. /\ asks[k] # None /\ asks[k].pc = "ping" /\ asks[k] \in Calls
      /\ ProbeOK(asks[k], revision, switches)
      /\ UNCHANGED <<settings, revision, probed, reading, switches>>
  BY ProbesAre DEF Pinged, settingsVars
<1>2. PICK host \in {"ready", "failed"} : access' = applyProbeState(k, host)
  BY DEF Pinged
<1>3. AccessOK(access')
  <2>1. UnderWay(k) /\ host \in Hosts
    BY <1>1 DEF UnderWay, Probing, Hosts
  <2> QED BY <1>2, <2>1, AppliedIs
<1> DEFINE new == [asks[k] EXCEPT !.pc = "answered", !.host = access'.host]
<1>4. asks' = [asks EXCEPT ![k] = new]
  BY <1>1 DEF Pinged, Answered, HostInv, HostTypeOK
<1>5. new \in Calls /\ new.pc = "answered" /\ ProbeOK(new, revision, switches)
  <2>1. access'.host \in Hosts
    BY <1>3 DEF AccessOK
  <2>2. new \in Calls /\ new.pc = "answered" /\ new.kind = "native" /\ new.host \in Hosts
    BY <1>1, <2>1 DEF Calls, Phases, ProbeOK
  <2> HIDE DEF new
  <2> QED BY <2>2 DEF ProbeOK, Views
<1> HIDE DEF new
<1>6. /\ asks' \in [Asks -> {None} \cup Calls]
      /\ \A j \in Asks : asks'[j] = IF j = k THEN new ELSE asks[j]
      /\ \A j \in Asks : asks'[j] # None => ProbeOK(asks'[j], revision, switches)
  BY <1>1, <1>4, <1>5, CallChanges
<1>7. ProbesInv'
  BY <1>1, <1>6 DEF ProbesInv
<1>8. CheckingInv'
  <2>1. CASE IsNewest(k)
    BY <2>1, <1>2 DEF applyProbeState, CheckingInv
  <2>2. CASE ~IsNewest(k)
    <3>1. access' = access
      BY <2>2, <1>2 DEF applyProbeState
    <3>2. \A j \in Asks : UnderWay(j) /\ IsNewest(j) => (UnderWay(j) /\ IsNewest(j))'
      BY <1>1, <1>6, <2>2 DEF UnderWay, Probing, IsNewest
    <3> QED BY <1>1, <3>1, <3>2 DEF CheckingInv, HostInv
  <2> QED BY <2>1, <2>2
<1> QED BY <1>1, <1>3, <1>6, <1>7, <1>8
        DEF HostInv, HostTypeOK, EvidenceIsCurrent, ReadInv, AccessOK

\* Calls of getState that are at no probe.
LEMMA OtherCallKeeps ==
  ASSUME HostInv, NEW k \in Asks, NEW new \in Calls, ~UnderWay(k), asks[k] # None,
         ProbeOK(new, revision, switches), asks' = [asks EXCEPT ![k] = new],
         UNCHANGED <<access, revision, probed, reading, switches>>, settings' = settings
  PROVE  HostInv'
<1>1. /\ asks' \in [Asks -> {None} \cup Calls]
      /\ \A j \in Asks : asks'[j] = IF j = k THEN new ELSE asks[j]
      /\ \A j \in Asks : asks'[j] # None => ProbeOK(asks'[j], revision, switches)
  BY CallChanges
<1>2. ProbesInv'
  BY <1>1 DEF ProbesInv
<1>3. CheckingInv'
  <2>1. \A j \in Asks : UnderWay(j) /\ IsNewest(j) => (UnderWay(j) /\ IsNewest(j))'
    BY <1>1 DEF UnderWay, Probing, IsNewest
  <2> QED BY <2>1 DEF CheckingInv, HostInv
<1> QED BY <1>1, <1>2, <1>3 DEF HostInv, HostTypeOK, EvidenceIsCurrent, ReadInv

LEMMA AllowedCheckedHost ==
  ASSUME HostInv, NEW k \in Asks, AllowedChecked(k)
  PROVE  HostInv'
<1>1. /\ asks[k] # None /\ asks[k].pc = "allowed" /\ asks[k] \in Calls
      /\ ProbeOK(asks[k], revision, switches)
      /\ UNCHANGED <<settings, access, revision, probed, reading, switches>>
  BY ProbesAre DEF AllowedChecked, settingsVars, background
<1>2. PICK host \in {"allowed", "denied"} : asks' = Answered(k, host)
  BY DEF AllowedChecked
<1> DEFINE new == [asks[k] EXCEPT !.pc = "answered", !.host = host]
<1>3. asks' = [asks EXCEPT ![k] = new]
  BY <1>1, <1>2 DEF Answered, HostInv, HostTypeOK
<1>4. new \in Calls /\ new.pc = "answered" /\ new.kind = "browser" /\ new.host = host
  BY <1>1 DEF Calls, Phases, ProbeOK
<1> HIDE DEF new
<1>5. ProbeOK(new, revision, switches)
  BY <1>4 DEF ProbeOK, Views
<1>6. ~UnderWay(k)
  BY <1>1 DEF UnderWay, Probing
<1> QED BY <1>1, <1>3, <1>4, <1>5, <1>6, OtherCallKeeps

LEMMA AnswerHost ==
  ASSUME HostInv, NEW k \in Asks, Answer(k)
  PROVE  HostInv'
<1>1. /\ asks[k] # None /\ asks[k].pc = "answered"
      /\ UNCHANGED <<settings, access, revision, probed, reading, switches>>
      /\ asks' = [asks EXCEPT ![k] = Over]
  BY ProbesAre DEF Answer, settingsVars, background
<1>2. Over \in Calls /\ ProbeOK(Over, revision, switches)
  BY DEF Over, Calls, Phases, Methods, Hosts, ProbeOK
<1>3. ~UnderWay(k)
  BY <1>1 DEF UnderWay, Probing
<1> QED BY <1>1, <1>2, <1>3, OtherCallKeeps

LEMMA HostDiesHost ==
  ASSUME HostInv, HostDies
  PROVE  HostInv'
<1> DEFINE state == IF NewestPing = {} THEN access
                    ELSE applyProbeState(CHOOSE j \in NewestPing : TRUE, "disconnected")
<1>1. PICK host \in Hosts : asks' = Rejected(asks, host)
  BY FoundIs DEF HostDies
<1>2. markReadFailed(state) /\ reading' = None /\ switches' = switches
  BY DEF HostDies
<1>3. AccessOK(state) /\ (state.host = "checking" => NewestPing = {} /\ state = access)
  <2>1. CASE NewestPing = {}
    <3>1. AccessOK(access)
      BY DEF HostInv, HostTypeOK, AccessOK, EvidenceIsCurrent
    <3> QED BY <2>1, <3>1
  <2>2. CASE NewestPing # {}
    BY <2>2, NewestFails
  <2> QED BY <2>1, <2>2
<1>4. ASSUME state.host = "checking", probed
      PROVE  \E k \in Asks : asks[k] # None /\ asks[k].pc = "contains" /\ asks[k].rev = revision
  BY <1>3, <1>4, NewestIs
<1>5. asks \in [Asks -> {None} \cup Calls]
      /\ \A k \in Asks : asks[k] # None => ProbeOK(asks[k], revision, switches)
  BY DEF HostInv, HostTypeOK, ProbesInv
<1> HIDE DEF state
<1> QED BY <1>1, <1>2, <1>3, <1>4, <1>5, RejectingKeeps

LEMMA ReadHost ==
  ASSUME HostInv, StartRead \/ EndRead
  PROVE  HostInv'
<1>1. CASE StartRead
  <2>1. /\ settings.method = "native" /\ reading' = switches
        /\ UNCHANGED <<settings, access, revision, probed, switches, asks>>
    BY <1>1 DEF StartRead, settingsVars
  <2>2. ProbesInv' /\ EvidenceIsCurrent' /\ CheckingInv'
    BY <2>1 DEF HostInv, ProbesInv, EvidenceIsCurrent, CheckingInv, UnderWay, Probing, IsNewest
  <2> QED BY <2>1, <2>2 DEF HostInv, HostTypeOK, ReadInv
<1>2. CASE EndRead
  <2>1. reading' = None /\ UNCHANGED <<settings, switches, asks>>
    BY <1>2 DEF EndRead, settingsVars
  <2>2. CASE UNCHANGED <<access, revision, probed>>
    <3>1. ProbesInv' /\ EvidenceIsCurrent' /\ CheckingInv'
      BY <2>1, <2>2 DEF HostInv, ProbesInv, EvidenceIsCurrent, CheckingInv, UnderWay, Probing,
                        IsNewest
    <3> QED BY <2>1, <2>2, <3>1 DEF HostInv, HostTypeOK, ReadInv
  <2>3. CASE markReadFailed(access)
    <3>1. /\ access' \in [host : Hosts, since : Nat]
          /\ revision' \in Nat /\ revision' >= revision /\ probed' \in BOOLEAN
          /\ EvidenceIsCurrent'
          /\ \/ access' = access /\ revision' = revision /\ probed' = probed
             \/ ~probed' /\ revision' = revision + 1
      BY <2>1, <2>3, ProbesAre, MarkIs DEF HostInv, HostTypeOK, AccessOK, EvidenceIsCurrent
    <3>2. revision \in Nat /\ switches \in Nat
      BY DEF HostInv, HostTypeOK
    <3>3. ASSUME NEW k \in Asks, asks[k] # None PROVE ProbeOK(asks[k], revision', switches)
      <4>1. asks[k] \in Calls /\ ProbeOK(asks[k], revision, switches)
        BY <3>3, ProbesAre
      <4>2. revision < revision' \/ revision = revision'
        BY <3>1, <3>2
      <4> QED BY <4>1, <4>2, <3>1, <3>2, LaterProbe
    <3>4. ProbesInv'
      BY <2>1, <3>3 DEF ProbesInv
    <3>5. CheckingInv'
      BY <2>1, <3>1 DEF HostInv, CheckingInv, UnderWay, Probing, IsNewest
    <3> QED BY <2>1, <3>1, <3>4, <3>5 DEF HostInv, HostTypeOK, ReadInv
  <2> QED BY <1>2, <2>2, <2>3 DEF EndRead
<1> QED BY <1>1, <1>2

\* A change of the method makes every probe stale; browser access ends the reads.
LEMMA MethodChangedKeeps ==
  ASSUME HostInv, NEW method \in Methods, methodChanged(method), settings'.method = method
  PROVE  HostInv'
<1>1. /\ revision' = revision + 1 /\ probed' = FALSE /\ access' = Checking
      /\ revision \in Nat /\ switches \in Nat /\ asks \in [Asks -> {None} \cup Calls]
  BY DEF methodChanged, HostInv, HostTypeOK
<1>2. Checking \in [host : Hosts, since : Nat] /\ Checking.host = "checking" /\ "checking" \in Hosts
  BY DEF Checking, Hosts
<1>3. /\ asks' \in [Asks -> {None} \cup Calls]
      /\ \A k \in Asks : asks'[k] # None => ProbeOK(asks'[k], revision, switches)
      /\ switches' \in Nat
      /\ reading' = None \/ (method = "native" /\ reading' = reading /\ switches' = switches)
  <2>1. CASE method = "browser"
    <3>1. asks' = Rejected(asks, "checking") /\ reading' = None /\ switches' = switches + 1
      BY <2>1 DEF methodChanged
    <3> QED BY <1>1, <1>2, <3>1, RejectedIs DEF HostInv, ProbesInv
  <2>2. CASE method # "browser"
    BY <1>1, <2>2 DEF methodChanged, HostInv, ProbesInv, Methods
  <2> QED BY <2>1, <2>2
<1>4. ProbesInv'
  <2>1. \A k \in Asks : asks'[k] # None => ProbeOK(asks'[k], revision + 1, switches')
    <3>1. ASSUME NEW k \in Asks, asks'[k] # None
          PROVE  ProbeOK(asks'[k], revision + 1, switches')
      <4>1. asks'[k] \in Calls /\ ProbeOK(asks'[k], revision, switches)
        BY <1>3, <3>1
      <4> QED BY <4>1, <1>1, <1>3, LaterProbe
    <3> QED BY <3>1
  <2> QED BY <1>1, <2>1 DEF ProbesInv
<1>5. EvidenceIsCurrent' /\ CheckingInv'
  BY <1>1, <1>2 DEF EvidenceIsCurrent, CheckingInv
<1>6. ReadInv'
  BY <1>3 DEF HostInv, ReadInv
<1>7. HostTypeOK'
  <2>1. revision' \in Nat /\ access' \in [host : Hosts, since : Nat] /\ probed' \in BOOLEAN
    <3>1. revision + 1 \in Nat
      BY <1>1
    <3> QED BY <1>1, <1>2, <3>1, Zenon
  <2> QED BY <1>3, <2>1 DEF HostInv, HostTypeOK
<1> QED BY <1>4, <1>5, <1>6, <1>7 DEF HostInv

LEMMA SettledHost ==
  ASSUME HostInv, ChainInv, Settled
  PROVE  HostInv'
<1>1. writes # << >> /\ settings' = Updated(settings, writes[1].update)
  BY SettleKeeps DEF Settled
<1>2. writes[1].update \in Updates /\ settings \in AppSettings /\ Head(writes) = writes[1]
  BY <1>1, WritesAre DEF ChainInv, SettingsTypeOK
<1> DEFINE u == writes[1].update
<1> HIDE DEF u
<1>3. u \in Updates /\ settings' = Updated(settings, u)
  BY <1>1, <1>2 DEF u
<1>4. CASE u[1] = "method"
  <2>1. methodChanged(u[2])
    BY <1>2, <1>4 DEF Settled, u
  <2>2. u[2] \in Methods /\ settings'["method"] = u[2]
    BY <1>2, <1>3, <1>4, UpdatedIs
  <2>3. settings'.method = u[2]
    BY <2>2
  <2> QED BY <2>1, <2>2, <2>3, MethodChangedKeeps
<1>5. CASE u[1] # "method"
  <2>1. UNCHANGED <<background, asks>>
    BY <1>2, <1>5 DEF Settled, u
  <2>2. settings'["method"] = settings["method"]
    BY <1>2, <1>3, <1>5, UpdatedIs
  <2>3. settings'.method = settings.method
    BY <2>2
  <2> QED BY <2>1, <2>3, SameHost
<1> QED BY <1>4, <1>5

LEMMA UnloadHost ==
  ASSUME HostInv, settings' \in AppSettings, Unload
  PROVE  HostInv'
<1>1. /\ access' \in Booted /\ probed' = (settings'.method = "native")
      /\ revision' = IF probed' THEN 1 ELSE 0
      /\ asks' = [k \in Asks |-> IF asks[k] = None THEN None ELSE Over]
      /\ reading' = None /\ switches' = switches /\ switches \in Nat
  BY DEF Unload, HostInv, HostTypeOK
<1>2. Over \in Calls /\ \A r, s : ProbeOK(Over, r, s)
  BY DEF Over, Calls, Phases, Methods, Hosts, ProbeOK
<1>3. asks' \in [Asks -> {None} \cup Calls] /\ ProbesInv'
  BY <1>1, <1>2 DEF ProbesInv
<1>4. /\ access' \in [host : Hosts, since : Nat]
      /\ access'.host # "checking" => access'.since = switches'
      /\ access'.host = "checking" => settings'.method = "browser"
  <2>1. CASE settings'.method = "browser"
    BY <1>1, <2>1 DEF Booted, Checking, Hosts
  <2>2. CASE settings'.method # "browser"
    <3>1. PICK h \in {"ready", "failed", "disconnected", "missing"} :
            access' = [host |-> h, since |-> switches]
      BY <1>1, <2>2 DEF Booted
    <3>2. h \in Hosts /\ h # "checking"
      BY DEF Hosts
    <3> QED BY <1>1, <3>1, <3>2
  <2> QED BY <2>1, <2>2
<1>5. CheckingInv'
  BY <1>1, <1>4 DEF CheckingInv
<1> QED BY <1>1, <1>3, <1>4, <1>5 DEF HostInv, HostTypeOK, EvidenceIsCurrent, ReadInv

LEMMA HostKeeps ==
  ASSUME HostInv, ChainInv, options.request \in Nat, [Next]_vars
  PROVE  HostInv'
<1>1. settings.method \in Methods /\ settings' \in AppSettings
  BY ChainKeeps DEF ChainInv, SettingsTypeOK, AppSettings
<1>2. CASE Storage \/ Unsettled \/ SetEnabled
  <2>1. UNCHANGED <<settings, background, asks>>
    BY <1>2 DEF Storage, Unsettled, SetEnabled, IssueWrite, LandWrite, FailWrite, queueSettingsWrite
  <2> QED BY <2>1, SameHost
<1>3. CASE Settled
  BY <1>3, SettledHost
<1>4. CASE StartRead \/ EndRead \/ HostDies
  BY <1>4, ReadHost, HostDiesHost
<1>5. ASSUME NEW k \in Asks, PermissionChecked(k) \/ Pinged(k) \/ AllowedChecked(k) \/ Answer(k)
      PROVE  HostInv'
  BY <1>5, PermissionCheckedHost, PingedHost, AllowedCheckedHost, AnswerHost
<1>6. CASE \/ \E method \in Methods : changeLocalSourceAccessMethod(method)
           \/ RequestAnswered \/ MethodNotSet \/ RemovePermission \/ useBrowserFileAccess
           \/ ClosePopup \/ UNCHANGED vars
  <2>1. UNCHANGED <<settings, background, asks>>
    BY <1>6 DEF changeLocalSourceAccessMethod, RequestAnswered, MethodNotSet, RemovePermission,
                useBrowserFileAccess, ClosePopup, send, queueSettingsWrite, settingsVars, vars
  <2> QED BY <2>1, SameHost
<1>7. CASE MethodSet \/ Focus \/ OpenPopup \/ PopupSet
  <2>1. settings' = settings
    BY <1>7 DEF MethodSet, Focus, OpenPopup, PopupSet, settingsVars
  <2>2. \E k \in Asks, request \in Nat : getState(k, request)
    <3>1. 0 \in Nat /\ options.request + 1 \in Nat /\ options.request + 2 \in Nat
      OBVIOUS
    <3>2. CASE MethodSet
      BY <3>1, <3>2 DEF MethodSet
    <3>3. CASE Focus
      BY <3>1, <3>3 DEF Focus
    <3>4. CASE OpenPopup \/ PopupSet
      BY <3>1, <3>4 DEF OpenPopup, PopupSet, AskAgain
    <3> QED BY <1>7, <3>2, <3>3, <3>4
  <2> QED BY <1>1, <2>1, <2>2, AskKeeps
<1>8. CASE Unload
  BY <1>1, <1>8, UnloadHost
<1> QED BY <1>2, <1>3, <1>4, <1>5, <1>6, <1>7, <1>8 DEF Next

-----------------------------------------------------------------------------
(* The two pages *)

PagesInv ==
    /\ permission \in BOOLEAN
    /\ options \in OptionsStates /\ popup \in PopupStates
    /\ \A c \in {selections, toggles, closes, unloads, failures} : c \in Nat
    /\ WarnsOfSelected
    /\ options.shown <= options.request

LEMMA OptionsAre ==
  ASSUME PagesInv
  PROVE  /\ options.pc \in {"idle", "requesting", "setting", "set", "unset", "checking", "removing"}
         /\ options.target \in Methods /\ options.method \in Methods
         /\ options.request \in Nat /\ options.waits \in Nat /\ options.shown \in Nat
         /\ options.view \in Views /\ options.view.kind = options.method
         /\ popup.ask \in {0} \cup Asks /\ popup.view \in Views
BY DEF PagesInv, OptionsStates, PopupStates, WarnsOfSelected

\* What the pages have to go on with, in a step that changes no more of them.
OptionsGoOn ==
    /\ options' \in OptionsStates
    /\ options'.view.kind = options'.method
    /\ options'.shown <= options'.request
    /\ options'.shown >= options.shown

PopupGoesOn ==
    /\ popup' \in PopupStates
    /\ popup'.pc = "checking" => Offer(popup'.view) = None

CountersGoOn ==
    /\ permission' \in BOOLEAN
    /\ \A c \in {selections', toggles', closes', unloads', failures'} : c \in Nat

LEMMA GoOn ==
  ASSUME OptionsGoOn, PopupGoesOn, CountersGoOn
  PROVE  PagesInv' /\ options'.shown >= options.shown
BY DEF OptionsGoOn, PopupGoesOn, CountersGoOn, PagesInv, WarnsOfSelected, Offer, Tone

LEMMA SameOptions == ASSUME PagesInv, options' = options PROVE OptionsGoOn
BY OptionsAre DEF OptionsGoOn, PagesInv

LEMMA SamePopup == ASSUME PagesInv, popup' = popup PROVE PopupGoesOn
BY DEF PopupGoesOn, PagesInv, WarnsOfSelected

\* The options page moves on, for the rest as it was.
LEMMA OptionsMove ==
  ASSUME PagesInv,
         NEW pc \in {"idle", "requesting", "setting", "set", "unset", "checking", "removing"},
         NEW target \in Methods, NEW request \in Nat, NEW waits \in Nat,
         request >= options.request,
         options' = [options EXCEPT !.pc = pc, !.target = target, !.request = request,
                                    !.waits = waits]
  PROVE  OptionsGoOn
<1>1. options' \in OptionsStates /\ options'.view = options.view /\ options'.method = options.method
      /\ options'.shown = options.shown /\ options'.request = request
  BY DEF PagesInv, OptionsStates
<1> QED BY <1>1, OptionsAre DEF OptionsGoOn, PagesInv

LEMMA PopupMoves ==
  ASSUME PagesInv, NEW pc \in {"closed", "loading", "idle", "setting", "set"},
         NEW ask \in {0} \cup Asks, NEW view \in Views,
         popup' = [popup EXCEPT !.pc = pc, !.ask = ask, !.view = view]
  PROVE  PopupGoesOn
<1>1. popup' \in PopupStates /\ popup'.pc = pc
  BY DEF PagesInv, PopupStates
<1> QED BY <1>1 DEF PopupGoesOn

LEMMA RepliedGoesOn ==
  ASSUME PagesInv, NEW page, NEW pc \in {"set", "unset"}, Replied(page, pc)
  PROVE  OptionsGoOn /\ PopupGoesOn
<1>1. OptionsGoOn
  <2>1. CASE page = "options"
    <3>1. options' = [options EXCEPT !.pc = pc]
      BY <2>1 DEF Replied
    <3>2. options' = [options EXCEPT !.pc = pc, !.target = options.target,
                                     !.request = options.request, !.waits = options.waits]
      BY <3>1 DEF PagesInv, OptionsStates
    <3>3. options.request >= options.request
      BY OptionsAre
    <3> QED BY <3>2, <3>3, OptionsAre, OptionsMove
  <2>2. CASE page # "options"
    BY <2>2, SameOptions DEF Replied
  <2> QED BY <2>1, <2>2
<1>2. PopupGoesOn
  <2>1. CASE page = "popup"
    <3> DEFINE to == IF pc = "set" THEN "set" ELSE "idle"
    <3>1. popup' = [popup EXCEPT !.pc = to]
      BY <2>1 DEF Replied
    <3>2. to \in {"set", "idle"}
      OBVIOUS
    <3> HIDE DEF to
    <3>3. popup' = [popup EXCEPT !.pc = to, !.ask = popup.ask, !.view = popup.view]
      BY <3>1 DEF PagesInv, PopupStates
    <3> QED BY <3>2, <3>3, OptionsAre, PopupMoves
  <2>2. CASE page # "popup"
    BY <2>2, SamePopup DEF Replied
  <2> QED BY <2>1, <2>2
<1> QED BY <1>1, <1>2

LEMMA AnswerPages ==
  ASSUME PagesInv, HostInv, NEW k \in Asks, Answer(k)
  PROVE  OptionsGoOn /\ PopupGoesOn
<1> DEFINE request == asks[k].request
           view == [kind |-> asks[k].kind, host |-> asks[k].host]
           shows == IsLatest(request) /\ asks[k].kind = options.method
<1>1. view \in Views /\ request \in Nat
  <2>1. asks[k] \in Calls /\ ProbeOK(asks[k], revision, switches) /\ asks[k].pc = "answered"
    BY ProbesAre DEF Answer
  <2> QED BY <2>1 DEF ProbeOK, Calls
<1>2. OptionsGoOn
  <2>1. CASE request = 0
    BY <2>1, SameOptions DEF Answer
  <2>2. CASE request # 0
    <3> DEFINE shown == IF shows THEN request ELSE options.shown
               seen == IF shows THEN view ELSE options.view
               waits == IF options.waits = request THEN 0 ELSE options.waits
               pc == IF options.pc = "checking" /\ request = options.waits THEN Checked
                                                                          ELSE options.pc
    <3>1. options' = [options EXCEPT !.shown = shown, !.view = seen, !.waits = waits, !.pc = pc]
      BY <2>2 DEF Answer, PagesInv, OptionsStates
    <3>2. shown \in Nat /\ shown >= options.shown /\ shown <= options.request
      BY <1>1, OptionsAre DEF IsLatest, PagesInv
    <3>3. seen \in Views /\ seen.kind = options.method
      BY <1>1, OptionsAre
    <3>4. waits \in Nat
          /\ pc \in {"idle", "requesting", "setting", "set", "unset", "checking", "removing"}
      BY OptionsAre DEF Checked
    <3> HIDE DEF shown, seen, waits, pc
    <3>5. /\ options' \in OptionsStates /\ options'.view = seen /\ options'.shown = shown
          /\ options'.method = options.method /\ options'.request = options.request
      BY <3>1, <3>2, <3>3, <3>4 DEF PagesInv, OptionsStates
    <3> QED BY <3>2, <3>3, <3>5 DEF OptionsGoOn
  <2> QED BY <2>1, <2>2
<1>3. PopupGoesOn
  <2>1. CASE popup.ask = k /\ popup.pc = "loading"
    <3>1. popup' = [popup EXCEPT !.pc = "idle", !.view = view]
      BY <2>1 DEF Answer
    <3> HIDE DEF view
    <3>2. popup' = [popup EXCEPT !.pc = "idle", !.ask = popup.ask, !.view = view]
      BY <3>1 DEF PagesInv, PopupStates
    <3> QED BY <1>1, <3>2, OptionsAre, PopupMoves
  <2>2. CASE popup.ask = k /\ popup.pc = "checking"
    <3> DEFINE seen == IF view.kind = "browser" THEN view ELSE popup.view
    <3>1. popup' = [popup EXCEPT !.pc = "idle", !.view = seen]
      BY <2>2 DEF Answer, PagesInv, PopupStates
    <3>2. seen \in Views
      BY <1>1, OptionsAre
    <3> HIDE DEF seen
    <3>3. popup' = [popup EXCEPT !.pc = "idle", !.ask = popup.ask, !.view = seen]
      BY <3>1 DEF PagesInv, PopupStates
    <3> QED BY <3>2, <3>3, OptionsAre, PopupMoves
  <2>3. CASE ~(popup.ask = k /\ popup.pc \in {"loading", "checking"})
    <3>1. popup' = popup
      BY <2>3 DEF Answer
    <3> QED BY <3>1, SamePopup
  <2> QED BY <2>1, <2>2, <2>3
<1> QED BY <1>2, <1>3

LEMMA AllowedViewIs ==
  AllowedView \in Views /\ AllowedView.kind = "browser" /\ Offer(AllowedView) = None
BY DEF AllowedView, Views, Offer, Tone

LEMMA OptionsActions ==
  ASSUME PagesInv,
         \/ \E method \in Methods : changeLocalSourceAccessMethod(method)
         \/ RequestAnswered \/ MethodSet \/ MethodNotSet \/ Focus \/ RemovePermission
  PROVE  OptionsGoOn
<1>1. /\ options.request \in Nat /\ options.request + 1 \in Nat /\ options.request + 2 \in Nat
      /\ options.request + 1 >= options.request /\ options.request + 2 >= options.request
      /\ options.request >= options.request
      /\ options.waits \in Nat /\ options.target \in Methods
      /\ "native" \in Methods /\ "browser" \in Methods
  BY OptionsAre DEF Methods
<1>2. ASSUME NEW method \in Methods, send(method) PROVE OptionsGoOn
  <2>1. options' = [options EXCEPT !.pc = "setting", !.target = method,
                                   !.request = options.request + 1, !.waits = options.waits]
    BY <1>2 DEF send, PagesInv, OptionsStates
  <2> QED BY <1>1, <2>1, OptionsMove
<1>3. ASSUME NEW pc \in {"idle", "requesting", "removing"}, NEW target \in Methods,
             options' = [options EXCEPT !.pc = pc, !.target = target]
      PROVE  OptionsGoOn
  <2>1. options' = [options EXCEPT !.pc = pc, !.target = target, !.request = options.request,
                                   !.waits = options.waits]
    BY <1>3 DEF PagesInv, OptionsStates
  <2>2. pc \in {"idle", "requesting", "setting", "set", "unset", "checking", "removing"}
    OBVIOUS
  <2> QED BY <1>1, <2>1, <2>2, OptionsMove
<1>4. ASSUME NEW pc \in {"idle", "removing"}, options' = [options EXCEPT !.pc = pc]
      PROVE  OptionsGoOn
  <2>1. options' = [options EXCEPT !.pc = pc, !.target = options.target]
    BY <1>4 DEF PagesInv, OptionsStates
  <2> QED BY <1>1, <1>3, <2>1
<1>5. ASSUME NEW method \in Methods, changeLocalSourceAccessMethod(method) PROVE OptionsGoOn
  <2>1. CASE method = "native"
    <3>1. options' = [options EXCEPT !.pc = "requesting", !.target = method]
      BY <1>5, <2>1 DEF changeLocalSourceAccessMethod
    <3> QED BY <1>3, <3>1
  <2>2. CASE method # "native"
    BY <1>2, <1>5, <2>2 DEF changeLocalSourceAccessMethod
  <2> QED BY <2>1, <2>2
<1>6. CASE RequestAnswered
  BY <1>1, <1>2, <1>4, <1>6 DEF RequestAnswered
<1>7. CASE MethodSet
  <2>1. options' = [options EXCEPT !.pc = "checking", !.method = options.target,
                                  !.request = options.request + 2, !.waits = options.request + 2,
                                  !.shown = options.request + 1,
                                  !.view = CheckingView(options.target)]
    BY <1>7 DEF MethodSet, PagesInv, OptionsStates
  <2>2. CheckingView(options.target) \in Views /\ CheckingView(options.target).kind = options.target
    <3>1. [kind |-> "native", host |-> "checking"] \in Views
      BY DEF Views, Hosts
    <3> QED BY <1>1, <3>1, AllowedViewIs DEF CheckingView, Methods
  <2> DEFINE view == CheckingView(options.target)
  <2> HIDE DEF view
  <2>3. options' = [options EXCEPT !.pc = "checking", !.method = options.target,
                                  !.request = options.request + 2, !.waits = options.request + 2,
                                  !.shown = options.request + 1, !.view = view]
    BY <2>1 DEF view
  <2>4. view \in Views /\ view.kind = options.target
    BY <2>2 DEF view
  <2>5. /\ options' \in OptionsStates /\ options'.view = view
        /\ options'.method = options.target /\ options'.shown = options.request + 1
        /\ options'.request = options.request + 2
    BY <1>1, <2>3, <2>4 DEF PagesInv, OptionsStates
  <2>6. options.request + 1 >= options.shown /\ options.request + 1 <= options.request + 2
    BY <1>1, OptionsAre DEF PagesInv
  <2> QED BY <2>4, <2>5, <2>6 DEF OptionsGoOn
<1>8. CASE MethodNotSet
  <2> DEFINE pc == IF options.target = "native" THEN "removing" ELSE "idle"
  <2>1. options' = [options EXCEPT !.pc = pc] /\ pc \in {"idle", "removing"}
    BY <1>8 DEF MethodNotSet
  <2> HIDE DEF pc
  <2> QED BY <1>4, <2>1
<1>9. CASE Focus
  <2>1. options' = [options EXCEPT !.pc = options.pc, !.target = options.target,
                                   !.request = options.request + 1, !.waits = options.waits]
    BY <1>9 DEF Focus, PagesInv, OptionsStates
  <2> QED BY <1>1, <2>1, OptionsAre, OptionsMove
<1>10. CASE RemovePermission
  BY <1>4, <1>10 DEF RemovePermission
<1> QED BY <1>5, <1>6, <1>7, <1>8, <1>9, <1>10

LEMMA PopupActions ==
  ASSUME PagesInv, OpenPopup \/ useBrowserFileAccess \/ PopupSet \/ ClosePopup
  PROVE  PopupGoesOn
<1>1. CASE OpenPopup
  <2>1. PICK k \in Asks : popup' = [popup EXCEPT !.pc = "loading", !.ask = k]
    BY <1>1 DEF OpenPopup
  <2>2. popup' = [popup EXCEPT !.pc = "loading", !.ask = k, !.view = popup.view]
    BY <2>1 DEF PagesInv, PopupStates
  <2> QED BY <2>2, OptionsAre, PopupMoves
<1>2. CASE useBrowserFileAccess
  <2>1. popup' = [popup EXCEPT !.pc = "setting", !.ask = popup.ask, !.view = popup.view]
    BY <1>2 DEF useBrowserFileAccess, PagesInv, PopupStates
  <2> QED BY <2>1, OptionsAre, PopupMoves
<1>3. CASE PopupSet
  <2>1. PICK k \in Asks : popup' = [pc |-> "checking", ask |-> k, view |-> AllowedView]
    BY <1>3 DEF PopupSet, AskAgain
  <2>2. popup' \in PopupStates /\ popup'.view = AllowedView
    BY <2>1, AllowedViewIs DEF PopupStates
  <2> QED BY <2>2, AllowedViewIs DEF PopupGoesOn
<1>4. CASE ClosePopup
  <2>1. popup' = ClosedPopup
    BY <1>4 DEF ClosePopup
  <2>2. ClosedPopup \in PopupStates /\ ClosedPopup.pc = "closed"
    BY AllowedViewIs DEF ClosedPopup, PopupStates, AllowedView
  <2> QED BY <2>1, <2>2 DEF PopupGoesOn
<1> QED BY <1>1, <1>2, <1>3, <1>4

LEMMA UnloadPages ==
  ASSUME PagesInv, Unload
  PROVE  OptionsGoOn /\ PopupGoesOn
<1>1. OptionsGoOn
  <2> DEFINE pc == IF options.pc = "setting" THEN "unset"
                   ELSE IF options.pc = "checking" THEN Checked ELSE options.pc
  <2>1. options' = [options EXCEPT !.waits = 0, !.pc = pc]
    BY DEF Unload, PagesInv, OptionsStates
  <2>2. pc \in {"idle", "requesting", "setting", "set", "unset", "checking", "removing"}
    BY OptionsAre DEF Checked
  <2> HIDE DEF pc
  <2>3. options' = [options EXCEPT !.pc = pc, !.target = options.target,
                                   !.request = options.request, !.waits = 0]
    BY <2>1 DEF PagesInv, OptionsStates
  <2>4. options.request >= options.request /\ 0 \in Nat
    BY OptionsAre
  <2> QED BY <2>2, <2>3, <2>4, OptionsAre, OptionsMove
<1>2. PopupGoesOn
  <2>1. CASE popup' = ClosedPopup
    <3>1. ClosedPopup \in PopupStates /\ ClosedPopup.pc = "closed"
      BY AllowedViewIs DEF ClosedPopup, PopupStates, AllowedView
    <3> QED BY <2>1, <3>1 DEF PopupGoesOn
  <2>2. CASE popup' = [popup EXCEPT !.pc = "idle"]
    <3>1. popup' = [popup EXCEPT !.pc = "idle", !.ask = popup.ask, !.view = popup.view]
      BY <2>2 DEF PagesInv, PopupStates
    <3> QED BY <3>1, OptionsAre, PopupMoves
  <2>3. CASE popup' = popup
    BY <2>3, SamePopup
  <2> QED BY <2>1, <2>2, <2>3 DEF Unload
<1> QED BY <1>1, <1>2

\* No step takes a count back, and each counts one thing at most.
CountersStep ==
    /\ selections' \in {selections, selections + 1} /\ toggles' \in {toggles, toggles + 1}
    /\ closes' \in {closes, closes + 1} /\ unloads' \in {unloads, unloads + 1}
    /\ failures' \in {failures, failures + 1} /\ permission' \in {permission, TRUE, FALSE}

LEMMA CountersKeep ==
  ASSUME PagesInv, [Next]_vars
  PROVE  CountersStep /\ CountersGoOn
<1>1. CountersStep
  <2>1. CASE Storage \/ Settled \/ Unsettled \/ SetEnabled \/ StartRead \/ EndRead \/ HostDies
    BY <2>1 DEF Storage, Settled, Unsettled, SetEnabled, StartRead, EndRead, HostDies, counters,
                pages, CountersStep
  <2>2. ASSUME NEW k \in Asks, PermissionChecked(k) \/ Pinged(k) \/ AllowedChecked(k) \/ Answer(k)
        PROVE  CountersStep
    BY <2>2 DEF PermissionChecked, Pinged, AllowedChecked, Answer, counters, CountersStep
  <2>3. CASE \/ \E method \in Methods : changeLocalSourceAccessMethod(method)
             \/ RequestAnswered \/ MethodSet \/ MethodNotSet \/ Focus
    BY <2>3 DEF changeLocalSourceAccessMethod, RequestAnswered, MethodSet, MethodNotSet, Focus,
                counters, CountersStep
  <2>4. CASE RemovePermission \/ OpenPopup \/ useBrowserFileAccess \/ PopupSet \/ ClosePopup \/ Unload
    BY <2>4 DEF RemovePermission, OpenPopup, useBrowserFileAccess, PopupSet, ClosePopup, Unload,
                Removed, counters, CountersStep
  <2>5. CASE UNCHANGED vars
    BY <2>5 DEF vars, counters, CountersStep
  <2> QED BY <2>1, <2>2, <2>3, <2>4, <2>5 DEF Next
<1>2. /\ permission \in BOOLEAN
      /\ selections \in Nat /\ toggles \in Nat /\ closes \in Nat /\ unloads \in Nat
      /\ failures \in Nat
  BY DEF PagesInv
<1>3. /\ selections' \in Nat /\ toggles' \in Nat /\ closes' \in Nat /\ unloads' \in Nat
      /\ failures' \in Nat
  BY <1>1, <1>2 DEF CountersStep
<1> QED BY <1>1, <1>2, <1>3 DEF CountersStep, CountersGoOn

LEMMA PagesKeep ==
  ASSUME PagesInv, HostInv, [Next]_vars
  PROVE  PagesInv' /\ options'.shown >= options.shown
<1> SUFFICES OptionsGoOn /\ PopupGoesOn
  BY CountersKeep, GoOn
<1>1. CASE Storage \/ SetEnabled \/ StartRead \/ EndRead \/ HostDies \/ UNCHANGED vars
  <2>1. options' = options /\ popup' = popup
    BY <1>1 DEF Storage, SetEnabled, StartRead, EndRead, HostDies, pages, vars
  <2> QED BY <2>1, SameOptions, SamePopup
<1>2. CASE Settled
  <2>1. UNCHANGED <<options, popup>> \/ Replied(Head(writes).from, "set")
    BY <1>2 DEF Settled
  <2> QED BY <2>1, SameOptions, SamePopup, RepliedGoesOn
<1>3. CASE Unsettled
  BY <1>3, RepliedGoesOn DEF Unsettled
<1>4. ASSUME NEW k \in Asks, PermissionChecked(k) \/ Pinged(k) \/ AllowedChecked(k)
      PROVE  OptionsGoOn /\ PopupGoesOn
  <2>1. options' = options /\ popup' = popup
    BY <1>4 DEF PermissionChecked, Pinged, AllowedChecked
  <2> QED BY <2>1, SameOptions, SamePopup
<1>5. ASSUME NEW k \in Asks, Answer(k) PROVE OptionsGoOn /\ PopupGoesOn
  BY <1>5, AnswerPages
<1>6. CASE \/ \E method \in Methods : changeLocalSourceAccessMethod(method)
           \/ RequestAnswered \/ MethodSet \/ MethodNotSet \/ Focus \/ RemovePermission
  <2>1. popup' = popup
    BY <1>6 DEF changeLocalSourceAccessMethod, RequestAnswered, MethodSet, MethodNotSet, Focus,
                RemovePermission
  <2> QED BY <1>6, <2>1, OptionsActions, SamePopup
<1>7. CASE OpenPopup \/ useBrowserFileAccess \/ PopupSet \/ ClosePopup
  <2>1. options' = options
    BY <1>7 DEF OpenPopup, useBrowserFileAccess, PopupSet, ClosePopup
  <2> QED BY <1>7, <2>1, SameOptions, PopupActions
<1>8. CASE Unload
  BY <1>8, UnloadPages
<1> QED BY <1>1, <1>2, <1>3, <1>4, <1>5, <1>6, <1>7, <1>8 DEF Next

-----------------------------------------------------------------------------
(* The permission *)

LEMMA NativeLast ==
  ASSUME ChainInv, NEW page \in Pages \cup {None}, queueSettingsWrite(<<"method", "native">>, page)
  PROVE  EndsNative'
<1>1. <<"method", "native">> \in Updates
  BY DEF Updates, Methods
<1>2. Len(writes') = Len(writes) + 1 /\ writes'[Len(writes')].update = <<"method", "native">>
      /\ Len(writes) \in Nat
  BY <1>1, QueueIs, WritesAre DEF ChainInv
<1>3. Len(writes') \in 1..Len(writes') /\ ~\E j \in 1..Len(writes') : j > Len(writes')
  BY <1>2
<1> QED BY <1>2, <1>3 DEF EndsNative

LEMMA EnabledKeepsEnd ==
  ASSUME ChainInv, NEW b \in BOOLEAN, queueSettingsWrite(<<"enabled", b>>, None), EndsNative
  PROVE  EndsNative'
<1>1. <<"enabled", b>> \in Updates
  BY DEF Updates
<1>2. /\ Len(writes') = Len(writes) + 1 /\ writes'[Len(writes')].update = <<"enabled", b>>
      /\ \A i \in 1..Len(writes) : writes'[i] = writes[i]
      /\ Len(writes) \in Nat /\ settings' = settings
  BY <1>1, QueueIs, WritesAre DEF ChainInv, queueSettingsWrite
<1>3. writes'[Len(writes')].update[1] # "method"
  BY <1>2
<1>4. \A i \in 1..Len(writes') : i \in 1..Len(writes) \/ i = Len(writes')
  BY <1>2
<1>5. CASE \E i \in 1..Len(writes) :
             /\ writes[i].update = <<"method", "native">>
             /\ \A j \in 1..Len(writes) : j > i => writes[j].update[1] # "method"
  <2>1. PICK i \in 1..Len(writes) :
             /\ writes[i].update = <<"method", "native">>
             /\ \A j \in 1..Len(writes) : j > i => writes[j].update[1] # "method"
    BY <1>5
  <2>2. i \in 1..Len(writes') /\ writes'[i].update = <<"method", "native">>
    BY <1>2, <2>1
  <2>3. \A j \in 1..Len(writes') : j > i => writes'[j].update[1] # "method"
    BY <1>2, <1>3, <1>4, <2>1
  <2> QED BY <2>2, <2>3 DEF EndsNative
<1>6. CASE /\ settings.method = "native"
           /\ \A i \in 1..Len(writes) : writes[i].update[1] # "method"
  BY <1>2, <1>3, <1>4, <1>6 DEF EndsNative
<1> QED BY <1>5, <1>6 DEF EndsNative

LEMMA SameUpdatesKeepEnd ==
  ASSUME EndsNative, settings' = settings, Len(writes') = Len(writes),
         \A i \in 1..Len(writes) : writes'[i].update = writes[i].update
  PROVE  EndsNative'
BY DEF EndsNative

LEMMA SettleKeepsEnd ==
  ASSUME ChainInv, SettleWrite, EndsNative
  PROVE  EndsNative'
<1> DEFINE u == writes[1].update
<1>1. /\ writes # << >> /\ settings' = Updated(settings, u)
      /\ writes' = Tail(writes) /\ settings \in AppSettings
  BY SettleKeeps DEF SettleWrite, ChainInv, SettingsTypeOK
<1>2. /\ Len(writes') = Len(writes) - 1 /\ Len(writes) \in Nat /\ 1 \in 1..Len(writes)
      /\ \A i \in 1..Len(writes') : writes'[i] = writes[i + 1] /\ i + 1 \in 2..Len(writes)
      /\ \A i \in 2..Len(writes) : i - 1 \in 1..Len(writes')
      /\ u \in Updates
  BY <1>1, TailIs, WritesAre DEF ChainInv
<1> HIDE DEF u
<1>3. settings'["method"] = (IF u[1] = "method" THEN u[2] ELSE settings["method"])
  BY <1>1, <1>2, UpdatedIs
<1>4. settings'.method = IF u[1] = "method" THEN u[2] ELSE settings.method
  BY <1>3
<1>5. CASE \E i \in 1..Len(writes) :
             /\ writes[i].update = <<"method", "native">>
             /\ \A j \in 1..Len(writes) : j > i => writes[j].update[1] # "method"
  <2>1. PICK i \in 1..Len(writes) :
             /\ writes[i].update = <<"method", "native">>
             /\ \A j \in 1..Len(writes) : j > i => writes[j].update[1] # "method"
    BY <1>5
  <2>2. CASE i = 1
    <3>1. settings'.method = "native"
      BY <1>4, <2>1, <2>2 DEF u
    <3>2. \A j \in 1..Len(writes') : writes'[j].update[1] # "method"
      BY <1>2, <2>1, <2>2
    <3> QED BY <3>1, <3>2 DEF EndsNative
  <2>3. CASE i # 1
    <3>1. i \in 2..Len(writes) /\ i - 1 \in 1..Len(writes') /\ i - 1 + 1 = i
      BY <1>2, <2>3
    <3>2. writes'[i - 1].update = <<"method", "native">>
      BY <1>2, <2>1, <3>1
    <3>3. ASSUME NEW j \in 1..Len(writes'), j > i - 1
          PROVE  writes'[j].update[1] # "method"
      <4>1. writes'[j] = writes[j + 1] /\ j + 1 \in 1..Len(writes) /\ j + 1 > i
        BY <1>2, <3>3
      <4> QED BY <2>1, <4>1
    <3> QED BY <3>1, <3>2, <3>3 DEF EndsNative
  <2> QED BY <2>2, <2>3
<1>6. CASE /\ settings.method = "native"
           /\ \A i \in 1..Len(writes) : writes[i].update[1] # "method"
  <2>1. settings'.method = "native"
    BY <1>2, <1>4, <1>6 DEF u
  <2>2. \A j \in 1..Len(writes') : writes'[j].update[1] # "method"
    <3>1. ASSUME NEW j \in 1..Len(writes') PROVE writes'[j].update[1] # "method"
      <4>1. writes'[j] = writes[j + 1] /\ j + 1 \in 1..Len(writes)
        BY <1>2
      <4> QED BY <1>6, <4>1
    <3> QED BY <3>1
  <2> QED BY <2>1, <2>2 DEF EndsNative
<1> QED BY <1>5, <1>6 DEF EndsNative

\* A step of a page that is on its way keeps it there, or gives the permission up.
LEMMA PermissionKeeps ==
  ASSUME ChainInv, PagesInv, PermissionInv, [Next]_vars
  PROVE  PermissionInv'
<1> SUFFICES ASSUME closes' = 0, unloads' = 0, failures' = 0, permission'
             PROVE  EndsNative' \/ OptionsRemoves' \/ PopupRemoves'
  BY DEF PermissionInv
<1>1. /\ closes = 0 /\ unloads = 0 /\ failures = 0
      /\ closes' # closes + 1 /\ unloads' # unloads + 1 /\ failures' # failures + 1
  BY CountersKeep DEF CountersStep, PagesInv
<1>2. permission => EndsNative \/ OptionsRemoves \/ PopupRemoves
  BY <1>1 DEF PermissionInv
<1>3. options \in OptionsStates /\ popup \in PopupStates
  BY DEF PagesInv
<1>4. UNCHANGED settingsVars /\ EndsNative => EndsNative'
  BY SameUpdatesKeepEnd DEF settingsVars
<1>5. CASE Storage
  <2>1. settings' = settings /\ Len(writes') = Len(writes)
        /\ \A i \in 1..Len(writes) : writes'[i].update = writes[i].update
    <3>1. CASE IssueWrite
      <4>1. /\ 1 \in 1..Len(writes) /\ writes[1] \in Writes /\ settings' = settings
            /\ writes' = [writes EXCEPT ![1].next = Updated(settings, writes[1].update)]
        BY <3>1, WritesAre DEF IssueWrite, MayIssue, ChainInv
      <4> DEFINE new == Updated(settings, writes[1].update)
                 w == [writes[1] EXCEPT !.next = new]
      <4>2. new \in AppSettings
        BY <4>1, WritesAre, UpdatedIs DEF ChainInv, SettingsTypeOK
      <4>3. writes' = [writes EXCEPT ![1] = w]
        BY <4>1
      <4> HIDE DEF new
      <4>4. w \in Writes /\ w.update = writes[1].update
        BY <4>1, <4>2 DEF Writes
      <4> HIDE DEF w
      <4> QED BY <4>1, <4>3, <4>4, ChangedWrite DEF ChainInv
    <3>2. CASE LandWrite
      BY <3>2, LandKeeps DEF LandWrite
    <3> QED BY <1>5, <3>1, <3>2 DEF Storage
  <2>2. permission' = permission /\ options' = options /\ popup' = popup
    BY <1>5 DEF Storage, pages
  <2> QED BY <1>2, <2>1, <2>2, SameUpdatesKeepEnd DEF OptionsRemoves, PopupRemoves
<1>6. CASE Settled
  <2>1. SettleWrite /\ permission' = permission
        /\ (UNCHANGED <<options, popup>> \/ Replied(Head(writes).from, "set"))
    BY <1>6 DEF Settled
  <2>2. OptionsRemoves => OptionsRemoves'
    BY <1>3, <2>1 DEF OptionsRemoves, Replied, OptionsStates
  <2>3. PopupRemoves => PopupRemoves'
    BY <1>3, <2>1 DEF PopupRemoves, Replied, PopupStates
  <2> QED BY <1>2, <2>1, <2>2, <2>3, SettleKeepsEnd
<1>7. CASE SetEnabled
  BY <1>2, <1>7, EnabledKeepsEnd DEF SetEnabled, pages, OptionsRemoves, PopupRemoves
<1>8. CASE StartRead \/ EndRead \/ HostDies \/ UNCHANGED vars
  <2>1. UNCHANGED settingsVars /\ permission' = permission /\ options' = options /\ popup' = popup
    BY <1>8 DEF StartRead, EndRead, HostDies, pages, vars
  <2> QED BY <1>2, <1>4, <2>1 DEF OptionsRemoves, PopupRemoves
<1>9. ASSUME NEW k \in Asks, PermissionChecked(k) \/ Pinged(k) \/ AllowedChecked(k)
      PROVE  EndsNative' \/ OptionsRemoves' \/ PopupRemoves'
  <2>1. UNCHANGED settingsVars /\ permission' = permission /\ options' = options /\ popup' = popup
    BY <1>9 DEF PermissionChecked, Pinged, AllowedChecked
  <2> QED BY <1>2, <1>4, <2>1 DEF OptionsRemoves, PopupRemoves
<1>10. ASSUME NEW k \in Asks, Answer(k)
       PROVE  EndsNative' \/ OptionsRemoves' \/ PopupRemoves'
  <2>1. UNCHANGED settingsVars /\ permission' = permission
    BY <1>10 DEF Answer
  <2>2. OptionsRemoves => OptionsRemoves'
    <3>1. ASSUME OptionsRemoves
          PROVE  options'.target = "browser"
                 /\ options'.pc = IF /\ asks[k].request # 0
                                     /\ options.pc = "checking" /\ asks[k].request = options.waits
                                  THEN "removing" ELSE options.pc
      BY <1>3, <1>10, <3>1 DEF Answer, OptionsRemoves, OptionsStates, Checked
    <3> QED BY <3>1 DEF OptionsRemoves
  <2>3. PopupRemoves => PopupRemoves'
    BY <1>10 DEF Answer, PopupRemoves
  <2> QED BY <1>2, <1>4, <2>1, <2>2, <2>3
<1>11. ASSUME NEW method \in Methods, changeLocalSourceAccessMethod(method)
       PROVE  EndsNative' \/ OptionsRemoves' \/ PopupRemoves'
  <2>1. options.pc = "idle" /\ permission' = permission /\ popup' = popup
    BY <1>11 DEF changeLocalSourceAccessMethod, Selectable
  <2>2. CASE method = "native"
    <3>1. UNCHANGED settingsVars
      BY <1>11, <2>2 DEF changeLocalSourceAccessMethod
    <3> QED BY <1>2, <1>4, <2>1, <3>1 DEF OptionsRemoves, PopupRemoves
  <2>3. CASE method # "native"
    <3>1. options' = [options EXCEPT !.pc = "setting", !.target = method,
                                     !.request = options.request + 1]
          /\ method = "browser"
      BY <1>11, <2>3 DEF changeLocalSourceAccessMethod, send, Methods
    <3>2. options'.pc = "setting" /\ options'.target = "browser"
      BY <1>3, <3>1 DEF OptionsStates
    <3> QED BY <3>2 DEF OptionsRemoves
  <2> QED BY <2>2, <2>3
<1>12. CASE RequestAnswered
  <2>1. CASE send("native")
    BY <2>1, PagesAssumption, NativeLast DEF send
  <2>2. CASE ~send("native")
    BY <1>12, <2>2 DEF RequestAnswered
  <2> QED BY <2>1, <2>2
<1>13. CASE MethodSet \/ MethodNotSet \/ Focus
  <2>1. UNCHANGED settingsVars /\ permission' = permission /\ popup' = popup
    BY <1>13 DEF MethodSet, MethodNotSet, Focus
  <2>2. OptionsRemoves => OptionsRemoves'
    BY <1>3, <1>13 DEF MethodSet, MethodNotSet, Focus, OptionsRemoves, OptionsStates
  <2> QED BY <1>2, <1>4, <2>1, <2>2 DEF PopupRemoves
<1>14. CASE RemovePermission \/ PopupSet
  BY <1>1, <1>14 DEF RemovePermission, PopupSet, Removed
<1>15. CASE OpenPopup \/ useBrowserFileAccess
  <2>1. CASE OpenPopup
    <3>1. UNCHANGED settingsVars /\ permission' = permission /\ options' = options /\ ~PopupRemoves
      BY <2>1 DEF OpenPopup, PopupRemoves
    <3> QED BY <1>2, <1>4, <3>1 DEF OptionsRemoves
  <2>2. CASE useBrowserFileAccess
    <3>1. popup'.pc = "setting"
      BY <1>3, <2>2 DEF useBrowserFileAccess, PopupStates
    <3> QED BY <3>1 DEF PopupRemoves
  <2> QED BY <1>15, <2>1, <2>2
<1>16. CASE Unsettled \/ ClosePopup \/ Unload
  BY <1>1, <1>16 DEF Unsettled, ClosePopup, Unload
<1> QED
  BY <1>5, <1>6, <1>7, <1>8, <1>9, <1>10, <1>11, <1>12, <1>13, <1>14, <1>15, <1>16 DEF Next

-----------------------------------------------------------------------------
(* The invariant holds *)

LEMMA Parts == IInv <=> ChainInv /\ HostInv /\ PagesInv /\ PermissionInv
BY DEF IInv, ChainInv, HostInv, PagesInv, HostTypeOK, TypeOK

LEMMA InitIInv == Init => IInv
<1> SUFFICES ASSUME Init PROVE ChainInv /\ HostInv /\ PagesInv /\ PermissionInv
  BY Parts
<1>1. ChainInv
  <2>1. settings = [enabled |-> TRUE, method |-> "browser"] /\ stored = settings /\ writes = << >>
    BY DEF Init, SettingsInit
  <2>2. settings \in AppSettings /\ writes \in Seq(Writes) /\ Len(writes) = 0
    BY <2>1 DEF AppSettings, Methods
  <2> QED BY <2>1, <2>2 DEF ChainInv, SettingsTypeOK, SettingsInv
<1>2. HostInv
  BY DEF Init, HostInv, HostTypeOK, ProbesInv, EvidenceIsCurrent, ReadInv, CheckingInv, Checking,
         Hosts
<1>3. PagesInv
  <2>1. options \in OptionsStates /\ popup \in PopupStates
    BY AllowedViewIs DEF Init, OptionsStates, PopupStates, ClosedPopup, Methods, AllowedView
  <2>2. /\ options.view = AllowedView /\ options.method = "browser"
        /\ options.shown = 0 /\ options.request = 0
        /\ popup.pc = "closed"
    BY DEF Init, ClosedPopup
  <2>3. WarnsOfSelected /\ options.shown <= options.request
    BY <2>2, AllowedViewIs DEF WarnsOfSelected
  <2>4. permission \in BOOLEAN /\ \A c \in {selections, toggles, closes, unloads, failures} : c \in Nat
    <3>1. /\ permission = FALSE
          /\ selections = 0 /\ toggles = 0 /\ closes = 0 /\ unloads = 0 /\ failures = 0
      BY DEF Init
    <3>2. permission \in BOOLEAN
      BY <3>1, Zenon
    <3>3. \A c \in {selections, toggles, closes, unloads, failures} : c \in Nat
      BY <3>1
    <3> QED BY <3>2, <3>3
  <2> QED BY <2>1, <2>3, <2>4 DEF PagesInv
<1>4. PermissionInv
  BY DEF Init, PermissionInv
<1> QED BY <1>1, <1>2, <1>3, <1>4

LEMMA NextIInv == IInv /\ [Next]_vars => IInv'
<1> SUFFICES ASSUME IInv, [Next]_vars PROVE IInv'
  OBVIOUS
<1>1. ChainInv /\ HostInv /\ PagesInv /\ PermissionInv
  BY Parts
<1>2. ChainInv' /\ HostInv' /\ PagesInv' /\ PermissionInv'
  BY <1>1, ChainKeeps, HostKeeps, PagesKeep, PermissionKeeps, OptionsAre
<1> QED BY <1>2 DEF IInv, ChainInv, HostInv, PagesInv, HostTypeOK, TypeOK

\* The inductive invariant of the settings, LocalSourceAccess and the two pages
\* holds in every reachable state.
THEOREM Invariance == Spec => []IInv
BY InitIInv, NextIInv, PTL DEF Spec

\* A write of the settings changes no setting but its own (SettingsService and its
\* chain settingsWrite), through failed writes and restarts.
THEOREM WritesAreTheirOwn == Spec => OnlyItsSetting
<1>1. IInv /\ [Next]_vars
        => [\A f \in {"enabled", "method"} : stored'[f] # stored[f] =>
               \E w \in ToSet(writes) : ~w.landed /\ w.update = <<f, stored'[f]>>]_settingsVars
  BY Parts, OnlyOne
<1> QED BY <1>1, Invariance, PTL DEF Spec, OnlyItsSetting

\* At rest the settings in memory are those a restart comes back to, after writes
\* that failed as well (SettingsService).
THEOREM RestIsStored == Spec => []MemoryIsStored
<1>1. IInv => MemoryIsStored
  BY DEF IInv, SettingsInv, MemoryIsStored
<1> QED BY <1>1, Invariance, PTL

\* No probe or read that was under way when browser access was selected is heard
\* afterwards, none waits behind the switch, and the pages warn only of what they
\* show as selected (LocalSourceAccess.methodChanged and its stateRevision).
THEOREM SwitchIsABarrier == Spec => []NothingBehindSwitch
<1>1. IInv => NothingBehindSwitch
  BY DEF IInv, ReadInv, NothingBehindSwitch, NoReadBehindSwitch
<1> QED BY <1>1, Invariance, PTL

\* However many probes overtake each other, one that is under way will have the
\* last word on a state that is "checking" (getState, applyProbeState).
THEOREM SomeProbeDecides == Spec => []NoEndlessChecking
<1>1. IInv => NoEndlessChecking
  BY DEF IInv, CheckingInv, UnderWay, NoEndlessChecking
<1> QED BY <1>1, Invariance, PTL

\* The readiness the options page shows is never replaced by an older answer
\* (accessRequestId of the options store).
THEOREM NewestIsShown == Spec => ShownOnlyNewer
<1>1. IInv /\ [Next]_vars => [options'.shown >= options.shown]_options
  BY Parts, PagesKeep
<1> QED BY <1>1, Invariance, PTL DEF Spec, ShownOnlyNewer

\* While no call fails and neither the popup nor the background goes away, browser
\* access and the optional permission are never left together, whatever the order
\* in which the two pages' switches are applied.
THEOREM PermissionIsGivenUp == Spec => []BrowserGivesUpPermission
<1>1. IInv => BrowserGivesUpPermission
  <2> SUFFICES ASSUME IInv, closes = 0, unloads = 0, failures = 0, Quiet,
                      settings.method = "browser", permission
               PROVE  FALSE
    BY DEF IInv, TypeOK, BrowserGivesUpPermission, SwitchingBackRemovesPermission
  <2>1. EndsNative \/ OptionsRemoves \/ PopupRemoves
    BY DEF IInv, PermissionInv
  <2>2. ~OptionsRemoves /\ ~PopupRemoves
    BY DEF Quiet, OptionsRemoves, PopupRemoves
  <2>3. ~EndsNative
    <3>1. Len(writes) = 0
      BY DEF Quiet
    <3> QED BY <3>1 DEF EndsNative
  <2> QED BY <2>1, <2>2, <2>3
<1> QED BY <1>1, Invariance, PTL
=============================================================================
