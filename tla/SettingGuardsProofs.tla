-------------------------- MODULE SettingGuardsProofs --------------------------
(***************************************************************************)
(* One setting, for any values, any number of entities and actions that    *)
(* write, any number of protected values and of removals.                  *)
(*                                                                         *)
(* First, a settings read never replaces what a write did after it was     *)
(* read: a read that a write has overtaken is marked (ReadInv).            *)
(*                                                                         *)
(* Then, the protection of a confirmed setting keeps the gateway's older   *)
(* copy of it out.  OldValueStaysOut is not inductive: the copy must be    *)
(* known to be current or protected at every step, with the value that a   *)
(* read-back is about to protect (CacheInv), and nothing that is on its    *)
(* way may be older (TrustInv).                                            *)
(***************************************************************************)
EXTENDS SettingGuards, TLAPS

--------------------------------------------------------------------------------
(* Settings reads                                                           *)

ReadTypes ==
    /\ stored \in Values
    /\ reread \in [phase : {"idle", "first", "second"}, value : Readings,
                   overlapped : BOOLEAN, older : BOOLEAN]

\* What was read can only be older than a write that counted itself: either at
\* its start or, when it was queued before the read, at its end.
OlderIsOverlapped ==
    reread.older => reread.phase = "second" /\ reread.overlapped

ReadInv == ReadTypes /\ OlderIsOverlapped

LEMMA NoRereadIsFine == NoReread \in [phase : {"idle", "first", "second"}, value : Readings,
                                      overlapped : BOOLEAN, older : BOOLEAN]
  BY DEF NoReread, Readings

\* A note of a write keeps the invariant.
LEMMA NoteKeeps ==
    ASSUME ReadInv, NoteWrite, stored' = stored
    PROVE  ReadInv'
  BY DEF ReadInv, ReadTypes, OlderIsOverlapped, NoteWrite, Overlapped

\* So does the end of its request, with or without an effect at the device.
LEMMA ReachesKeeps ==
    ASSUME ReadInv, NEW changed \in BOOLEAN, Reaches(changed), stored' \in Values
    PROVE  ReadInv'
  BY DEF ReadInv, ReadTypes, OlderIsOverlapped, Reaches, Overlapped

LEMMA SameKeeps ==
    ASSUME ReadInv, UNCHANGED reread, stored' \in Values
    PROVE  ReadInv'
  BY DEF ReadInv, ReadTypes, OlderIsOverlapped

LEMMA NoRereadKeeps ==
    ASSUME reread' = NoReread, stored' \in Values
    PROVE  ReadInv'
  BY NoRereadIsFine DEF ReadInv, ReadTypes, OlderIsOverlapped, NoReread

LEMMA InitRead == Init => ReadInv
  BY NoRereadIsFine DEF Init, ReadInv, ReadTypes, OlderIsOverlapped, NoReread

LEMMA WriteKeepsRead ==
    ASSUME ReadInv, Write
    PROVE  ReadInv'
<1> stored \in Values
  BY DEF ReadInv, ReadTypes
<1>1. ASSUME NEW w \in Writers, Call(w) PROVE ReadInv'
  BY <1>1, SameKeeps DEF Call, deviceVars
<1>2. ASSUME NEW w \in Writers, Locked(w) PROVE ReadInv'
  BY <1>2, SameKeeps, NoteKeeps DEF Locked, deviceVars
<1>3. ASSUME NEW w \in Writers, ReadBack(w) PROVE ReadInv'
  BY <1>3, NoteKeeps DEF ReadBack, deviceVars
<1>4. ASSUME NEW w \in Writers, ReadBackFails(w) PROVE ReadInv'
  BY <1>4, NoteKeeps DEF ReadBackFails, deviceVars
<1>5. ASSUME NEW a \in Actions, CallAction(a) PROVE ReadInv'
  BY <1>5, NoteKeeps DEF CallAction, deviceVars
<1>6. ASSUME NEW c \in Calls, WriteAnswered(c) PROVE ReadInv'
  BY <1>6, ReachesKeeps DEF WriteAnswered
<1>7. ASSUME NEW c \in Calls, WriteFails(c) PROVE ReadInv'
  BY <1>7, ReachesKeeps DEF WriteFails
<1> QED
  BY <1>1, <1>2, <1>3, <1>4, <1>5, <1>6, <1>7 DEF Write

LEMMA RereadKeepsRead ==
    ASSUME ReadInv, Reread
    PROVE  ReadInv'
<1> stored \in Values
  BY DEF ReadInv, ReadTypes
<1>1. CASE Press
  BY <1>1 DEF Press, ReadInv, ReadTypes, OlderIsOverlapped, NoReread, Readings, deviceVars
<1>2. CASE RereadContinues
  BY <1>2 DEF RereadContinues, ReadInv, ReadTypes, OlderIsOverlapped, Readings, deviceVars
<1>3. CASE RereadEnds
  BY <1>3, NoRereadKeeps DEF RereadEnds, deviceVars
<1>4. CASE RereadFails
  BY <1>4, NoRereadKeeps DEF RereadFails, deviceVars
<1> QED
  BY <1>1, <1>2, <1>3, <1>4 DEF Reread

LEMMA OtherStepsKeepRead ==
    ASSUME ReadInv, List \/ Around
    PROVE  ReadInv'
<1> stored \in Values
  BY DEF ReadInv, ReadTypes
<1>1. CASE List
  BY <1>1, SameKeeps DEF List, StreamList, RefreshTick, RefreshApplied, RefreshFails, deviceVars
<1>2. CASE DelayedSave \/ Expire
  BY <1>2, SameKeeps DEF DelayedSave, Expire, deviceVars
<1>3. CASE Forget
  BY <1>3, NoRereadKeeps DEF Forget, deviceVars
<1>4. CASE Restart
  BY <1>4, NoRereadKeeps DEF Restart
<1>5. CASE ChangedElsewhere
  BY <1>5, SameKeeps DEF ChangedElsewhere
<1>6. CASE CacheRefresh
  BY <1>6, SameKeeps DEF CacheRefresh
<1> QED
  BY <1>1, <1>2, <1>3, <1>4, <1>5, <1>6 DEF Around

LEMMA StepKeepsRead == ReadInv /\ [Next]_vars => ReadInv'
<1> SUFFICES ASSUME ReadInv, [Next]_vars PROVE ReadInv'
  OBVIOUS
<1>1. CASE Next
  BY <1>1, WriteKeepsRead, RereadKeepsRead, OtherStepsKeepRead DEF Next
<1>2. CASE UNCHANGED vars
  BY <1>2, SameKeeps DEF vars, deviceVars, ReadInv, ReadTypes
<1> QED
  BY <1>1, <1>2

\* A read that is older than a write is marked as overlapped by it
\* (_setting_writes), in every reachable state.
THEOREM OlderReadIsMarked == Spec => []ReadInv
  BY InitRead, StepKeepsRead, PTL DEF Spec

\* The end of an older read leaves what is shown alone.
LEMMA OlderIsDropped ==
    ASSUME ReadInv, [Next]_vars,
           reread.phase = "second", reread.older, reread'.phase = "idle", known'
    PROVE  UNCHANGED shown
<1> reread.overlapped
  BY DEF ReadInv, OlderIsOverlapped
<1>1. CASE RereadEnds
  BY <1>1 DEF RereadEnds
<1>2. CASE Write
  <2>1. reread'.phase = reread.phase
    <3> reread \in [phase : {"idle", "first", "second"}, value : Readings,
                    overlapped : BOOLEAN, older : BOOLEAN]
      BY DEF ReadInv, ReadTypes
    <3>1. ASSUME NoteWrite PROVE reread'.phase = reread.phase
      BY <3>1 DEF NoteWrite, Overlapped
    <3>2. ASSUME NEW changed, Reaches(changed) PROVE reread'.phase = reread.phase
      BY <3>2 DEF Reaches, Overlapped
    <3> QED
      BY <1>2, <3>1, <3>2 DEF Write, Call, Locked, ReadBack, ReadBackFails, CallAction,
                              WriteAnswered, WriteFails
  <2> QED
    BY <2>1
<1>3. CASE Reread /\ ~RereadEnds
  BY <1>3 DEF Reread, Press, RereadContinues, RereadFails
<1>4. CASE List
  BY <1>4 DEF List, StreamList, RefreshTick, RefreshApplied, RefreshFails
<1>5. CASE Around
  BY <1>5 DEF Around, DelayedSave, Expire, Forget, Restart, ChangedElsewhere, CacheRefresh,
              objectVars
<1>6. CASE UNCHANGED vars
  BY <1>6 DEF vars, objectVars
<1> QED
  BY <1>1, <1>2, <1>3, <1>4, <1>5, <1>6 DEF Next

\* A settings read never replaces what a write did after it was read
\* (_setting_writes, async_reread_device_settings).
THEOREM RereadStaysCurrent == Spec => RereadIsNotOlder
<1>1. ReadInv /\ [Next]_vars =>
         [reread.phase = "second" /\ reread.older /\ reread'.phase = "idle" /\ known'
            => UNCHANGED shown]_vars
  BY OlderIsDropped
<1> QED
  BY <1>1, OlderReadIsMarked, PTL DEF Spec, RereadIsNotOlder
--------------------------------------------------------------------------------
(* Sequences that have each value once                                      *)

Elements(s) == {s[i] : i \in DOMAIN s}

\* Without takes out that value and nothing else.
LEMMA WithoutProperties ==
    ASSUME NEW S, NEW s \in Seq(S), NEW v, EachOnce(s)
    PROVE  /\ Without(s, v) \in Seq(S)
           /\ EachOnce(Without(s, v))
           /\ Len(Without(s, v)) <= Len(s)
           /\ Elements(Without(s, v)) = Elements(s) \ {v}
<1>1. CASE \A i \in DOMAIN s : s[i] # v
  BY <1>1 DEF Without, Elements
<1>2. CASE \E i \in DOMAIN s : s[i] = v
  <2> DEFINE at == CHOOSE i \in DOMAIN s : s[i] = v
             t  == [i \in 1..(Len(s) - 1) |-> s[IF i < at THEN i ELSE i + 1]]
  <2>1. at \in 1..Len(s) /\ s[at] = v
    BY <1>2
  <2>2. Without(s, v) = t
    BY <1>2 DEF Without
  <2> HIDE DEF at
  <2>3. Len(s) - 1 \in Nat /\ DOMAIN s = 1..Len(s)
    BY <2>1
  <2>4. \A i \in 1..(Len(s) - 1) : (IF i < at THEN i ELSE i + 1) \in 1..Len(s)
    BY <2>1, <2>3
  <2>5. t \in Seq(S) /\ Len(t) = Len(s) - 1
    <3>1. t \in [1..(Len(s) - 1) -> S]
      BY <2>3, <2>4
    <3> QED
      BY <3>1, <2>3
  <2>6. EachOnce(t)
    <3> SUFFICES ASSUME NEW i \in 1..(Len(s) - 1), NEW j \in 1..(Len(s) - 1), t[i] = t[j]
                 PROVE  i = j
      BY <2>5 DEF EachOnce
    <3>1. (IF i < at THEN i ELSE i + 1) = (IF j < at THEN j ELSE j + 1)
      BY <2>3, <2>4 DEF EachOnce
    <3> QED
      BY <3>1, <2>1, <2>3
  <2>7. Elements(t) \subseteq Elements(s) \ {v}
    <3> SUFFICES ASSUME NEW i \in 1..(Len(s) - 1) PROVE t[i] \in Elements(s) \ {v}
      BY <2>5 DEF Elements
    <3> DEFINE k == IF i < at THEN i ELSE i + 1
    <3>1. k \in 1..Len(s) /\ k # at
      BY <2>1, <2>3
    <3>2. s[k] # v
      BY <3>1, <2>1, <2>3 DEF EachOnce
    <3> QED
      BY <3>1, <3>2, <2>3 DEF Elements
  <2>8. Elements(s) \ {v} \subseteq Elements(t)
    <3> SUFFICES ASSUME NEW k \in 1..Len(s), s[k] # v PROVE s[k] \in Elements(t)
      BY <2>3 DEF Elements
    <3>1. k # at
      BY <2>1
    <3> DEFINE i == IF k < at THEN k ELSE k - 1
    <3>2. i \in 1..(Len(s) - 1) /\ (IF i < at THEN i ELSE i + 1) = k
      BY <3>1, <2>1, <2>3
    <3>3. t[i] = s[k]
      BY <3>2
    <3> HIDE DEF t, i
    <3> QED
      BY <3>2, <3>3, <2>5 DEF Elements
  <2> HIDE DEF t
  <2>9. Elements(t) = Elements(s) \ {v}
    BY <2>7, <2>8
  <2>10. Len(t) <= Len(s)
    BY <2>5, <2>3
  <2> QED
    BY <2>2, <2>5, <2>6, <2>9, <2>10
<1> QED
  BY <1>1, <1>2

\* A value put in front of others that it is not among.
LEMMA EachOnceWithHead ==
    ASSUME NEW S, NEW s \in Seq(S), NEW w
    PROVE  /\ EachOnce(<<w>> \o s) <=> EachOnce(s) /\ w \notin Elements(s)
           /\ Elements(<<w>> \o s) = {w} \cup Elements(s)
<1> DEFINE t == <<w>> \o s
<1>1. DOMAIN t = 1..(Len(s) + 1) /\ DOMAIN s = 1..Len(s) /\ Len(s) \in Nat
  OBVIOUS
<1>2. t[1] = w /\ \A i \in 1..Len(s) : t[i + 1] = s[i]
  OBVIOUS
<1>3. \A i \in DOMAIN t : i = 1 \/ (i - 1 \in 1..Len(s) /\ t[i] = s[i - 1])
  BY <1>1, <1>2
<1> HIDE DEF t
<1>4. ASSUME EachOnce(t) PROVE EachOnce(s) /\ w \notin Elements(s)
  <2>1. \A i, j \in 1..Len(s) : s[i] = s[j] => i = j
    <3> TAKE i, j \in 1..Len(s)
    <3>1. i + 1 \in DOMAIN t /\ j + 1 \in DOMAIN t
      BY <1>1
    <3> QED
      BY <3>1, <1>2, <1>4 DEF EachOnce
  <2>2. \A i \in 1..Len(s) : s[i] # w
    <3> TAKE i \in 1..Len(s)
    <3>1. i + 1 \in DOMAIN t /\ 1 \in DOMAIN t /\ i + 1 # 1
      BY <1>1
    <3> QED
      BY <3>1, <1>2, <1>4 DEF EachOnce
  <2> QED
    BY <2>1, <2>2, <1>1 DEF EachOnce, Elements
<1>5. ASSUME EachOnce(s), w \notin Elements(s) PROVE EachOnce(t)
  <2> SUFFICES ASSUME NEW i \in DOMAIN t, NEW j \in DOMAIN t, t[i] = t[j] PROVE i = j
    BY DEF EachOnce
  <2>1. \A k \in 1..Len(s) : s[k] # w
    BY <1>5, <1>1 DEF Elements
  <2>2. CASE i = 1 \/ j = 1
    BY <2>1, <2>2, <1>1, <1>2, <1>3
  <2>3. CASE i # 1 /\ j # 1
    <3>1. i - 1 \in 1..Len(s) /\ j - 1 \in 1..Len(s) /\ s[i - 1] = s[j - 1]
      BY <2>3, <1>3
    <3>2. i - 1 = j - 1
      BY <3>1, <1>5, <1>1 DEF EachOnce
    <3> QED
      BY <3>2, <1>1
  <2> QED
    BY <2>2, <2>3
<1>6. Elements(t) = {w} \cup Elements(s)
  <2>1. \A i \in DOMAIN t : t[i] \in {w} \cup Elements(s)
    BY <1>1, <1>2, <1>3 DEF Elements
  <2>2. w \in Elements(t)
    BY <1>1, <1>2 DEF Elements
  <2>3. \A i \in DOMAIN s : s[i] \in Elements(t)
    <3> TAKE i \in DOMAIN s
    <3>1. i + 1 \in DOMAIN t /\ t[i + 1] = s[i]
      BY <1>1, <1>2
    <3> QED
      BY <3>1 DEF Elements
  <2> QED
    BY <2>1, <2>2, <2>3 DEF Elements
<1> QED
  BY <1>4, <1>5, <1>6 DEF t

\* All older values and the previous one are protected, but not the written one.
LEMMA StaleProperties ==
    ASSUME NEW previous \in Readings, NEW older \in Seq(Values), NEW written \in Values,
           EachOnce(older)
    PROVE  /\ Stale(previous, older, written) \in Seq(Values)
           /\ EachOnce(Stale(previous, older, written))
           /\ Elements(Stale(previous, older, written))
                = (Elements(older) \cup ({previous} \ {None})) \ {written}
<1> DEFINE candidates == IF previous = None THEN older ELSE <<previous>> \o Without(older, previous)
<1>1. /\ candidates \in Seq(Values) /\ EachOnce(candidates)
      /\ Elements(candidates) = Elements(older) \cup ({previous} \ {None})
  <2>1. CASE previous = None
    BY <2>1
  <2>2. CASE previous # None
    <3>1. previous \in Values
      BY <2>2 DEF Readings
    <3>2. /\ Without(older, previous) \in Seq(Values) /\ EachOnce(Without(older, previous))
          /\ Elements(Without(older, previous)) = Elements(older) \ {previous}
      BY WithoutProperties
    <3>3. EachOnce(candidates) /\ Elements(candidates) = {previous} \cup Elements(older)
      BY <2>2, <3>2, EachOnceWithHead
    <3> QED
      BY <2>2, <3>1, <3>2, <3>3
  <2> QED
    BY <2>1, <2>2
<1> HIDE DEF candidates
<1>2. Stale(previous, older, written) = Without(candidates, written)
  BY DEF Stale, candidates
<1> QED
  BY <1>1, <1>2, WithoutProperties

--------------------------------------------------------------------------------
(* Guards                                                                   *)

IsGuard(g) == g \in Guards /\ Len(g.stale) <= MaxStale /\ EachOnce(<<g.written>> \o g.stale)

LEMMA NoGuardIsGuard == IsGuard(NoGuard) /\ NoGuard.stale = <<>> /\ Elements(<<>>) = {}
<1>1. EachOnce(<<None>> \o <<>>)
  <2>1. EachOnce(<<>>) /\ Elements(<<>>) = {} /\ <<>> \in Seq(Values)
    BY DEF EachOnce, Elements
  <2> QED
    BY <2>1, EachOnceWithHead
<1> QED
  BY <1>1, SettingAssumption DEF IsGuard, NoGuard, Guards, Readings, Elements

\* A guard that had room keeps them all.
LEMMA GuardAfterProperties ==
    ASSUME NEW stale \in Seq(Values), EachOnce(stale), NEW written \in Values,
           written \notin Elements(stale)
    PROVE  /\ IsGuard(GuardAfter(stale, written))
           /\ Len(stale) <= MaxStale => Elements(GuardAfter(stale, written).stale) = Elements(stale)
           /\ GuardAfter(stale, written).stale # <<>> => GuardAfter(stale, written).live
<1>1. CASE stale = <<>>
  BY <1>1, NoGuardIsGuard DEF GuardAfter
<1>2. CASE stale # <<>>
  <2> DEFINE n == IF Len(stale) < MaxStale THEN Len(stale) ELSE MaxStale
             k == Kept(stale)
  <2>1. n \in 0..Len(stale) /\ n <= MaxStale /\ Len(stale) \in Nat
    BY SettingAssumption
  <2>2. k \in Seq(Values) /\ Len(k) = n /\ \A i \in 1..n : k[i] = stale[i]
    BY <2>1 DEF Kept
  <2> HIDE DEF n, k
  <2>3. DOMAIN k = 1..n /\ DOMAIN stale = 1..Len(stale)
    BY <2>2
  <2>4. EachOnce(k) /\ written \notin Elements(k)
    BY <2>1, <2>2, <2>3 DEF EachOnce, Elements
  <2>5. EachOnce(<<written>> \o k)
    BY <2>2, <2>4, EachOnceWithHead
  <2>6. Len(stale) <= MaxStale => k = stale
    <3> SUFFICES ASSUME Len(stale) <= MaxStale PROVE k = stale
      OBVIOUS
    <3>1. n = Len(stale)
      BY <2>1, SettingAssumption DEF n
    <3> QED
      BY <3>1, <2>2, <2>3
  <2>7. GuardAfter(stale, written) = [stale |-> k, written |-> written, live |-> TRUE]
    BY <1>2 DEF GuardAfter, k
  <2> QED
    BY <2>1, <2>2, <2>5, <2>6, <2>7 DEF IsGuard, Guards, Readings
<1> QED
  BY <1>1, <1>2

--------------------------------------------------------------------------------
(* The inductive invariant                                                  *)

Busy(c) == stage[c] \in {"writing", "reading"}
Reading == \E w \in Writers : stage[w] = "reading"
Older   == Elements(guard.stale)

\* The setting lock.
OneWriter == \A v, w \in Writers : Busy(v) /\ Busy(w) => v = w

\* An entity that writes the present device has a reading.
ObjectInv ==
    /\ \A w \in Writers : objectOf[w] <= object
    /\ \A o \in Objects : o > object => shown[o] = None
    /\ \A w \in Writers : stage[w] # "idle" /\ objectOf[w] = object => shown[object] # None

\* What a settings read that no write overlapped has read is shown undisturbed.
UndisturbedRead ==
    /\ reread.phase = "second" => reread.value \in Values
    /\ reread.phase = "second" /\ ~reread.overlapped => \A c \in Calls : ~Busy(c)

\* While every change is a protected write, answers on their way are no older
\* than the gateway's copy.
TrustInv ==
    trusted =>
        /\ Protects => guard.live
        /\ refresh \in {None, cache}
        /\ reread.phase = "second" /\ ~reread.overlapped => reread.value = stored

\* The gateway's copy is current or protected.  During a read-back the value
\* that is still shown will be, unless the write was for an earlier object: that
\* ends the trust.
CacheInv ==
    trusted /\ ~dropped =>
        IF Reading THEN shown[object] = None \/ cache \in {shown[object], stored} \cup Older
        ELSE shown[object] \in {stored, None} /\ cache \in {stored} \cup Older

ProtectionInv == TypeOK /\ OneWriter /\ ObjectInv /\ UndisturbedRead /\ TrustInv /\ CacheInv

RereadTypes == [phase : {"idle", "first", "second"}, value : Readings,
                overlapped : BOOLEAN, older : BOOLEAN]

Types ==
    /\ stored \in Values /\ cache \in Values
    /\ known \in BOOLEAN
    /\ object \in Objects
    /\ shown \in [Objects -> Readings]
    /\ stage \in [Calls -> {"idle", "waiting", "writing", "reading"}]
    /\ objectOf \in [Calls -> Objects]
    /\ cut \subseteq Calls
    /\ reread \in RereadTypes
    /\ refresh \in Readings
    /\ trusted \in BOOLEAN /\ dropped \in BOOLEAN

LEMMA TypeParts == TypeOK <=> Types /\ IsGuard(guard) /\ IsGuard(saved)
  BY DEF TypeOK, Types, IsGuard, RereadTypes

LEMMA TypePartsAfter == Types' /\ IsGuard(guard') /\ IsGuard(saved') => TypeOK'
  BY DEF TypeOK, Types, IsGuard, RereadTypes

LEMMA NoRereadType == NoReread \in RereadTypes
  BY DEF NoReread, RereadTypes, Readings

\* An older value is not the written one, so a list that carries it repeats it.
LEMMA OlderRepeats ==
    ASSUME IsGuard(guard), NEW v \in Older
    PROVE  Protects /\ (guard.live => Repeats(v))
<1>1. guard.stale \in Seq(Values) /\ v \in Elements(guard.stale)
  BY DEF IsGuard, Guards, Older
<1>2. guard.written \notin Elements(guard.stale)
  BY <1>1, EachOnceWithHead DEF IsGuard
<1>3. guard.stale # <<>>
  BY <1>1, NoGuardIsGuard
<1>4. \E i \in DOMAIN guard.stale : guard.stale[i] = v
  BY <1>1 DEF Elements
<1> QED
  BY <1>1, <1>2, <1>3, <1>4 DEF Protects, Repeats

LEMMA ProtectionInit == Init => ProtectionInv
<1> SUFFICES ASSUME Init PROVE ProtectionInv
  OBVIOUS
<1> USE DEF Init
<1>1. Types
  <2>1. trusted \in BOOLEAN
    OBVIOUS
  <2>2. 0 \in Objects /\ shown \in [Objects -> Readings]
    BY SettingAssumption DEF Objects, Readings
  <2>3. stage \in [Calls -> {"idle", "waiting", "writing", "reading"}]
    OBVIOUS
  <2>4. objectOf \in [Calls -> Objects] /\ object \in Objects
    BY <2>2
  <2>5. reread \in RereadTypes /\ refresh \in Readings
    BY NoRereadType DEF Readings
  <2>6. stored \in Values /\ cache \in Values /\ known \in BOOLEAN /\ cut \subseteq Calls
        /\ dropped \in BOOLEAN
    OBVIOUS
  <2> QED
    BY <2>1, <2>2, <2>3, <2>4, <2>5, <2>6 DEF Types
<1>2. IsGuard(guard) /\ IsGuard(saved)
  BY NoGuardIsGuard
<1>3. OneWriter /\ UndisturbedRead
  BY DEF OneWriter, Busy, Calls, UndisturbedRead, NoReread
<1>4. ObjectInv
  BY DEF ObjectInv, Calls
<1>5. TrustInv
  BY DEF TrustInv, NoReread, Protects, NoGuard
<1>6. CacheInv
  <2>1. ~Reading
    BY DEF Reading, Calls
  <2>2. shown[object] = None
    BY SettingAssumption DEF Objects
  <2>3. trusted => cache = stored
    OBVIOUS
  <2> QED
    BY <2>1, <2>2, <2>3 DEF CacheInv
<1> QED
  BY <1>1, <1>2, <1>3, <1>4, <1>5, <1>6, TypeParts DEF ProtectionInv

--------------------------------------------------------------------------------
(* What a step may leave as it is                                           *)

LEMMA SameStages ==
    ASSUME OneWriter, UNCHANGED stage
    PROVE  OneWriter'
  BY DEF OneWriter, Busy

LEMMA SameObjects ==
    ASSUME ObjectInv, UNCHANGED <<stage, objectOf, object, shown>>
    PROVE  ObjectInv'
  BY DEF ObjectInv

LEMMA SameReread ==
    ASSUME UndisturbedRead, UNCHANGED <<stage, reread>>
    PROVE  UndisturbedRead'
  BY DEF UndisturbedRead, Busy

LEMMA SameTrust ==
    ASSUME TrustInv, trusted' => trusted, UNCHANGED <<guard, refresh, cache, reread, stored>>
    PROVE  TrustInv'
  BY DEF TrustInv, Protects

LEMMA SameCache ==
    ASSUME CacheInv, trusted' => trusted, UNCHANGED <<dropped, shown, object, cache, stored, guard>>,
           Reading' = Reading
    PROVE  CacheInv'
  BY DEF CacheInv, Older

\* A call ends: nobody else starts.
LEMMA DoneProperties ==
    ASSUME Types, NEW c \in Calls, Done(c)
    PROVE  /\ stage' \in [Calls -> {"idle", "waiting", "writing", "reading"}]
           /\ objectOf' \in [Calls -> Objects]
           /\ cut' \subseteq Calls
           /\ stage'[c] = "idle" /\ objectOf'[c] = 0
           /\ \A d \in Calls \ {c} : stage'[d] = stage[d] /\ objectOf'[d] = objectOf[d]
  BY SettingAssumption DEF Types, Done, Objects

LEMMA DoneKeeps ==
    ASSUME Types, NEW c \in Calls, Done(c), OneWriter
    PROVE  OneWriter'
<1> \A w \in Calls : Busy(w)' => Busy(w)
  BY DoneProperties DEF Busy
<1> QED
  BY DEF OneWriter, Calls

LEMMA DoneKeepsObjects ==
    ASSUME Types, NEW c \in Calls, Done(c), ObjectInv, UNCHANGED <<object, shown>>
    PROVE  ObjectInv'
<1> \A w \in Calls : stage'[w] # "idle" => stage[w] # "idle" /\ objectOf'[w] = objectOf[w]
  BY DoneProperties
<1> \A w \in Calls : objectOf'[w] \in {0, objectOf[w]}
  BY DoneProperties
<1> 0 <= object
  BY SettingAssumption DEF Types, Objects
<1> QED
  BY DEF ObjectInv, Calls, Types

\* A note marks the read, an effect of a request too.
LEMMA NoteProperties ==
    ASSUME Types, UndisturbedRead, NoteWrite \/ (\E changed \in BOOLEAN : Reaches(changed))
    PROVE  /\ reread' \in RereadTypes
           /\ reread'.phase = reread.phase /\ reread'.value = reread.value
           /\ reread'.phase = "second" => reread'.overlapped
           /\ UndisturbedRead'
<1>1. /\ reread' \in RereadTypes
      /\ reread'.phase = reread.phase /\ reread'.value = reread.value
      /\ reread'.phase = "second" => reread'.overlapped
  BY DEF Types, NoteWrite, Reaches, Overlapped, RereadTypes
<1> QED
  BY <1>1 DEF UndisturbedRead

--------------------------------------------------------------------------------
(* Writing                                                                  *)

LEMMA CallKeeps ==
    ASSUME ProtectionInv, NEW w \in Writers, Call(w)
    PROVE  ProtectionInv'
<1> USE DEF ProtectionInv, Call, deviceVars, objectVars, guardVars, factVars
<1>1. Types /\ IsGuard(guard) /\ IsGuard(saved)
  BY TypeParts
<1>2. \A c \in Calls : stage'[c] = IF c = w THEN "waiting" ELSE stage[c]
  BY <1>1 DEF Types, Calls
<1>3. Types'
  BY <1>1 DEF Types, Calls
<1>4. \A c \in Calls : Busy(c)' => Busy(c)
  BY <1>2 DEF Busy
<1>5. OneWriter' /\ UndisturbedRead'
  BY <1>4 DEF OneWriter, UndisturbedRead, Calls
<1>6. ObjectInv'
  <2>1. \A v \in Writers : v # w => stage'[v] = stage[v] /\ objectOf'[v] = objectOf[v]
    BY <1>1, <1>2 DEF Types, Calls
  <2>2. objectOf'[w] = object /\ shown[object] # None
    BY <1>1 DEF Types, Calls
  <2> QED
    BY <1>1, <2>1, <2>2 DEF ObjectInv, Types, Objects
<1>7. Reading' = Reading
  BY <1>2 DEF Reading, Calls
<1>8. TrustInv' /\ CacheInv'
  BY <1>7, SameTrust, SameCache
<1> QED
  BY <1>1, <1>3, <1>5, <1>6, <1>8, TypePartsAfter

LEMMA LockedKeeps ==
    ASSUME ProtectionInv, NEW w \in Writers, Locked(w)
    PROVE  ProtectionInv'
<1> USE DEF ProtectionInv, Locked, deviceVars, objectVars, guardVars, factVars
<1>1. Types /\ IsGuard(guard) /\ IsGuard(saved) /\ w \in Calls
  BY TypeParts DEF Calls
<1>2. CASE stage' = [stage EXCEPT ![w] = "writing"] /\ NoteWrite /\ UNCHANGED <<objectOf, cut>>
  <2>1. \A c \in Calls : stage'[c] = IF c = w THEN "writing" ELSE stage[c]
    BY <1>1, <1>2 DEF Types
  <2>2. reread' \in RereadTypes /\ UndisturbedRead' /\ (reread'.phase = "second" => reread'.overlapped)
    BY <1>1, <1>2, NoteProperties
  <2>3. Types'
    BY <1>1, <1>2, <2>2 DEF Types
  <2>4. OneWriter'
    BY <2>1 DEF OneWriter, LockFree, Busy, Calls
  <2>5. ObjectInv'
    BY <1>2, <2>1 DEF ObjectInv, Calls
  <2>6. Reading' = Reading
    BY <2>1 DEF Reading, Calls
  <2>7. TrustInv'
    BY <2>2 DEF TrustInv, Protects
  <2>8. CacheInv'
    BY <2>6, SameCache
  <2> QED
    BY <1>1, <2>2, <2>3, <2>4, <2>5, <2>7, <2>8, TypePartsAfter
<1>3. CASE Done(w) /\ (NoteWrite \/ UNCHANGED reread)
  <2>1. /\ stage' \in [Calls -> {"idle", "waiting", "writing", "reading"}]
        /\ objectOf' \in [Calls -> Objects] /\ cut' \subseteq Calls
        /\ stage'[w] = "idle" /\ \A d \in Calls \ {w} : stage'[d] = stage[d]
    BY <1>1, <1>3, DoneProperties
  <2>2. /\ reread' \in RereadTypes /\ UndisturbedRead'
        /\ UNCHANGED reread \/ (reread'.phase = "second" => reread'.overlapped)
    <3>1. CASE NoteWrite
      BY <1>1, <3>1, NoteProperties
    <3>2. CASE UNCHANGED reread
      <4>1. \A c \in Calls : Busy(c)' => Busy(c)
        BY <2>1 DEF Busy
      <4> QED
        BY <1>1, <3>2, <4>1 DEF UndisturbedRead, Types
    <3> QED
      BY <1>3, <3>1, <3>2
  <2>3. Types'
    BY <1>1, <2>1, <2>2 DEF Types
  <2>4. OneWriter' /\ ObjectInv'
    BY <1>1, <1>3, DoneKeeps, DoneKeepsObjects
  <2>5. Reading' = Reading
    BY <2>1 DEF Reading, Calls
  <2>6. TrustInv'
    BY <2>2 DEF TrustInv, Protects
  <2>7. CacheInv'
    BY <2>5, SameCache
  <2> QED
    BY <1>1, <2>2, <2>3, <2>4, <2>6, <2>7, TypePartsAfter
<1> QED
  BY <1>2, <1>3

LEMMA CallActionKeeps ==
    ASSUME ProtectionInv, NEW a \in Actions, CallAction(a)
    PROVE  ProtectionInv'
<1> USE DEF ProtectionInv, CallAction, deviceVars, objectVars, guardVars, factVars
<1>1. Types /\ IsGuard(guard) /\ IsGuard(saved) /\ a \in Calls /\ a \notin Writers
  BY TypeParts, SettingAssumption DEF Calls
<1>2. \A c \in Calls : stage'[c] = IF c = a THEN "writing" ELSE stage[c]
  BY <1>1 DEF Types
<1>3. reread' \in RereadTypes /\ UndisturbedRead' /\ (reread'.phase = "second" => reread'.overlapped)
  BY <1>1, NoteProperties
<1>4. Types'
  BY <1>1, <1>3 DEF Types
<1>5. \A w \in Writers : stage'[w] = stage[w]
  BY <1>1, <1>2 DEF Calls
<1>6. OneWriter' /\ ObjectInv' /\ Reading' = Reading
  BY <1>5 DEF OneWriter, Busy, ObjectInv, Reading
<1>7. TrustInv'
  BY <1>3 DEF TrustInv, Protects
<1>8. CacheInv'
  BY <1>6, SameCache
<1> QED
  BY <1>1, <1>3, <1>4, <1>6, <1>7, <1>8, TypePartsAfter

\* The value that was current is still shown, and now protected by nothing but
\* the read-back that follows.
LEMMA WriteAnsweredKeeps ==
    ASSUME ProtectionInv, NEW c \in Calls, WriteAnswered(c)
    PROVE  ProtectionInv'
<1> USE DEF ProtectionInv, WriteAnswered, objectVars, guardVars
<1>1. Types /\ IsGuard(guard) /\ IsGuard(saved)
  BY TypeParts
<1>2. reread' \in RereadTypes /\ UndisturbedRead' /\ (reread'.phase = "second" => reread'.overlapped)
  <2>1. (stored' # stored) \in BOOLEAN
    OBVIOUS
  <2> QED
    BY <1>1, <2>1, NoteProperties
<1>3. TrustInv'
  <2>1. trusted' => trusted
    BY <1>1 DEF Types
  <2> QED
    BY <1>2, <2>1 DEF TrustInv, Protects
<1>4. CASE c \in Writers /\ stage' = [stage EXCEPT ![c] = "reading"] /\ UNCHANGED <<objectOf, cut, trusted>>
  <2>1. \A d \in Calls : stage'[d] = IF d = c THEN "reading" ELSE stage[d]
    BY <1>1, <1>4 DEF Types
  <2>2. Types'
    BY <1>1, <1>2, <1>4 DEF Types
  <2>3. OneWriter' /\ ObjectInv'
    BY <1>4, <2>1 DEF OneWriter, Busy, ObjectInv, Calls
  <2>4. Reading' /\ ~Reading
    <3>1. \A v \in Writers : stage[v] = "reading" => v = c
      BY <1>4 DEF OneWriter, Busy
    <3> QED
      BY <1>4, <2>1, <3>1 DEF Reading
  <2>5. CacheInv'
    BY <1>4, <2>4 DEF CacheInv, Older
  <2> QED
    BY <1>1, <1>2, <1>3, <2>2, <2>3, <2>5, TypePartsAfter
<1>5. CASE c \in Actions /\ Done(c) /\ trusted' = (trusted /\ stored' = stored)
  <2>1. /\ stage' \in [Calls -> {"idle", "waiting", "writing", "reading"}]
        /\ objectOf' \in [Calls -> Objects] /\ cut' \subseteq Calls
        /\ stage'[c] = "idle" /\ \A d \in Calls \ {c} : stage'[d] = stage[d]
    BY <1>1, <1>5, DoneProperties
  <2>2. Types'
    BY <1>1, <1>2, <1>5, <2>1 DEF Types
  <2>3. OneWriter' /\ ObjectInv'
    BY <1>1, <1>5, DoneKeeps, DoneKeepsObjects
  <2>4. Reading' = Reading
    BY <1>5, <2>1, SettingAssumption DEF Reading, Calls
  <2>5. CacheInv'
    BY <1>5, <2>4 DEF CacheInv, Older
  <2> QED
    BY <1>1, <1>2, <1>3, <2>2, <2>3, <2>5, TypePartsAfter
<1> QED
  BY <1>4, <1>5

LEMMA WriteFailsKeeps ==
    ASSUME ProtectionInv, NEW c \in Calls, WriteFails(c)
    PROVE  ProtectionInv'
<1> USE DEF ProtectionInv, WriteFails, objectVars, guardVars
<1>1. Types /\ IsGuard(guard) /\ IsGuard(saved)
  BY TypeParts
<1>2. reread' \in RereadTypes /\ UndisturbedRead' /\ (reread'.phase = "second" => reread'.overlapped)
  <2>1. (stored' # stored) \in BOOLEAN
    OBVIOUS
  <2> QED
    BY <1>1, <2>1, NoteProperties
<1>3. /\ stage' \in [Calls -> {"idle", "waiting", "writing", "reading"}]
      /\ objectOf' \in [Calls -> Objects] /\ cut' \subseteq Calls
      /\ stage'[c] = "idle" /\ \A d \in Calls \ {c} : stage'[d] = stage[d]
  BY <1>1, DoneProperties
<1>4. Types'
  BY <1>1, <1>2, <1>3 DEF Types
<1>5. OneWriter' /\ ObjectInv'
  BY <1>1, DoneKeeps, DoneKeepsObjects
<1>6. Reading' = Reading
  BY <1>3 DEF Reading, Calls
<1>7. TrustInv'
  BY <1>2 DEF TrustInv, Protects
<1>8. CacheInv'
  BY <1>6 DEF CacheInv, Older
<1> QED
  BY <1>1, <1>2, <1>4, <1>5, <1>7, <1>8, TypePartsAfter

\* What was shown is protected now, with everything that was; unless it did not
\* fit any more, the copy is among it or current.
LEMMA ReadBackKeeps ==
    ASSUME ProtectionInv, NEW w \in Writers, ReadBack(w)
    PROVE  ProtectionInv'
<1> USE DEF ProtectionInv, ReadBack, deviceVars
<1>1. Types /\ IsGuard(guard) /\ IsGuard(saved) /\ w \in Calls
  BY TypeParts DEF Calls
<1> DEFINE o     == objectOf[w]
           stale == Stale(shown[o], guard.stale, stored)
<1>2. o \in Objects /\ shown[o] \in Readings
  BY <1>1 DEF Types
<1>3. guard.stale \in Seq(Values) /\ EachOnce(guard.stale)
  <2>1. guard.stale \in Seq(Values)
    BY <1>1 DEF IsGuard, Guards
  <2> QED
    BY <1>1, <2>1, EachOnceWithHead DEF IsGuard
<1>4. /\ stale \in Seq(Values) /\ EachOnce(stale)
      /\ Elements(stale) = (Older \cup ({shown[o]} \ {None})) \ {stored}
  BY <1>1, <1>2, <1>3, StaleProperties DEF Types, Older
<1>5. /\ shown' = [shown EXCEPT ![o] = stored]
      /\ guard' = GuardAfter(stale, stored)
      /\ trusted' = (trusted /\ o = object)
      /\ dropped' = (dropped \/ Len(stale) > MaxStale)
  OBVIOUS
<1> HIDE DEF stale, o
<1>6. /\ IsGuard(guard')
      /\ Len(stale) <= MaxStale => Elements(guard'.stale) = Elements(stale)
      /\ guard'.stale # <<>> => guard'.live
  BY <1>1, <1>4, <1>5, GuardAfterProperties DEF Types
<1>7. reread' \in RereadTypes /\ UndisturbedRead' /\ (reread'.phase = "second" => reread'.overlapped)
  BY <1>1, NoteProperties
<1>8. /\ stage' \in [Calls -> {"idle", "waiting", "writing", "reading"}]
      /\ objectOf' \in [Calls -> Objects] /\ cut' \subseteq Calls
      /\ stage'[w] = "idle" /\ objectOf'[w] = 0
      /\ \A d \in Calls \ {w} : stage'[d] = stage[d] /\ objectOf'[d] = objectOf[d]
  BY <1>1, DoneProperties
<1>9. shown' \in [Objects -> Readings] /\ stored # None
  BY <1>1, <1>2, <1>5, SettingAssumption DEF Types, Readings
<1>10. Types'
  <2>1. trusted' \in BOOLEAN /\ dropped' \in BOOLEAN
    BY <1>5
  <2> QED
    BY <1>1, <1>7, <1>8, <1>9, <2>1 DEF Types
<1>11. OneWriter'
  BY <1>1, DoneKeeps
<1>12. ObjectInv'
  <2>1. o <= object /\ object \in Int /\ object \in Objects
    BY <1>1 DEF ObjectInv, o, Types, Objects
  <2>2. \A p \in Objects : p > object => shown'[p] = None
    BY <1>1, <1>5, <2>1 DEF ObjectInv, Types, Objects
  <2>3. shown'[object] \in {shown[object], stored}
    BY <1>1, <1>5, <2>1 DEF Types
  <2>4. \A v \in Writers : objectOf'[v] \in {0, objectOf[v]}
    BY <1>8 DEF Calls
  <2>5. 0 <= object
    BY <1>1, SettingAssumption DEF Types, Objects
  <2>6. \A v \in Writers : stage'[v] # "idle" => stage[v] # "idle" /\ objectOf'[v] = objectOf[v]
    BY <1>8 DEF Calls
  <2> QED
    BY <1>9, <2>1, <2>2, <2>3, <2>4, <2>5, <2>6 DEF ObjectInv
<1>13. TrustInv'
  BY <1>5, <1>6, <1>7 DEF TrustInv, Protects
<1>14. Reading /\ ~Reading'
  <2>1. \A v \in Writers : stage[v] = "reading" => v = w
    BY DEF OneWriter, Busy
  <2> QED
    BY <1>8, <2>1 DEF Reading, Calls
<1>15. CacheInv'
  <2> SUFFICES ASSUME trusted', ~dropped'
               PROVE  shown'[object] \in {stored, None} /\ cache \in {stored} \cup Elements(guard'.stale)
    BY <1>14 DEF CacheInv, Older
  <2>1. trusted /\ ~dropped /\ o = object /\ ~(Len(stale) > MaxStale)
    BY <1>5
  <2>2. shown'[object] = stored /\ shown[object] # None
    BY <1>1, <1>2, <1>5, <2>1 DEF ObjectInv, Types, o
  <2>3. cache \in {shown[object], stored} \cup Older
    BY <1>14, <2>1, <2>2 DEF CacheInv
  <2>4. Len(stale) <= MaxStale
    BY <1>4, <2>1, SettingAssumption
  <2>5. Elements(guard'.stale) = (Older \cup ({shown[o]} \ {None})) \ {stored}
    BY <1>4, <1>6, <2>4
  <2> QED
    BY <2>1, <2>2, <2>3, <2>5
<1> QED
  BY <1>1, <1>6, <1>7, <1>10, <1>11, <1>12, <1>13, <1>15, TypePartsAfter

LEMMA ReadBackFailsKeeps ==
    ASSUME ProtectionInv, NEW w \in Writers, ReadBackFails(w)
    PROVE  ProtectionInv'
<1> USE DEF ProtectionInv, ReadBackFails, deviceVars, objectVars, guardVars
<1>1. Types /\ IsGuard(guard) /\ IsGuard(saved) /\ w \in Calls
  BY TypeParts DEF Calls
<1>2. reread' \in RereadTypes /\ UndisturbedRead' /\ (reread'.phase = "second" => reread'.overlapped)
  BY <1>1, NoteProperties
<1>3. /\ stage' \in [Calls -> {"idle", "waiting", "writing", "reading"}]
      /\ objectOf' \in [Calls -> Objects] /\ cut' \subseteq Calls
      /\ stage'[w] = "idle" /\ \A d \in Calls \ {w} : stage'[d] = stage[d]
  BY <1>1, DoneProperties
<1>4. Types'
  BY <1>1, <1>2, <1>3 DEF Types
<1>5. OneWriter' /\ ObjectInv'
  BY <1>1, DoneKeeps, DoneKeepsObjects
<1>6. Reading /\ ~Reading'
  <2>1. \A v \in Writers : stage[v] = "reading" => v = w
    BY DEF OneWriter, Busy
  <2> QED
    BY <1>3, <2>1 DEF Reading, Calls
<1>7. TrustInv'
  BY <1>2 DEF TrustInv, Protects
<1>8. CacheInv'
  BY <1>1, <1>6, SettingAssumption DEF CacheInv, Older, Types
<1> QED
  BY <1>1, <1>2, <1>4, <1>5, <1>7, <1>8, TypePartsAfter

LEMMA WriteKeeps ==
    ASSUME ProtectionInv, Write
    PROVE  ProtectionInv'
  BY CallKeeps, LockedKeeps, CallActionKeeps, WriteAnsweredKeeps, WriteFailsKeeps, ReadBackKeeps,
     ReadBackFailsKeeps DEF Write

--------------------------------------------------------------------------------
(* Reading the settings                                                     *)

LEMMA PressKeeps ==
    ASSUME ProtectionInv, Press
    PROVE  ProtectionInv'
<1> USE DEF ProtectionInv, Press, deviceVars, objectVars, guardVars, callVars, factVars
<1>1. Types /\ IsGuard(guard) /\ IsGuard(saved)
  BY TypeParts
<1>2. reread' \in RereadTypes /\ reread'.phase = "first"
  BY NoRereadType DEF RereadTypes, NoReread, Readings
<1>3. Types'
  BY <1>1, <1>2 DEF Types
<1>4. UndisturbedRead' /\ TrustInv'
  BY <1>2 DEF UndisturbedRead, TrustInv, Protects
<1>5. CacheInv'
  BY SameCache DEF Reading
<1> QED
  BY <1>1, <1>3, <1>4, <1>5, SameStages, SameObjects, TypePartsAfter

LEMMA RereadContinuesKeeps ==
    ASSUME ProtectionInv, RereadContinues
    PROVE  ProtectionInv'
<1> USE DEF ProtectionInv, RereadContinues, deviceVars, objectVars, guardVars, callVars, factVars
<1>1. Types /\ IsGuard(guard) /\ IsGuard(saved)
  BY TypeParts
<1>2. /\ reread' \in RereadTypes
      /\ reread'.phase = "second" /\ reread'.value = stored /\ reread'.overlapped = reread.overlapped
  BY <1>1 DEF Types, RereadTypes, Readings
<1>3. Types'
  BY <1>1, <1>2 DEF Types
<1>4. UndisturbedRead' /\ TrustInv'
  BY <1>1, <1>2 DEF UndisturbedRead, TrustInv, Protects, Busy, Types
<1>5. CacheInv'
  BY SameCache DEF Reading
<1> QED
  BY <1>1, <1>3, <1>4, <1>5, SameStages, SameObjects, TypePartsAfter

\* A read that no write overlapped shows the present value.
LEMMA RereadEndsKeeps ==
    ASSUME ProtectionInv, RereadEnds
    PROVE  ProtectionInv'
<1> USE DEF ProtectionInv, RereadEnds, deviceVars, callVars
<1>1. Types /\ IsGuard(guard) /\ IsGuard(saved)
  BY TypeParts
<1>2. reread' \in RereadTypes /\ reread'.phase = "idle"
  BY NoRereadType DEF NoReread
<1>3. UndisturbedRead' /\ OneWriter'
  BY <1>2, SameStages DEF UndisturbedRead
<1>4. CASE reread.overlapped /\ UNCHANGED <<shown, guard, trusted>>
  <2>1. Types'
    BY <1>1, <1>2, <1>4 DEF Types
  <2>2. TrustInv' /\ CacheInv'
    BY <1>2, <1>4 DEF TrustInv, Protects, CacheInv, Reading, Older
  <2> QED
    BY <1>1, <1>3, <1>4, <2>1, <2>2, SameObjects, TypePartsAfter
<1>5. CASE /\ ~reread.overlapped
           /\ shown' = [shown EXCEPT ![object] = reread.value]
           /\ guard' = NoGuard
           /\ trusted' = (trusted /\ ~Protects)
  <2>1. reread.value \in Values /\ reread.value # None
    BY <1>5, SettingAssumption DEF UndisturbedRead
  <2>2. /\ shown' \in [Objects -> Readings] /\ shown'[object] = reread.value
        /\ \A o \in Objects \ {object} : shown'[o] = shown[o]
    BY <1>1, <1>5, <2>1 DEF Types, Readings
  <2>3. Types'
    BY <1>1, <1>2, <1>5, <2>2 DEF Types
  <2>4. ObjectInv'
    BY <1>1, <2>1, <2>2 DEF ObjectInv, Types, Objects
  <2>5. IsGuard(guard') /\ guard'.stale = <<>>
    BY <1>5, NoGuardIsGuard
  <2>6. TrustInv'
    BY <1>2, <1>5, <2>5 DEF TrustInv, Protects
  <2>7. ~Reading /\ ~Reading'
    BY <1>5 DEF UndisturbedRead, Busy, Reading, Calls
  <2>8. CacheInv'
    <3> SUFFICES ASSUME trusted', ~dropped' PROVE shown'[object] = stored /\ cache = stored
      BY <2>7 DEF CacheInv
    <3>1. trusted /\ ~dropped /\ ~Protects
      BY <1>5
    <3>2. shown'[object] = stored
      BY <1>5, <2>2, <3>1 DEF TrustInv
    <3>3. Older = {}
      BY <1>1, <3>1, OlderRepeats
    <3> QED
      BY <2>7, <3>1, <3>2, <3>3 DEF CacheInv
  <2> QED
    BY <1>1, <1>3, <2>3, <2>4, <2>5, <2>6, <2>8, TypePartsAfter
<1> QED
  BY <1>4, <1>5

LEMMA RereadFailsKeeps ==
    ASSUME ProtectionInv, RereadFails
    PROVE  ProtectionInv'
<1> USE DEF ProtectionInv, RereadFails, deviceVars, objectVars, guardVars, callVars, factVars
<1>1. Types /\ IsGuard(guard) /\ IsGuard(saved)
  BY TypeParts
<1>2. reread' \in RereadTypes /\ reread'.phase = "idle"
  BY NoRereadType DEF NoReread
<1>3. Types'
  BY <1>1, <1>2 DEF Types
<1>4. UndisturbedRead' /\ TrustInv'
  BY <1>2 DEF UndisturbedRead, TrustInv, Protects
<1>5. CacheInv'
  BY SameCache DEF Reading
<1> QED
  BY <1>1, <1>3, <1>4, <1>5, SameStages, SameObjects, TypePartsAfter

LEMMA RereadKeeps ==
    ASSUME ProtectionInv, Reread
    PROVE  ProtectionInv'
  BY PressKeeps, RereadContinuesKeeps, RereadEndsKeeps, RereadFailsKeeps DEF Reread

--------------------------------------------------------------------------------
(* Device lists                                                             *)

\* A list is dropped because it repeats a protected value, or what it shows is
\* current.
LEMMA ListKeepsProtection ==
    ASSUME ProtectionInv, NEW v \in Values, trusted => v = cache, ApplyListed(v),
           UNCHANGED <<stored, cache, callVars, reread>>, refresh' \in {refresh, None}
    PROVE  ProtectionInv'
<1> USE DEF ProtectionInv, ApplyListed, callVars
<1>1. Types /\ IsGuard(guard) /\ IsGuard(saved) /\ v # None
  BY TypeParts, SettingAssumption
<1>2. trusted' \in BOOLEAN /\ dropped' \in BOOLEAN
  OBVIOUS
<1>3. OneWriter' /\ UndisturbedRead'
  BY SameStages, SameReread
<1>4. Reading' = Reading
  BY DEF Reading
<1>5. CASE Repeats(v) /\ UNCHANGED <<shown, guard>>
  <2>1. ~Agreed(v) /\ trusted' = trusted /\ dropped' = dropped
    BY <1>1, <1>5 DEF Agreed, Types
  <2>2. Types'
    BY <1>1, <1>2, <1>5 DEF Types, Readings
  <2>3. TrustInv' /\ CacheInv'
    BY <1>4, <1>5, <2>1 DEF TrustInv, Protects, CacheInv, Older
  <2> QED
    BY <1>1, <1>3, <1>5, <2>2, <2>3, SameObjects, TypePartsAfter
<1>6. CASE ~Repeats(v) /\ shown' = [shown EXCEPT ![object] = v] /\ guard' = NoGuard
  <2>1. /\ shown' \in [Objects -> Readings] /\ shown'[object] = v
        /\ \A o \in Objects \ {object} : shown'[o] = shown[o]
    BY <1>1, <1>6 DEF Types, Readings
  <2>2. Types'
    BY <1>1, <1>2, <2>1 DEF Types, Readings
  <2>3. ObjectInv'
    BY <1>1, <2>1 DEF ObjectInv, Types, Objects
  <2>4. IsGuard(guard') /\ guard'.stale = <<>>
    BY <1>6, NoGuardIsGuard
  <2>5. TrustInv'
    <3>1. CASE trusted
      BY <2>4, <3>1 DEF TrustInv, Protects
    <3>2. CASE Agreed(v)
      BY <2>4, <3>2 DEF TrustInv, Protects, Agreed
    <3>3. CASE ~trusted /\ ~Agreed(v)
      BY <1>1, <3>3 DEF TrustInv
    <3> QED
      BY <3>1, <3>2, <3>3
  <2>6. CacheInv'
    <3>1. CASE Agreed(v)
      BY <1>4, <2>1, <3>1 DEF CacheInv, Agreed
    <3>2. CASE ~Agreed(v)
      <4> SUFFICES ASSUME trusted', ~dropped'
                   PROVE  cache = v /\ (Reading \/ cache = stored)
        BY <1>4, <2>1 DEF CacheInv
      <4>1. trusted /\ ~dropped /\ v = cache
        BY <1>1, <3>2 DEF Types
      <4>2. cache \notin Older
        BY <1>1, <1>6, <4>1, OlderRepeats DEF TrustInv
      <4> QED
        BY <4>1, <4>2 DEF CacheInv
    <3> QED
      BY <3>1, <3>2
  <2> QED
    BY <1>1, <1>3, <2>2, <2>3, <2>4, <2>5, <2>6, TypePartsAfter
<1> QED
  BY <1>5, <1>6

LEMMA StreamListKeeps ==
    ASSUME ProtectionInv, StreamList
    PROVE  ProtectionInv'
<1> USE DEF StreamList, deviceVars
<1>1. CASE ApplyListed(cache)
  <2>1. cache \in Values
    BY TypeParts DEF ProtectionInv, Types
  <2> QED
    BY <1>1, <2>1, ListKeepsProtection
<1>2. CASE known' = TRUE /\ UNCHANGED <<object, shown, guardVars, factVars>>
  <2> USE <1>2 DEF ProtectionInv, callVars, guardVars, factVars
  <2>1. Types /\ IsGuard(guard) /\ IsGuard(saved)
    BY TypeParts
  <2>2. Types'
    BY <2>1 DEF Types
  <2>3. TrustInv' /\ CacheInv'
    BY SameTrust, SameCache DEF Reading
  <2> QED
    BY <2>1, <2>2, <2>3, SameStages, SameObjects, SameReread, TypePartsAfter
<1> QED
  BY <1>1, <1>2

LEMMA RefreshTickKeeps ==
    ASSUME ProtectionInv, RefreshTick
    PROVE  ProtectionInv'
<1> USE DEF ProtectionInv, RefreshTick, deviceVars, objectVars, guardVars, callVars, factVars
<1>1. Types /\ IsGuard(guard) /\ IsGuard(saved)
  BY TypeParts
<1>2. Types'
  BY <1>1 DEF Types, Readings
<1>3. TrustInv' /\ CacheInv'
  BY SameCache DEF TrustInv, Protects, Reading
<1> QED
  BY <1>1, <1>2, <1>3, SameStages, SameObjects, SameReread, TypePartsAfter

LEMMA RefreshAppliedKeeps ==
    ASSUME ProtectionInv, RefreshApplied
    PROVE  ProtectionInv'
<1>1. refresh \in Values /\ (trusted => refresh = cache)
  BY TypeParts DEF ProtectionInv, Types, Readings, RefreshApplied, TrustInv
<1> QED
  BY <1>1, ListKeepsProtection DEF RefreshApplied, deviceVars

LEMMA RefreshFailsKeeps ==
    ASSUME ProtectionInv, RefreshFails
    PROVE  ProtectionInv'
<1> USE DEF ProtectionInv, RefreshFails, deviceVars, objectVars, guardVars, callVars, factVars
<1>1. Types /\ IsGuard(guard) /\ IsGuard(saved)
  BY TypeParts
<1>2. Types'
  BY <1>1 DEF Types, Readings
<1>3. TrustInv' /\ CacheInv'
  BY SameCache DEF TrustInv, Protects, Reading
<1> QED
  BY <1>1, <1>2, <1>3, SameStages, SameObjects, SameReread, TypePartsAfter

LEMMA ListKeeps ==
    ASSUME ProtectionInv, List
    PROVE  ProtectionInv'
  BY StreamListKeeps, RefreshTickKeeps, RefreshAppliedKeeps, RefreshFailsKeeps DEF List

--------------------------------------------------------------------------------
(* Time, removal, restart, and the device                                   *)

LEMMA RunningIsGuard == IsGuard(guard) => IsGuard(Running)
  BY NoGuardIsGuard DEF Running

LEMMA DelayedSaveKeeps ==
    ASSUME ProtectionInv, DelayedSave
    PROVE  ProtectionInv'
<1> USE DEF ProtectionInv, DelayedSave, deviceVars, objectVars, callVars, factVars
<1>1. Types /\ IsGuard(guard) /\ IsGuard(saved')
  BY TypeParts, RunningIsGuard
<1>2. Types'
  BY <1>1 DEF Types
<1>3. TrustInv' /\ CacheInv'
  BY SameTrust, SameCache DEF Reading
<1> QED
  BY <1>1, <1>2, <1>3, SameStages, SameObjects, SameReread, TypePartsAfter

LEMMA ExpireKeeps ==
    ASSUME ProtectionInv, Expire
    PROVE  ProtectionInv'
<1> USE DEF ProtectionInv, Expire, deviceVars, objectVars, callVars
<1>1. Types /\ IsGuard(guard)
  BY TypeParts
<1>2. /\ guard'.stale = guard.stale
      /\ IsGuard(guard') /\ IsGuard(saved')
  BY <1>1, NoGuardIsGuard DEF IsGuard, Guards
<1>3. Types'
  BY <1>1 DEF Types
<1>4. TrustInv'
  BY <1>2 DEF TrustInv, Protects
<1>5. CacheInv'
  BY <1>2 DEF CacheInv, Older, Reading
<1> QED
  BY <1>2, <1>3, <1>4, <1>5, SameStages, SameObjects, SameReread, TypePartsAfter

\* Who holds the removed object can only write the earlier one.
LEMMA ForgetKeeps ==
    ASSUME ProtectionInv, Forget
    PROVE  ProtectionInv'
<1> USE DEF ProtectionInv, Forget, deviceVars
<1>1. Types /\ IsGuard(guard) /\ IsGuard(saved)
  BY TypeParts
<1>2. reread' \in RereadTypes /\ reread'.phase = "idle"
  BY NoRereadType DEF NoReread
<1>3. object \in Int /\ object' \in Objects /\ object' > object
  BY <1>1, SettingAssumption DEF Types, Objects
<1>4. shown' \in [Objects -> Readings] /\ \A o \in Objects : shown'[o] \in {shown[o], None}
  BY <1>1 DEF Types, Readings
<1>5. cut' \subseteq Calls
  OBVIOUS
<1>6. Types'
  BY <1>1, <1>2, <1>3, <1>4, <1>5 DEF Types
<1>7. shown'[object'] = None
  BY <1>1, <1>3, <1>4 DEF ObjectInv, Types
<1>8. ObjectInv'
  <2>1. \A w \in Writers : objectOf[w] < object'
    BY <1>1, <1>3 DEF ObjectInv, Types, Objects, Calls
  <2>2. \A o \in Objects : o > object' => shown'[o] = None
    BY <1>1, <1>3, <1>4 DEF ObjectInv, Types, Objects
  <2> QED
    BY <1>1, <1>3, <2>1, <2>2 DEF ObjectInv, Types, Objects, Calls
<1>9. IsGuard(guard') /\ guard'.stale = <<>>
  BY NoGuardIsGuard
<1>10. UndisturbedRead' /\ TrustInv'
  BY <1>2, <1>9 DEF UndisturbedRead, TrustInv, Protects
<1>11. Reading' = Reading
  BY DEF Reading
<1>12. CacheInv'
  <2>1. ~Protects => Older = {}
    BY <1>1, OlderRepeats
  <2> QED
    BY <1>7, <1>11, <2>1 DEF CacheInv
<1> QED
  BY <1>1, <1>6, <1>8, <1>9, <1>10, <1>12, SameStages, TypePartsAfter

LEMMA RestartKeeps ==
    ASSUME ProtectionInv, Restart
    PROVE  ProtectionInv'
<1> USE DEF ProtectionInv, Restart
<1>1. Types /\ IsGuard(guard) /\ IsGuard(saved)
  BY TypeParts
<1>2. IsGuard(saved') /\ IsGuard(guard')
  BY <1>1, RunningIsGuard, NoGuardIsGuard
<1>3. reread' \in RereadTypes /\ reread'.phase = "idle"
  BY NoRereadType DEF NoReread
<1>4. stored' \in Values
  BY <1>1 DEF Types
<1>5. /\ shown' \in [Objects -> Readings] /\ objectOf' \in [Calls -> Objects]
      /\ \A o \in Objects : shown'[o] = None
  BY SettingAssumption DEF Readings, Objects
<1>6. stage' \in [Calls -> {"idle", "waiting", "writing", "reading"}] /\ \A c \in Calls : ~Busy(c)'
  BY DEF Busy
<1>7. Types'
  <2>1. trusted' \in BOOLEAN
    OBVIOUS
  <2> QED
    BY <1>1, <1>3, <1>4, <1>5, <1>6, <2>1 DEF Types, Readings
<1>8. OneWriter' /\ UndisturbedRead'
  BY <1>3, <1>6 DEF OneWriter, UndisturbedRead, Calls
<1>9. ObjectInv'
  BY <1>1, <1>5, SettingAssumption DEF ObjectInv, Calls, Types, Objects
<1>10. trusted' => trusted /\ guard' = guard /\ stored' = stored /\ ~Reading
  BY DEF Reading
<1>11. TrustInv'
  BY <1>3, <1>10 DEF TrustInv, Protects
<1>12. ~Reading'
  BY DEF Reading, Calls
<1>13. CacheInv'
  BY <1>1, <1>5, <1>10, <1>12 DEF CacheInv, Older, Types
<1> QED
  BY <1>2, <1>7, <1>8, <1>9, <1>11, <1>13, TypePartsAfter

LEMMA ChangedElsewhereKeeps ==
    ASSUME ProtectionInv, ChangedElsewhere
    PROVE  ProtectionInv'
<1> USE DEF ProtectionInv, ChangedElsewhere, objectVars, guardVars, callVars
<1>1. Types /\ IsGuard(guard) /\ IsGuard(saved)
  BY TypeParts
<1>2. Types'
  BY <1>1 DEF Types
<1>3. TrustInv' /\ CacheInv'
  BY DEF TrustInv, CacheInv
<1> QED
  BY <1>1, <1>2, <1>3, SameStages, SameObjects, SameReread, TypePartsAfter

LEMMA CacheRefreshKeeps ==
    ASSUME ProtectionInv, CacheRefresh
    PROVE  ProtectionInv'
<1> USE DEF ProtectionInv, CacheRefresh, objectVars, guardVars, callVars
<1>1. Types /\ IsGuard(guard) /\ IsGuard(saved)
  BY TypeParts
<1>2. trusted' \in BOOLEAN
  OBVIOUS
<1>3. Types'
  BY <1>1, <1>2 DEF Types
<1>4. TrustInv'
  BY DEF TrustInv, Protects
<1>5. CacheInv'
  BY DEF CacheInv, Reading, Older
<1> QED
  BY <1>1, <1>3, <1>4, <1>5, SameStages, SameObjects, SameReread, TypePartsAfter

LEMMA AroundKeeps ==
    ASSUME ProtectionInv, Around
    PROVE  ProtectionInv'
  BY DelayedSaveKeeps, ExpireKeeps, ForgetKeeps, RestartKeeps, ChangedElsewhereKeeps,
     CacheRefreshKeeps DEF Around

LEMMA SameKeepsAll ==
    ASSUME ProtectionInv, UNCHANGED vars
    PROVE  ProtectionInv'
<1> USE DEF ProtectionInv, vars, deviceVars, objectVars, guardVars, callVars, factVars
<1>1. TypeOK'
  BY DEF TypeOK
<1>2. TrustInv' /\ CacheInv'
  BY SameTrust, SameCache DEF Reading
<1> QED
  BY <1>1, <1>2, SameStages, SameObjects, SameReread

--------------------------------------------------------------------------------

LEMMA ProtectionStep == ProtectionInv /\ [Next]_vars => ProtectionInv'
  BY WriteKeeps, RereadKeeps, ListKeeps, AroundKeeps, SameKeepsAll DEF Next

LEMMA ProtectionHolds == Spec => []ProtectionInv
  BY ProtectionInit, ProtectionStep, PTL DEF Spec

\* The variables have their types, for any values, writers and removals; among
\* them, a protection has each older value once, and never the written one.
THEOREM SettingTypes == Spec => []TypeOK
<1>1. ProtectionInv => TypeOK
  BY DEF ProtectionInv
<1> QED
  BY <1>1, ProtectionHolds, PTL

\* While only confirmed writes change the setting, no device list brings an
\* older value back (_guard_confirmed_setting, _without_stale_settings).
THEOREM OldValuesStayOut == Spec => []OldValueStaysOut
<1>1. ProtectionInv => OldValueStaysOut
  BY DEF ProtectionInv, CacheInv, Reading, OldValueStaysOut
<1> QED
  BY <1>1, ProtectionHolds, PTL
================================================================================
