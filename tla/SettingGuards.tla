----------------------------- MODULE SettingGuards -----------------------------
(***************************************************************************)
(* One setting of one device: how it is written and read back, how a       *)
(* confirmed value is protected against the gateway's cached copy in the   *)
(* device lists, how that protection survives a restart of Home Assistant, *)
(* and how the stored settings are read on request (coordinator.py).       *)
(*                                                                         *)
(* A step is the code between two awaits.  A request takes effect at the   *)
(* device when it ends: only one is on the radio at a time (RadioQueue).   *)
(* A removed device that is listed again is a new object; who waited for   *)
(* the setting lock meanwhile still holds the old one.                     *)
(***************************************************************************)
EXTENDS Integers, Sequences

CONSTANTS Values,       \* the values of the setting, as _same_setting compares them
          None,         \* no reading
          Writers,      \* calls of _async_write_setting, by entities
          Actions,      \* calls of async_set_device_configuration, by the action
          MaxStale,     \* _SETTING_GUARD_STALE_VALUES
          MaxRemovals   \* bound: how often the user removes the device

Calls == Writers \cup Actions

ASSUME SettingAssumption ==
    /\ None \notin Values
    /\ Writers \cap Actions = {}
    /\ MaxStale \in Nat \ {0}
    /\ MaxRemovals \in Nat

VARIABLES
    stored,     \* the value the device holds
    cache,      \* the gateway's copy of it, which device lists carry
    known,      \* the device is in devices
    object,     \* which object stands for it, or will when it is listed
    shown,      \* setting_reading of each object
    guard,      \* _setting_guards of the setting
    saved,      \* what the store gives back after a restart
    stage,      \* where each call is
    objectOf,   \* the object a call of an entity works on
    cut,        \* calls whose request the removal of the device has cancelled
    reread,     \* async_reread_device_settings
    refresh,    \* the answer to the periodic GET /devices, while it is on its way
    trusted,    \* history: all changes since HA, gateway and device agreed were
                \*   writes confirmed here, and their protection was not ended
    dropped     \* history: a guard had more older values than it keeps

deviceVars  == <<stored, cache>>
objectVars  == <<known, object, shown>>
guardVars   == <<guard, saved>>
callVars    == <<stage, objectOf, cut>>
factVars    == <<trusted, dropped>>
vars == <<deviceVars, objectVars, guardVars, callVars, reread, refresh, factVars>>

Objects  == 0..MaxRemovals
Readings == Values \cup {None}

\* No entry in _setting_guards.
NoGuard  == [stale |-> <<>>, written |-> None, live |-> FALSE]
Protects == guard.stale # <<>>

NoReread == [phase |-> "idle", value |-> None, overlapped |-> FALSE, older |-> FALSE]

\* live: not older than SETTING_CACHE_GUARD_SECONDS.
Guards == [stale : Seq(Values), written : Readings, live : BOOLEAN]

EachOnce(s) == \A i, j \in DOMAIN s : s[i] = s[j] => i = j

TypeOK ==
    /\ stored \in Values /\ cache \in Values
    /\ known \in BOOLEAN
    /\ object \in Objects
    /\ shown \in [Objects -> Readings]
    /\ guard \in Guards /\ saved \in Guards
    /\ \A g \in {guard, saved} : Len(g.stale) <= MaxStale /\ EachOnce(<<g.written>> \o g.stale)
    /\ stage \in [Calls -> {"idle", "waiting", "writing", "reading"}]
    /\ objectOf \in [Calls -> Objects]
    /\ cut \subseteq Calls
    \* overlapped: _setting_writes moved since it started.
    \* older (history): a write reached the device after its value was read.
    /\ reread \in [phase : {"idle", "first", "second"}, value : Readings,
                   overlapped : BOOLEAN, older : BOOLEAN]
    /\ refresh \in Readings
    /\ trusted \in BOOLEAN /\ dropped \in BOOLEAN

Init ==
    /\ stored \in Values
    /\ cache \in Values
    /\ known = FALSE
    /\ object = 0
    /\ shown = [o \in Objects |-> None]
    /\ guard = NoGuard
    /\ saved = NoGuard
    /\ stage = [c \in Calls |-> "idle"]
    /\ objectOf = [c \in Calls |-> 0]
    /\ cut = {}
    /\ reread = NoReread
    /\ refresh = None
    /\ trusted = (stored = cache)
    /\ dropped = FALSE

--------------------------------------------------------------------------------
(* The protection of a confirmed setting                                    *)

\* Variation: the written value is not taken out.
StaleWithWritten(previous, older, written) ==
    IF previous = None THEN older ELSE <<previous>> \o older

\* Variation: only the value shown before the write is kept.
StaleForgetful(previous, older, written) ==
    IF previous \in {None, written} THEN <<>> ELSE <<previous>>

\* A sequence that has each value once, without one of them.
Without(s, v) ==
    IF \A i \in DOMAIN s : s[i] # v THEN s
    ELSE LET at == CHOOSE i \in DOMAIN s : s[i] = v
         IN  [i \in 1..(Len(s) - 1) |-> s[IF i < at THEN i ELSE i + 1]]

\* _guard_confirmed_setting: the older values, newest first, each once.
Stale(previous, older, written) ==
    Without(IF previous = None THEN older ELSE <<previous>> \o Without(older, previous),
            written)

\* _SETTING_GUARD_STALE_VALUES
Kept(stale) == SubSeq(stale, 1, IF Len(stale) < MaxStale THEN Len(stale) ELSE MaxStale)

GuardAfter(stale, written) ==
    IF stale = <<>> THEN NoGuard
    ELSE [stale |-> Kept(stale), written |-> written, live |-> TRUE]

\* Variation: the protection has no end.
RepeatsForever(v) ==
    /\ v # guard.written
    /\ \E i \in DOMAIN guard.stale : guard.stale[i] = v

\* _without_stale_settings: the list repeats a value from before a write.
Repeats(v) ==
    /\ guard.live
    /\ v # guard.written
    /\ \E i \in DOMAIN guard.stale : guard.stale[i] = v

\* Home Assistant, the gateway's copy, the device and the answers that are on
\* their way agree.
Agreed(v) ==
    /\ ~Repeats(v)
    /\ v = stored /\ v = cache
    /\ refresh # None => refresh = v
    /\ reread.phase = "second" => reread.value = v

\* _apply_device_object: any other value is shown and ends the protection.
ApplyListed(v) ==
    /\ known' = TRUE
    /\ \/ /\ Repeats(v)
          /\ UNCHANGED <<shown, guard>>
       \/ /\ ~Repeats(v)
          /\ shown' = [shown EXCEPT ![object] = v]
          /\ guard' = NoGuard
    /\ trusted' = (trusted \/ Agreed(v))
    /\ dropped' = (dropped /\ ~Agreed(v))
    /\ UNCHANGED <<object, saved>>

--------------------------------------------------------------------------------
(* Writing                                                                  *)

\* Variation: writes are not counted.
Uncounted(read) == read

\* _setting_writes has moved since the settings read started.
Overlapped(read) == [read EXCEPT !.overlapped = read.phase # "idle"]

\* _note_setting_write
NoteWrite == reread' = Overlapped(reread)

\* The request ends, and with it the write step; the device may have got it.
Reaches(changed) ==
    reread' = [Overlapped(reread)
                  EXCEPT !.older = reread.older \/ (reread.phase = "second" /\ changed)]

\* The call returns or raises.
Done(c) == /\ stage' = [stage EXCEPT ![c] = "idle"]
           /\ objectOf' = [objectOf EXCEPT ![c] = 0]
           /\ cut' = cut \ {c}

LockFree == \A w \in Writers : stage[w] \notin {"writing", "reading"}

\* An entity can be written while it has a reading (its available property).
Call(w) ==
    /\ stage[w] = "idle"
    /\ known /\ shown[object] # None
    /\ stage' = [stage EXCEPT ![w] = "waiting"]
    /\ objectOf' = [objectOf EXCEPT ![w] = object]
    /\ UNCHANGED <<deviceVars, objectVars, guardVars, cut, reread, refresh, factVars>>

\* The setting lock is free: the write starts, or is refused (conflicting
\* settings, write access switched off).
Locked(w) ==
    /\ stage[w] = "waiting"
    /\ LockFree
    /\ \/ stage' = [stage EXCEPT ![w] = "writing"] /\ NoteWrite
          /\ UNCHANGED <<objectOf, cut>>
       \/ Done(w) /\ (NoteWrite \/ UNCHANGED reread)
    /\ UNCHANGED <<deviceVars, objectVars, guardVars, refresh, factVars>>

\* The action writes without the lock and without a read-back.
CallAction(a) ==
    /\ stage[a] = "idle"
    /\ known
    /\ stage' = [stage EXCEPT ![a] = "writing"]
    /\ NoteWrite
    /\ UNCHANGED <<deviceVars, objectVars, guardVars, objectOf, cut, refresh, factVars>>

\* Acknowledged: the gateway accepted it; a device may still keep its value.
WriteAnswered(c) ==
    /\ stage[c] = "writing" /\ c \notin cut
    /\ stored' \in Values
    /\ Reaches(stored' # stored)
    /\ \/ /\ c \in Writers
          /\ stage' = [stage EXCEPT ![c] = "reading"]
          /\ UNCHANGED <<objectOf, cut, trusted>>
       \/ /\ c \in Actions
          /\ Done(c)
          /\ trusted' = (trusted /\ stored' = stored)
    /\ UNCHANGED <<cache, objectVars, guardVars, refresh, dropped>>

\* Rejected, timed out, cancelled: the device may have got it all the same.
WriteFails(c) ==
    /\ stage[c] = "writing"
    /\ stored' \in Values
    /\ Reaches(stored' # stored)
    /\ Done(c)
    /\ trusted' = (trusted /\ stored' = stored)
    /\ UNCHANGED <<cache, objectVars, guardVars, refresh, dropped>>

\* The read-back: what the device holds is shown and protected.
ReadBack(w) ==
    /\ stage[w] = "reading" /\ w \notin cut
    /\ LET o     == objectOf[w]
           stale == Stale(shown[o], guard.stale, stored) IN
          /\ shown' = [shown EXCEPT ![o] = stored]
          /\ guard' = GuardAfter(stale, stored)
          /\ trusted' = (trusted /\ o = object)
          /\ dropped' = (dropped \/ Len(stale) > MaxStale)
    /\ NoteWrite
    /\ Done(w)
    /\ UNCHANGED <<deviceVars, known, object, saved, refresh>>

ReadBackFails(w) ==
    /\ stage[w] = "reading"
    /\ NoteWrite
    /\ Done(w)
    /\ trusted' = (trusted /\ shown[object] = stored)
    /\ UNCHANGED <<deviceVars, objectVars, guardVars, refresh, dropped>>

--------------------------------------------------------------------------------
(* Reading the stored settings on request                                   *)

\* A press while the device is read is ignored.
Press ==
    /\ known /\ reread.phase = "idle"
    /\ reread' = [NoReread EXCEPT !.phase = "first"]
    /\ UNCHANGED <<deviceVars, objectVars, guardVars, callVars, refresh, factVars>>

\* The settings arrive; the repeater mode is read next.  A request that was
\* under way at the press has ended by then: requests of one priority are
\* served in their order (RadioQueue).  One that began since has overlapped.
RereadContinues ==
    /\ reread.phase = "first"
    /\ reread.overlapped \/ \A c \in Calls : stage[c] \notin {"writing", "reading"}
    /\ reread' = [reread EXCEPT !.phase = "second", !.value = stored]
    /\ UNCHANGED <<deviceVars, objectVars, guardVars, callVars, refresh, factVars>>

\* What was read is shown and ends the protection, unless a write overlapped.
RereadEnds ==
    /\ reread.phase = "second"
    /\ reread' = NoReread
    /\ \/ /\ reread.overlapped
          /\ UNCHANGED <<shown, guard, trusted>>
       \/ /\ ~reread.overlapped
          /\ shown' = [shown EXCEPT ![object] = reread.value]
          /\ guard' = NoGuard
          /\ trusted' = (trusted /\ ~Protects)
    /\ UNCHANGED <<deviceVars, known, object, saved, callVars, refresh, dropped>>

RereadFails ==
    /\ reread.phase = "first"
    /\ reread' = NoReread
    /\ UNCHANGED <<deviceVars, objectVars, guardVars, callVars, refresh, factVars>>

--------------------------------------------------------------------------------
(* Device lists                                                             *)

\* A list of the stream, or a single changed device; with the setting or, as
\* the gateways do whose stream lists carry no configuration, without it.
StreamList ==
    /\ \/ ApplyListed(cache)
       \/ known' = TRUE /\ UNCHANGED <<object, shown, guardVars, factVars>>
    /\ UNCHANGED <<deviceVars, callVars, reread, refresh>>

\* GET /devices: the gateway answers with its copy.
RefreshTick ==
    /\ refresh = None
    /\ refresh' = cache
    /\ UNCHANGED <<deviceVars, objectVars, guardVars, callVars, reread, factVars>>

RefreshApplied ==
    /\ refresh # None
    /\ ApplyListed(refresh)
    /\ refresh' = None
    /\ UNCHANGED <<deviceVars, callVars, reread>>

RefreshFails ==
    /\ refresh # None
    /\ refresh' = None
    /\ UNCHANGED <<deviceVars, objectVars, guardVars, callVars, reread, factVars>>

--------------------------------------------------------------------------------
(* Time, removal and restart                                                *)

\* What loading the saved protection gives: nothing that has run out.
Running == IF guard.live THEN guard ELSE NoGuard

\* SETTING_GUARD_SAVE_DELAY has passed.
DelayedSave ==
    /\ saved # Running
    /\ saved' = Running
    /\ UNCHANGED <<deviceVars, objectVars, guard, callVars, reread, refresh, factVars>>

\* SETTING_CACHE_GUARD_SECONDS have passed since the write.
Expire ==
    /\ guard.live \/ saved.live
    /\ guard' = [guard EXCEPT !.live = FALSE]
    /\ saved' = NoGuard
    /\ trusted' = (trusted /\ ~Protects)
    /\ UNCHANGED <<deviceVars, objectVars, callVars, reread, refresh, dropped>>

\* async_forget_device.
Forget ==
    /\ known
    /\ object < MaxRemovals
    /\ known' = FALSE
    /\ object' = object + 1
    /\ guard' = NoGuard
    /\ cut' = {c \in Calls : stage[c] \in {"writing", "reading"}}
    /\ reread' = NoReread
    /\ shown' = IF \E w \in Writers : stage[w] # "idle" THEN shown
                ELSE [shown EXCEPT ![object] = None]     \* nobody holds it any more
    /\ trusted' = (trusted /\ ~Protects)
    /\ UNCHANGED <<deviceVars, saved, stage, objectOf, refresh, dropped>>

\* Home Assistant restarts or reloads the entry, or it crashes with something
\* unsaved, or the store cannot be read.  A write under way may still arrive.
Restart ==
    /\ saved' \in {Running, saved}
    /\ guard' \in {saved', NoGuard}
    /\ stored' \in IF \E c \in Calls : stage[c] = "writing" THEN Values ELSE {stored}
    /\ known' = FALSE
    /\ shown' = [o \in Objects |-> None]
    /\ stage' = [c \in Calls |-> "idle"]
    /\ objectOf' = [c \in Calls |-> 0]
    /\ cut' = {}
    /\ reread' = NoReread
    /\ refresh' = None
    /\ trusted' = (trusted /\ guard' = guard /\ stored' = stored
                      /\ \A w \in Writers : stage[w] # "reading")
    /\ UNCHANGED <<cache, object, dropped>>

--------------------------------------------------------------------------------
(* The device and the gateway                                               *)

\* The setting is changed elsewhere: through the gateway or at the device.
ChangedElsewhere ==
    /\ stored' \in Values \ {stored}
    /\ cache' \in {cache, stored'}
    /\ trusted' = FALSE
    /\ UNCHANGED <<objectVars, guardVars, callVars, reread, refresh, dropped>>

\* The gateway reads the device.  An answer that is on its way is then older
\* than its copy.
CacheRefresh ==
    /\ cache # stored
    /\ cache' = stored
    /\ trusted' = (trusted /\ refresh \in {stored, None})
    /\ UNCHANGED <<stored, objectVars, guardVars, callVars, reread, refresh, dropped>>

--------------------------------------------------------------------------------
Write  == \/ \E w \in Writers : Call(w) \/ Locked(w) \/ ReadBack(w) \/ ReadBackFails(w)
          \/ \E a \in Actions : CallAction(a)
          \/ \E c \in Calls : WriteAnswered(c) \/ WriteFails(c)
Reread == Press \/ RereadContinues \/ RereadEnds \/ RereadFails
List   == StreamList \/ RefreshTick \/ RefreshApplied \/ RefreshFails
Around == DelayedSave \/ Expire \/ Forget \/ Restart \/ ChangedElsewhere \/ CacheRefresh

Next == Write \/ Reread \/ List \/ Around

\* Timers elapse, a gateway that is asked again and again answers once.
Fairness == WF_vars(RefreshTick) /\ SF_vars(RefreshApplied) /\ WF_vars(Expire)

Spec == Init /\ [][Next]_vars

FairSpec == Spec /\ Fairness

--------------------------------------------------------------------------------
(* Properties                                                               *)

\* While only confirmed writes change the setting, no device list brings back
\* a value from before one of them, through any order of writes, lists,
\* refreshes of the gateway's copy, removals and restarts
\* (_guard_confirmed_setting, _without_stale_settings, the store).
OldValueStaysOut ==
    trusted /\ ~dropped /\ (\A w \in Writers : stage[w] # "reading")
        => shown[object] \in {stored, None}

\* A settings read never replaces what a write did after it was read
\* (_setting_writes).
RereadIsNotOlder ==
    [][reread.phase = "second" /\ reread.older /\ reread'.phase = "idle" /\ known'
          => UNCHANGED shown]_vars

\* The protection does not shut out the truth: once the device and the
\* gateway's copy rest on one value, it is shown in the end, also if it is
\* one that a write replaced and that was set again elsewhere.
SettledIsShown ==
    \A v \in Values : <>[](stored = v /\ cache = v /\ known) => <>[](shown[object] = v)

\* What _guard_confirmed_setting says of several changes in a row: they do not
\* let the oldest cached value return.
OldestValueStaysOut ==
    trusted /\ (\A w \in Writers : stage[w] # "reading")
        => shown[object] \in {stored, None}
================================================================================
