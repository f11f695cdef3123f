------------------------------ MODULE Settings ------------------------------
(***************************************************************************)
(* Settings that administrators edit at run time: the table app_settings,    *)
(* the cache of app/services/settings_store.py in the one web process, the    *)
(* handlers that save (app/routers/admin.py), the readers, and the seeding    *)
(* when the process starts (bootstrap.py).                                  *)
(*                                                                         *)
(* A handler saves, drops the cache entry, and its transaction commits when   *)
(* the request ends; a reader that misses the cache waits for the database    *)
(* before it fills it.  Requests interleave at these waits.  An expired entry *)
(* is an absent one.                                                        *)
(***************************************************************************)
EXTENDS Integers

CONSTANTS
    Requests,  \* bound: requests in progress
    Values,    \* what a setting can hold
    Seed,      \* the value seeded
    TTL        \* _TTL, in ticks

ASSUME SettingsAssumption ==
    /\ Seed \in Values /\ "none" \notin Values
    /\ TTL \in Nat \ {0}

VARIABLES
    row,      \* the committed value of each setting, "none" before the first start
    cache,    \* _CACHE
    request,  \* what each request is waiting to do
    up        \* the process is running

settingsVars == <<row, cache, request, up>>

Keys == {"ocr_template", "moderation_lists"}

Stored == Values \cup {"none"}

Absent == [value |-> "none", age |-> 0]
Entry == [value : Values, age : 0..(TTL - 1)]

Idle == [does |-> "nothing", key |-> "none", value |-> "none"]
Waiting == [does : {"read", "save"}, key : Keys, value : Values]

SettingsTypeOK ==
    /\ row \in [Keys -> Stored]
    /\ cache \in [Keys -> Entry \cup {Absent}]
    /\ request \in [Requests -> Waiting \cup {Idle}]
    /\ up \in BOOLEAN

SettingsInit ==
    /\ row = [k \in Keys |-> "none"]
    /\ cache = [k \in Keys |-> Absent]
    /\ request = [q \in Requests |-> Idle]
    /\ up = FALSE

-----------------------------------------------------------------------------
(* Reads.                                                                  *)

Cached(value) == [value |-> value, age |-> 0]

\* A miss asks the database; a hit changes nothing.
Miss(q, k) ==
    /\ up /\ request[q] = Idle
    /\ cache[k] = Absent
    /\ request' = [request EXCEPT ![q] = [does |-> "read", key |-> k, value |-> row[k]]]
    /\ UNCHANGED <<row, cache, up>>

\* The entry is filled with what the database answered, however long ago.
Fill(q) ==
    /\ request[q].does = "read"
    /\ cache' = [cache EXCEPT ![request[q].key] = Cached(request[q].value)]
    /\ request' = [request EXCEPT ![q] = Idle]
    /\ UNCHANGED <<row, up>>

LoadLists(q) == Miss(q, "moderation_lists")

OcrTemplate(q) == Miss(q, "ocr_template")

-----------------------------------------------------------------------------
(* Saves.                                                                  *)

\* Mutant: the handler leaves the entry set_setting put in the cache.
LeftInCache(k, v) == [cache EXCEPT ![k] = Cached(v)]

\* set_setting caches the value before the commit, and the handler drops the
\* entry with no wait in between.
Invalidated(k, v) == [cache EXCEPT ![k] = Absent]

\* The upsert holds the row's lock: one save of a key at a time.
SetSetting(q, k, v) ==
    /\ up /\ request[q] = Idle
    /\ \A o \in Requests : ~(request[o].does = "save" /\ request[o].key = k)
    /\ request' = [request EXCEPT ![q] = [does |-> "save", key |-> k, value |-> v]]
    /\ cache' = Invalidated(k, v)
    /\ UNCHANGED <<row, up>>

SaveOcrSettings(q) == \E v \in Values : SetSetting(q, "ocr_template", v)

SaveWordLists(q) == \E v \in Values : SetSetting(q, "moderation_lists", v)

CommitSave(q) ==
    /\ request[q].does = "save"
    /\ row' = [row EXCEPT ![request[q].key] = request[q].value]
    /\ request' = [request EXCEPT ![q] = Idle]
    /\ UNCHANGED <<cache, up>>

RollbackSave(q) ==
    /\ request[q].does = "save"
    /\ request' = [request EXCEPT ![q] = Idle]
    /\ UNCHANGED <<row, cache, up>>

-----------------------------------------------------------------------------
(* Time, and the process.                                                   *)

\* Mutant: an entry lives a tick too long.
AgedLate(e) == IF e.age > TTL - 1 THEN Absent ELSE [e EXCEPT !.age = @ + 1]

Aged(e) == IF e = Absent \/ e.age = TTL - 1 THEN Absent ELSE [e EXCEPT !.age = @ + 1]

Tick ==
    /\ up
    /\ cache' = [k \in Keys |-> Aged(cache[k])]
    /\ UNCHANGED <<row, request, up>>

\* A row that is missing is seeded and cached; one that was edited stays.
StartServer ==
    /\ ~up
    /\ up' = TRUE
    /\ row' = [k \in Keys |-> IF row[k] = "none" THEN Seed ELSE row[k]]
    /\ cache' = [k \in Keys |-> IF row[k] = "none" THEN Cached(Seed) ELSE Absent]
    /\ UNCHANGED request

\* The process ends, with its cache; the database rolls its requests back.
Stop ==
    /\ up
    /\ up' = FALSE
    /\ cache' = [k \in Keys |-> Absent]
    /\ request' = [q \in Requests |-> Idle]
    /\ UNCHANGED row

Step(q) ==
    \/ LoadLists(q) \/ OcrTemplate(q) \/ Fill(q)
    \/ SaveOcrSettings(q) \/ SaveWordLists(q) \/ CommitSave(q) \/ RollbackSave(q)

SettingsNext == StartServer \/ Stop \/ Tick \/ \E q \in Requests : Step(q)

\* Time passes, and the database answers a read.
SettingsFairness == WF_settingsVars(Tick) /\ \A q \in Requests : WF_settingsVars(Fill(q))

SettingsSpec == SettingsInit /\ [][SettingsNext]_settingsVars /\ SettingsFairness

-----------------------------------------------------------------------------
(* What is implemented.                                                    *)

Reads(k) == {q \in Requests : request[q].does = "read" /\ request[q].key = k}

\* What get_setting may return for k: the entry, or else the row, and what the
\* database has already answered to those who wait.
Offered(k) ==
    {IF cache[k] = Absent THEN row[k] ELSE cache[k].value} \cup
    {request[q].value : q \in Reads(k)}

Template == INSTANCE EditableSetting
                WITH Values <- Stored, current <- row["ocr_template"], offered <- Offered("ocr_template")

Lists == INSTANCE EditableSetting
             WITH Values <- Stored, current <- row["moderation_lists"], offered <- Offered("moderation_lists")

\* "Runtime-editable settings" (settings_store): although the cache is dropped
\* before the save commits and may be refilled with the old value at any wait,
\* a value not committed is never read, one that has gone out of use does not
\* come back, and when the edits end all reads come to return the last.
Editable == Template!Spec /\ Lists!Spec
=============================================================================
