------------------------------ MODULE Settings ------------------------------
(***************************************************************************)
(* One setting: the rows that tenants and the server itself store for it,  *)
(* and the cache of resolved values in front of them.  A get that finds no *)
(* entry awaits the tenant's row, then the global one, and caches what it  *)
(* resolved; a write awaits the row and then drops every entry of the key. *)
(* What any number of gets and writes do between each other's awaits.      *)
(***************************************************************************)
EXTENDS Naturals

CONSTANTS
    TnIds,               \* tenants with settings of their own
    Getters,             \* calls of get under way
    SettingValues,
    MaxSettingWrites     \* bound: writes in all

VARIABLES
    wildcard,        \* the key is declared by a namespace, without a default
    rowOf,           \* the stored rows, "unset" for none
    cachedAs,        \* SettingsCache.cache, "unset" for no entry
    getting,         \* the gets that missed the cache
    unsettled,       \* writes between their row and the invalidation
    settingWrites,   \* writes so far
    tainted          \* history: entries put by a get that a whole write overtook

settingVars == <<wildcard, rowOf, cachedAs, getting, unsettled, settingWrites, tainted>>

Everyone == "everyone"               \* TnId(0)
Levels == TnIds \cup {Everyone}
NotGetting == [pc |-> "idle", level |-> Everyone, row |-> "unset", behind |-> FALSE]

SettingsInit ==
    /\ wildcard \in BOOLEAN
    /\ rowOf = [l \in Levels |-> "unset"]
    /\ cachedAs = [l \in Levels |-> "unset"]
    /\ getting = [g \in Getters |-> NotGetting]
    /\ unsettled = [l \in Levels |-> 0] /\ settingWrites = 0 /\ tainted = {}

-----------------------------------------------------------------------------
(* get answers from the tenant's entry, else from the global one.          *)
Source(l) == IF cachedAs[l] # "unset" THEN l ELSE Everyone
Served(l) == cachedAs[Source(l)]
Settled == \A l \in Levels : unsettled[l] = 0

Misses(g, l) ==
    /\ getting[g].pc = "idle" /\ Served(l) = "unset"
    /\ getting' = [getting EXCEPT ![g] =
           [NotGetting EXCEPT !.pc = IF l = Everyone THEN "global" ELSE "own", !.level = l]]
    /\ UNCHANGED <<wildcard, rowOf, cachedAs, unsettled, settingWrites, tainted>>

(* read_setting: the row as it is when the query takes effect.             *)
ReadsOwnRow(g) ==
    /\ getting[g].pc = "own"
    /\ getting' = [getting EXCEPT ![g].pc = "own row", ![g].row = rowOf[getting[g].level]]
    /\ UNCHANGED <<wildcard, rowOf, cachedAs, unsettled, settingWrites, tainted>>

ReadsGlobalRow(g) ==
    /\ getting[g].pc = "global"
    /\ getting' = [getting EXCEPT ![g].pc = "global row", ![g].row = rowOf[Everyone]]
    /\ UNCHANGED <<wildcard, rowOf, cachedAs, unsettled, settingWrites, tainted>>

(* A value read before a write whose invalidation is over stays wrong.     *)
Puts(g, l, v) ==
    /\ cachedAs' = [cachedAs EXCEPT ![l] = v]
    /\ tainted' = IF getting[g].behind /\ Settled THEN tainted \cup {l}
                                                       ELSE tainted \ {l}
    /\ getting' = [getting EXCEPT ![g] = NotGetting]
    /\ UNCHANGED <<wildcard, rowOf, unsettled, settingWrites>>

LacksOwnRow(g) ==
    /\ getting[g].pc = "own row" /\ getting[g].row = "unset"
    /\ getting' = [getting EXCEPT ![g].pc = "global"]
    /\ UNCHANGED <<wildcard, rowOf, cachedAs, unsettled, settingWrites, tainted>>

UsesOwnRow(g) ==
    /\ getting[g].pc = "own row" /\ getting[g].row # "unset"
    /\ Puts(g, getting[g].level, getting[g].row)

(* A global value is cached for everyone, a default for the one who asked. *)
UsesGlobalRow(g) ==
    /\ getting[g].pc = "global row" /\ getting[g].row # "unset"
    /\ Puts(g, Everyone, getting[g].row)

UsesDefault(g) ==
    /\ getting[g].pc = "global row" /\ getting[g].row = "unset" /\ ~wildcard
    /\ Puts(g, getting[g].level, "default")

FindsNothing(g) ==
    /\ getting[g].pc = "global row" /\ getting[g].row = "unset" /\ wildcard
    /\ getting' = [getting EXCEPT ![g] = NotGetting]
    /\ UNCHANGED <<wildcard, rowOf, cachedAs, unsettled, settingWrites, tainted>>

-----------------------------------------------------------------------------
(* update_setting, as called by write_at, clear_at and delete.             *)
StoresValue(l, v) ==
    /\ settingWrites < MaxSettingWrites
    /\ settingWrites' = settingWrites + 1
    /\ unsettled' = [unsettled EXCEPT ![l] = @ + 1]
    /\ rowOf' = [rowOf EXCEPT ![l] = v]
    /\ getting' = [g \in Getters |->
           [getting[g] EXCEPT !.behind = getting[g].pc \notin {"idle", "own"}]]
    /\ UNCHANGED <<wildcard, cachedAs, tainted>>

(* invalidate_key drops the key's entries of all tenants: one of them may  *)
(* have been resolved from the row of another level.                       *)
(* DropsEntry is the faulty variant.                                       *)
DropsEntry(cache, l) == [cache EXCEPT ![l] = "unset"]
InvalidateKey(cache, l) == [k \in Levels |-> "unset"]

Invalidates(l) ==
    /\ unsettled[l] > 0
    /\ unsettled' = [unsettled EXCEPT ![l] = @ - 1]
    /\ cachedAs' = InvalidateKey(cachedAs, l) /\ tainted' = {}
    /\ UNCHANGED <<wildcard, rowOf, getting, settingWrites>>

(* The least recently used entry makes room for another key's.             *)
Evicts(l) ==
    /\ cachedAs[l] # "unset"
    /\ cachedAs' = [cachedAs EXCEPT ![l] = "unset"] /\ tainted' = tainted \ {l}
    /\ UNCHANGED <<wildcard, rowOf, getting, unsettled, settingWrites>>

-----------------------------------------------------------------------------
SettingsNext ==
    \/ \E g \in Getters :
         \/ \E l \in Levels : Misses(g, l)
         \/ ReadsOwnRow(g) \/ ReadsGlobalRow(g) \/ LacksOwnRow(g)
         \/ UsesOwnRow(g) \/ UsesGlobalRow(g) \/ UsesDefault(g) \/ FindsNothing(g)
    \/ \E l \in Levels, v \in SettingValues \cup {"unset"} : StoresValue(l, v)
    \/ \E l \in Levels : Invalidates(l) \/ Evicts(l)

SettingsSpec == SettingsInit /\ [][SettingsNext]_settingVars

-----------------------------------------------------------------------------
SettingsTypeOK ==
    /\ \A l \in Levels : /\ rowOf[l] \in SettingValues \cup {"unset"}
                         /\ cachedAs[l] \in SettingValues \cup {"unset", "default"}
    /\ \A g \in Getters :
         getting[g].pc \in {"idle", "own", "own row", "global", "global row"}
    /\ \A l \in Levels : unsettled[l] <= settingWrites
    /\ tainted \subseteq Levels

(* tenant -> global -> default, over the rows.                             *)
ByRows(l) ==
    IF rowOf[l] # "unset" THEN rowOf[l]
    ELSE IF rowOf[Everyone] # "unset" THEN rowOf[Everyone] ELSE "default"

(* The global entry answers for a tenant whose own row is not cached.      *)
Masked(l) == rowOf[l] # "unset" /\ Source(l) # l

(* Once every write has returned, the cache serves each tenant what its    *)
(* rows resolve to, whichever level was written, in whatever order gets    *)
(* and writes overlapped.  The exceptions are an entry that a get put      *)
(* after a whole write had passed it, and a tenant's own row that the      *)
(* entry of the global one masks.                                          *)
SettingsServed ==
    Settled => \A l \in Levels :
      Served(l) # "unset" /\ Source(l) \notin tainted /\ ~Masked(l)
        => Served(l) = ByRows(l)
=============================================================================
