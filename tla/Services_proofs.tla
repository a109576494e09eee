-------------------------- MODULE Services_proofs ---------------------------
(***************************************************************************)
(* The services of a node that share no variable, each for any number of   *)
(* clients, sessions and steps.                                            *)
(***************************************************************************)
EXTENDS MCServices, FiniteSetTheorems, WellFoundedInduction, TLAPS

(***************************************************************************)
(* RtdbStore: a reported commit stays in the document.                     *)
(***************************************************************************)

(* The places of a transaction that has a guard of the barrier, those in   *)
(* which it has a handle of the file, and those in which it is the writer. *)
Guarded == {"permit", "begin", "write", "commit", "broadcast"}
WithHandle == Guarded \ {"permit"}
Writing == {"write", "commit"}
WriterPlaces == {"idle", "guard"} \cup Guarded
ReaderPlaces == {"idle", "guard", "query", "yield", "live", "ended"}

StoreType ==
    /\ barrierOf \in [holders : SUBSET RtdbActors, queue : Seq(RtdbActors)]
    /\ step \in [RtdbActors -> WriterPlaces \cup ReaderPlaces \cup {"compact"}]
    /\ \A w \in Writers : step[w] \in WriterPlaces
    /\ \A r \in Readers : step[r] \in ReaderPlaces
    /\ written \in [Writers -> Nat] /\ opened \in [Writers -> Nat]
    /\ stored \in Nat /\ commits \in Nat /\ compactions \in Nat

(* The compactor has the barrier alone, and a transaction keeps its guard  *)
(* until it ends, so that no compaction runs or has run since it took its  *)
(* handle.  There is one writer, and what it is about to commit was read   *)
(* from the document as it is.                                             *)
StoreSound ==
    /\ Compactor \in barrierOf.holders => barrierOf.holders = {Compactor}
    /\ step[Compactor] = "compact" => Compactor \in barrierOf.holders
    /\ \A w \in Writers : step[w] \in Guarded => w \in barrierOf.holders
    /\ \A w \in Writers : step[w] \in WithHandle => opened[w] = compactions
    /\ \A v, w \in Writers : step[v] \in Writing /\ step[w] \in Writing => v = w
    /\ \A w \in Writers : step[w] = "commit" => written[w] = stored + 1
    /\ stored = commits

StoreInv == StoreType /\ StoreSound

(* At the start nobody holds the barrier and nothing is written.           *)
LEMMA StoreInit == RtdbInit => StoreInv
  BY RtdbActorsApart
  DEF RtdbInit, StoreInv, StoreType, StoreSound, RtdbActors, Guarded, WithHandle, Writing,
      WriterPlaces, ReaderPlaces

(* Who enters the barrier is at the head of the queue.                     *)
LEMMA EntersType ==
    ASSUME StoreType, NEW a \in RtdbActors, Enters(a)
    PROVE  /\ barrierOf' \in [holders : SUBSET RtdbActors, queue : Seq(RtdbActors)]
           /\ barrierOf'.holders = barrierOf.holders \cup {a}
<1>1. barrierOf.queue \in Seq(RtdbActors) /\ barrierOf.queue # <<>>
  BY DEF StoreType, Enters, MayEnter
<1>2. Tail(barrierOf.queue) \in Seq(RtdbActors)
  BY <1>1
<1> QED BY <1>2 DEF StoreType, Enters

(* An actor that waits joins the end of the barrier.                       *)
LEMMA QueuesType ==
    ASSUME StoreType, NEW a \in RtdbActors, Queues(a)
    PROVE  /\ barrierOf' \in [holders : SUBSET RtdbActors, queue : Seq(RtdbActors)]
           /\ barrierOf'.holders = barrierOf.holders
<1>1. Append(barrierOf.queue, a) \in Seq(RtdbActors)
  BY DEF StoreType
<1> QED BY <1>1 DEF StoreType, Queues

(* An actor that leaves the barrier is no holder any more.                 *)
LEMMA LeavesType ==
    ASSUME StoreType, NEW a \in RtdbActors, Leaves(a)
    PROVE  /\ barrierOf' \in [holders : SUBSET RtdbActors, queue : Seq(RtdbActors)]
           /\ barrierOf'.holders = barrierOf.holders \ {a}
  BY DEF StoreType, Leaves

-----------------------------------------------------------------------------
(* The steps of a transaction.                                             *)
LEMMA WriterStep ==
    ASSUME StoreInv, NEW w \in Writers,
           \/ BeginsTransaction(w) \/ TransactionOpens(w) \/ TakesPermit(w)
           \/ BeginsWrite(w) \/ UpdatesDocument(w) \/ RollsBack(w) \/ CommitsWrite(w)
           \/ BroadcastsChange(w)
    PROVE  StoreInv'
<1> USE RtdbActorsApart DEF StoreInv, Guarded, WithHandle, Writing, WriterPlaces, ReaderPlaces
<1>0. w \in RtdbActors /\ w # Compactor /\ w \notin Readers
      /\ \A v \in Writers : v \in RtdbActors /\ v # Compactor
  BY DEF RtdbActors
<1>1. CASE BeginsTransaction(w)
  <2>1. /\ barrierOf' \in [holders : SUBSET RtdbActors, queue : Seq(RtdbActors)]
        /\ barrierOf'.holders = barrierOf.holders
    BY <1>0, <1>1, QueuesType DEF BeginsTransaction
  <2>2. StoreType'
    BY <1>0, <1>1, <2>1 DEF StoreType, BeginsTransaction, Goes
  <2>3. StoreSound'
    BY <1>0, <1>1, <2>1 DEF StoreType, StoreSound, BeginsTransaction, Goes
  <2> QED BY <2>2, <2>3
<1>2. CASE TransactionOpens(w)
  <2>1. /\ barrierOf' \in [holders : SUBSET RtdbActors, queue : Seq(RtdbActors)]
        /\ barrierOf'.holders = barrierOf.holders \cup {w}
        /\ Compactor \notin barrierOf.holders
    BY <1>0, <1>2, EntersType DEF TransactionOpens, Enters, MayEnter
  <2>2. StoreType'
    BY <1>0, <1>2, <2>1 DEF StoreType, TransactionOpens, Goes
  <2>3. StoreSound'
    BY <1>0, <1>2, <2>1 DEF StoreType, StoreSound, TransactionOpens, Goes
  <2> QED BY <2>2, <2>3
<1>3. CASE TakesPermit(w)
  <2>1. StoreType'
    BY <1>0, <1>3 DEF StoreType, TakesPermit, GuardTravels, Goes
  <2>2. StoreSound'
    BY <1>0, <1>3 DEF StoreType, StoreSound, TakesPermit, GuardTravels, Goes
  <2> QED BY <2>1, <2>2
<1>4. CASE BeginsWrite(w)
  <2>1. StoreType'
    BY <1>0, <1>4 DEF StoreType, BeginsWrite, Goes, txVars
  <2>2. StoreSound'
    BY <1>0, <1>4 DEF StoreType, StoreSound, BeginsWrite, Goes, txVars
  <2> QED BY <2>1, <2>2
<1>5. CASE UpdatesDocument(w)
  <2>1. StoreType'
    BY <1>0, <1>5 DEF StoreType, UpdatesDocument, Goes
  <2>2. StoreSound'
    BY <1>0, <1>5 DEF StoreType, StoreSound, UpdatesDocument, Goes
  <2> QED BY <2>1, <2>2
<1>6. CASE RollsBack(w) \/ BroadcastsChange(w)
  <2>1. /\ step[w] \in Guarded /\ TransactionEnds(w)
        /\ UNCHANGED <<written, opened, stored, commits, compactions>>
    BY <1>6 DEF RollsBack, BroadcastsChange
  <2>2. /\ barrierOf' \in [holders : SUBSET RtdbActors, queue : Seq(RtdbActors)]
        /\ barrierOf'.holders = barrierOf.holders \ {w}
        /\ step' = [step EXCEPT ![w] = "idle"]
    BY <1>0, <2>1, LeavesType DEF TransactionEnds, Goes
  <2>3. StoreType'
    BY <1>0, <2>1, <2>2 DEF StoreType
  <2>4. StoreSound'
    BY <1>0, <2>1, <2>2 DEF StoreType, StoreSound
  <2> QED BY <2>3, <2>4
<1>7. CASE CommitsWrite(w)
  <2>1. /\ w \in barrierOf.holders /\ opened[w] = compactions
        /\ step[Compactor] # "compact" /\ written[w] = stored + 1
    BY <1>0, <1>7 DEF StoreSound, CommitsWrite
  <2>2. stored' = stored + 1 /\ commits' = commits + 1
    BY <1>7, <2>1 DEF CommitsWrite
  <2>3. StoreType'
    BY <1>0, <1>7, <2>2 DEF StoreType, CommitsWrite, Goes
  <2>4. StoreSound'
    BY <1>0, <1>7, <2>2 DEF StoreType, StoreSound, CommitsWrite, Goes
  <2> QED BY <2>3, <2>4
<1> QED BY <1>1, <1>2, <1>3, <1>4, <1>5, <1>6, <1>7

(* The steps of a subscription, which holds no guard between two of them.  *)
LEMMA ReaderStep ==
    ASSUME StoreInv, NEW r \in Readers,
           \/ Subscribes(r) \/ OpensChannel(r) \/ ReadsSnapshot(r) \/ YieldsSnapshot(r)
           \/ ReceivesChange(r) \/ StreamEnds(r) \/ Unsubscribes(r)
    PROVE  StoreInv'
<1> USE RtdbActorsApart DEF StoreInv
<1>0. /\ r \in RtdbActors /\ r # Compactor /\ r \notin Writers
      /\ \A a \in Writers \cup Readers : a \in RtdbActors
      /\ Compactor \in RtdbActors
  BY DEF RtdbActors
<1>1. UNCHANGED <<written, opened, stored, commits, compactions>>
  BY DEF Subscribes, OpensChannel, ReadsSnapshot, YieldsSnapshot, ReceivesChange,
         StreamEnds, Unsubscribes, txVars
<1>2. /\ barrierOf' \in [holders : SUBSET RtdbActors, queue : Seq(RtdbActors)]
      /\ barrierOf'.holders \in {barrierOf.holders, barrierOf.holders \ {r}}
  <2>1. CASE Subscribes(r)
    BY <1>0, <2>1, QueuesType DEF Subscribes
  <2>2. CASE OpensChannel(r)
    <3>1. barrierOf.queue \in Seq(RtdbActors) /\ barrierOf.queue # <<>>
      BY <2>2 DEF StoreType, OpensChannel, MayEnter
    <3>2. Append(Tail(barrierOf.queue), r) \in Seq(RtdbActors)
      BY <1>0, <3>1
    <3> QED BY <2>2, <3>2 DEF StoreType, OpensChannel, DropsGuard
  <2>3. CASE ReadsSnapshot(r)
    <3>1. barrierOf.queue \in Seq(RtdbActors) /\ barrierOf.queue # <<>>
      BY <2>3 DEF StoreType, ReadsSnapshot, MayEnter
    <3>2. Tail(barrierOf.queue) \in Seq(RtdbActors)
      BY <3>1
    <3> QED BY <2>3, <3>2 DEF StoreType, ReadsSnapshot
  <2>4. CASE UNCHANGED barrierOf
    BY <2>4 DEF StoreType
  <2> QED BY <2>1, <2>2, <2>3, <2>4
          DEF YieldsSnapshot, ReceivesChange, StreamEnds, Unsubscribes
<1>3. PICK pc \in ReaderPlaces : step' = [step EXCEPT ![r] = pc] \/ step' = step
  BY DEF Subscribes, OpensChannel, ReadsSnapshot, YieldsSnapshot, ReceivesChange,
         StreamEnds, Unsubscribes, Goes, ReaderPlaces
<1>4. /\ step'[Compactor] = step[Compactor]
      /\ \A w \in Writers : step'[w] = step[w]
  BY <1>0, <1>3 DEF StoreType
<1>5. /\ step' \in [RtdbActors -> WriterPlaces \cup ReaderPlaces \cup {"compact"}]
      /\ \A q \in Readers : step'[q] \in ReaderPlaces
  <2> DEFINE P == WriterPlaces \cup ReaderPlaces \cup {"compact"}
  <2>1. step \in [RtdbActors -> P] /\ pc \in P
    BY DEF StoreType
  <2>2. \A q \in Readers : step[q] \in ReaderPlaces
    BY DEF StoreType
  <2> HIDE DEF P
  <2>3. step' \in [RtdbActors -> P]
    BY <1>0, <1>3, <2>1
  <2>4. ASSUME NEW q \in Readers PROVE step'[q] \in ReaderPlaces
    <3>1. q \in RtdbActors /\ step'[q] \in {step[q], pc}
      BY <1>0, <1>3, <2>1
    <3> QED BY <2>2, <3>1
  <2>5. step' \in [RtdbActors -> P] /\ \A q \in Readers : step'[q] \in ReaderPlaces
    BY <2>3, <2>4
  <2> QED BY <2>5 DEF P
<1>6. StoreType'
  BY <1>0, <1>1, <1>2, <1>4, <1>5 DEF StoreType
<1>7. StoreSound'
  BY <1>0, <1>1, <1>2, <1>4 DEF StoreSound
<1> QED BY <1>6, <1>7

(* The steps of the compaction and the eviction.                           *)
LEMMA CompactionStep ==
    ASSUME StoreInv, CompactionWaits \/ CompactionStarts \/ CompactionEnds \/ EvictsInstance
    PROVE  StoreInv'
<1> USE RtdbActorsApart DEF StoreInv, WriterPlaces, ReaderPlaces
<1>0. /\ Compactor \in RtdbActors
      /\ \A w \in Writers \cup Readers : w \in RtdbActors /\ w # Compactor
  BY DEF RtdbActors
<1>1. CASE CompactionWaits
  <2>1. /\ barrierOf' \in [holders : SUBSET RtdbActors, queue : Seq(RtdbActors)]
        /\ barrierOf'.holders = barrierOf.holders
    BY <1>0, <1>1, QueuesType DEF CompactionWaits
  <2>2. StoreType'
    BY <1>0, <1>1, <2>1 DEF StoreType, CompactionWaits, Goes, txVars
  <2>3. StoreSound'
    BY <1>0, <1>1, <2>1 DEF StoreType, StoreSound, CompactionWaits, Goes, txVars
  <2> QED BY <2>2, <2>3
<1>2. CASE CompactionStarts
  <2>1. /\ barrierOf' \in [holders : SUBSET RtdbActors, queue : Seq(RtdbActors)]
        /\ barrierOf'.holders = {Compactor} /\ barrierOf.holders = {}
    BY <1>0, <1>2, EntersType DEF CompactionStarts, Enters, MayEnter
  <2>2. StoreType'
    BY <1>0, <1>2, <2>1 DEF StoreType, CompactionStarts, Goes, txVars
  <2>3. StoreSound'
    BY <1>0, <1>2, <2>1 DEF StoreType, StoreSound, CompactionStarts, Goes, txVars
  <2> QED BY <2>2, <2>3
<1>3. CASE CompactionEnds
  <2>1. /\ barrierOf' \in [holders : SUBSET RtdbActors, queue : Seq(RtdbActors)]
        /\ barrierOf'.holders = {} /\ barrierOf.holders = {Compactor}
    BY <1>0, <1>3, LeavesType DEF CompactionEnds, StoreSound
  <2>2. \A w \in Writers : step[w] \notin Guarded
    BY <1>0, <2>1 DEF StoreSound
  <2>3. StoreType'
    BY <1>0, <1>3, <2>1 DEF StoreType, CompactionEnds, Goes, txVars
  <2>4. StoreSound'
    BY <1>0, <1>3, <2>1, <2>2
    DEF StoreType, StoreSound, CompactionEnds, Goes, txVars, WithHandle, Guarded, Writing
  <2> QED BY <2>3, <2>4
<1>4. CASE EvictsInstance
  BY <1>4 DEF StoreType, StoreSound, EvictsInstance, txVars
<1> QED BY <1>1, <1>2, <1>3, <1>4

(* Every step keeps the invariant.                                         *)
LEMMA StoreStep == StoreInv /\ [RtdbNext]_rtdbVars => StoreInv'
<1> SUFFICES ASSUME StoreInv, [RtdbNext]_rtdbVars PROVE StoreInv'
  OBVIOUS
<1>1. CASE UNCHANGED rtdbVars
  BY <1>1 DEF rtdbVars, StoreInv, StoreType, StoreSound
<1>2. CASE RtdbNext
  BY <1>2, WriterStep, ReaderStep, CompactionStep DEF RtdbNext, RtdbProgress
<1> QED BY <1>1, <1>2

(* Every transaction whose commit was reported is in the document.         *)
THEOREM UpdatesKeptCorrect == RtdbSpec => []UpdatesKept
<1>1. StoreInv => UpdatesKept
  BY DEF StoreInv, StoreSound, UpdatesKept
<1> QED BY <1>1, StoreInit, StoreStep, PTL DEF RtdbSpec

-----------------------------------------------------------------------------
(***************************************************************************)
(* QrLogin: a denied login stays denied.                                   *)
(***************************************************************************)

PhonePlaces == {"idle", "approve", "deny", "notify", "notify denied", "approved",
                "denied", "error"}
PollPlaces == {"idle", "first", "not found", "pending", "wait", "woken", "still pending",
               "drop expired", "drop login", "drop denied", "expired", "login", "denied"}

(* What every step keeps: an approved session has its login, no poll meets *)
(* an approved one without it, a phone that has denied has left the        *)
(* session denied, and a poll that came after it was confirmed is not on   *)
(* its way to a login.  PollPlaces leaves out the two places of a poll     *)
(* that found an approval without a login.                                 *)
DenialInv ==
    /\ session \in [there : BOOLEAN, expired : BOOLEAN,
                    status : {"pending", "approved", "denied"}, login : BOOLEAN]
    /\ phoneAt \in [Phones -> PhonePlaces]
    /\ pollAt \in [Polls -> PollPlaces]
    /\ session.status = "approved" => session.login
    /\ \A p \in Phones :
         phoneAt[p] \in {"notify denied", "denied"} => session.status = "denied"
    /\ deniedBefore \subseteq Polls
    /\ \A q \in deniedBefore :
         session.status = "denied" /\ pollAt[q] \notin {"drop login", "login"}

(* The session is created without a response, and nobody has polled.       *)
LEMMA DenialInit == QrInit => DenialInv
  BY DEF QrInit, DenialInv, NoSession, PhonePlaces, PollPlaces

(* What a look at the session can lead to.                                 *)
LEMMA ResolvedPlaces ==
    ASSUME DenialInv, NEW pending \in {"pending", "still pending"}
    PROVE  /\ Resolved(pending) \in PollPlaces
           /\ session.status = "denied" => Resolved(pending) \notin {"drop login", "login"}
  BY DEF Resolved, DenialInv, PollPlaces, Usable

(* Every handler's step keeps the invariant.                               *)
LEMMA DenialStep == DenialInv /\ [QrNext]_qrVars => DenialInv'
<1> SUFFICES ASSUME DenialInv, [QrNext]_qrVars PROVE DenialInv'
  OBVIOUS
<1>1. ASSUME NEW p \in Phones, NEW verdict \in {"approve", "deny"}, Responds(p, verdict)
      PROVE  DenialInv'
  BY <1>1 DEF DenialInv, Responds, PhoneTo, PhonePlaces
<1>2. ASSUME NEW p \in Phones, LoginFails(p) PROVE DenialInv'
  BY <1>2 DEF DenialInv, LoginFails, PhoneTo, PhonePlaces
<1>3. ASSUME NEW p \in Phones, Approves(p) PROVE DenialInv'
  BY <1>3 DEF DenialInv, Approves, StillPending, PhoneTo, PhonePlaces
<1>4. ASSUME NEW p \in Phones, Denies(p) PROVE DenialInv'
  BY <1>4 DEF DenialInv, Denies, PhoneTo, PhonePlaces
<1>5. ASSUME NEW p \in Phones, Notifies(p) PROVE DenialInv'
  BY <1>5 DEF DenialInv, Notifies, PhoneTo, PhonePlaces, PollPlaces
<1>6. ASSUME NEW q \in Polls, BeginsPoll(q) PROVE DenialInv'
  BY <1>6 DEF DenialInv, BeginsPoll, PollTo, PollPlaces
<1>7. ASSUME NEW q \in Polls, LooksFirst(q) PROVE DenialInv'
  <2>1. /\ Resolved("pending") \in PollPlaces
        /\ session.status = "denied" => Resolved("pending") \notin {"drop login", "login"}
    BY ResolvedPlaces
  <2> QED BY <1>7, <2>1 DEF DenialInv, LooksFirst, PollTo
<1>8. ASSUME NEW q \in Polls, Waits(q) PROVE DenialInv'
  BY <1>8 DEF DenialInv, Waits, PollTo, PollPlaces
<1>9. ASSUME NEW q \in Polls, LooksAgain(q) PROVE DenialInv'
  <2>1. /\ Resolved("still pending") \in PollPlaces
        /\ session.status = "denied" => Resolved("still pending") \notin {"drop login", "login"}
    BY ResolvedPlaces
  <2> QED BY <1>9, <2>1 DEF DenialInv, LooksAgain, PollTo
<1>10. ASSUME NEW q \in Polls, Drops(q) PROVE DenialInv'
  BY <1>10 DEF DenialInv, Drops, PollTo, PollPlaces
<1>11. CASE SessionExpires \/ CleanupExpired
  BY <1>11 DEF DenialInv, SessionExpires, CleanupExpired
<1>12. CASE UNCHANGED qrVars
  BY <1>12 DEF DenialInv, qrVars
<1> QED
  BY <1>1, <1>2, <1>3, <1>4, <1>5, <1>6, <1>7, <1>8, <1>9, <1>10, <1>11, <1>12 DEF QrNext

(* After a phone was told that it denied the login, no poll that begins    *)
(* hands it out; and no poll says "approved" without the login.            *)
THEOREM DenialStandsCorrect == QrSpec => []DenialStands
<1>1. DenialInv => DenialStands
  BY DEF DenialInv, DenialStands, PollPlaces
<1> QED
  BY <1>1, DenialInit, DenialStep, PTL DEF QrSpec

-----------------------------------------------------------------------------
(***************************************************************************)
(* Settings: the cache serves what the rows resolve to.                    *)
(***************************************************************************)

SettingRows == SettingValues \cup {"unset"}
SettingEntries == SettingRows \cup {"default"}
GetPlaces == {"idle", "own", "own row", "global", "global row"}

Gets == [pc : GetPlaces, level : Levels, row : SettingRows, behind : BOOLEAN]

SettingsType ==
    /\ rowOf \in [Levels -> SettingRows] /\ cachedAs \in [Levels -> SettingEntries]
    /\ getting \in [Getters -> Gets]
    /\ unsettled \in [Levels -> Nat] /\ tainted \subseteq Levels

(* A get that no write has overtaken knows rows that are still so: its own *)
(* level's once it has read that one, and then the global one.             *)
GetSound(g) ==
    ~getting[g].behind =>
      /\ getting[g].pc = "own row" => getting[g].row = rowOf[getting[g].level]
      /\ getting[g].pc \in {"global", "global row"} /\ getting[g].level # Everyone
           => rowOf[getting[g].level] = "unset"
      /\ getting[g].pc = "global row" => getting[g].row = rowOf[Everyone]

(* And while no write is between its row and the invalidation, every entry *)
(* is what the rows resolve to, but for the tainted ones.                  *)
EntriesSound ==
    Settled => \A l \in Levels \ tainted : cachedAs[l] # "unset" => cachedAs[l] = ByRows(l)

SettingsInv ==
    SettingsType /\ (\A g \in Getters : GetSound(g)) /\ EntriesSound

(* At the start nothing is stored or cached.                               *)
LEMMA SettingsInitial == SettingsInit => SettingsInv
<1> SUFFICES ASSUME SettingsInit PROVE SettingsInv
  OBVIOUS
<1>1. NotGetting \in Gets
  BY DEF NotGetting, Gets, GetPlaces, Levels, SettingRows
<1>2. SettingsType
  BY <1>1 DEF SettingsInit, SettingsType, SettingRows, SettingEntries
<1>3. (\A g \in Getters : GetSound(g)) /\ EntriesSound
  BY DEF SettingsInit, GetSound, EntriesSound, NotGetting
<1> QED BY <1>2, <1>3 DEF SettingsInv

(* A get that goes on with what it knows.                                  *)
LEMMA SettingsAsks ==
    ASSUME SettingsInv, NEW g \in Getters,
           \/ \E l \in Levels : Misses(g, l)
           \/ ReadsOwnRow(g) \/ ReadsGlobalRow(g) \/ LacksOwnRow(g) \/ FindsNothing(g)
    PROVE  SettingsInv'
<1> Everyone \in Levels
  BY DEF Levels
<1>1. UNCHANGED <<rowOf, cachedAs, unsettled, tainted>>
  BY DEF Misses, ReadsOwnRow, ReadsGlobalRow, LacksOwnRow, FindsNothing
<1>2. SettingsType'
  <2>0. NotGetting \in Gets
    BY DEF NotGetting, Gets, GetPlaces, SettingRows
  <2>1. CASE \E l \in Levels : Misses(g, l)
    <3>1. PICK l \in Levels : Misses(g, l)
      BY <2>1
    <3>2. [NotGetting EXCEPT !.pc = IF l = Everyone THEN "global" ELSE "own", !.level = l] \in Gets
      BY DEF NotGetting, Gets, GetPlaces, SettingRows
    <3> QED BY <1>1, <3>1, <3>2 DEF SettingsInv, SettingsType, Misses
  <2>2. CASE ReadsOwnRow(g)
    <3>1. [getting[g] EXCEPT !.pc = "own row", !.row = rowOf[getting[g].level]] \in Gets
      BY DEF SettingsInv, SettingsType, Gets, GetPlaces
    <3>2. getting' = [getting EXCEPT
             ![g] = [getting[g] EXCEPT !.pc = "own row", !.row = rowOf[getting[g].level]]]
      BY <2>2 DEF ReadsOwnRow, SettingsInv, SettingsType
    <3> QED BY <1>1, <3>1, <3>2 DEF SettingsInv, SettingsType
  <2>3. CASE ReadsGlobalRow(g)
    <3>1. [getting[g] EXCEPT !.pc = "global row", !.row = rowOf[Everyone]] \in Gets
      BY DEF SettingsInv, SettingsType, Gets, GetPlaces
    <3>2. getting' = [getting EXCEPT
             ![g] = [getting[g] EXCEPT !.pc = "global row", !.row = rowOf[Everyone]]]
      BY <2>3 DEF ReadsGlobalRow, SettingsInv, SettingsType
    <3> QED BY <1>1, <3>1, <3>2 DEF SettingsInv, SettingsType
  <2>4. CASE LacksOwnRow(g)
    BY <1>1, <2>4 DEF SettingsInv, SettingsType, LacksOwnRow, Gets, GetPlaces
  <2>5. CASE FindsNothing(g)
    BY <1>1, <2>0, <2>5 DEF SettingsInv, SettingsType, FindsNothing
  <2> QED BY <2>1, <2>2, <2>3, <2>4, <2>5
<1>3. ASSUME NEW h \in Getters PROVE GetSound(h)'
  <2>1. CASE h # g
    <3>1. getting \in [Getters -> Gets]
      BY DEF SettingsInv, SettingsType
    <3>2. getting'[h] = getting[h]
      <4>1. CASE \E l \in Levels : Misses(g, l)
        BY <2>1, <3>1, <4>1 DEF Misses
      <4>2. CASE ReadsOwnRow(g)
        <5> DEFINE get == [getting[g] EXCEPT !.pc = "own row", !.row = rowOf[getting[g].level]]
        <5>1. getting' = [getting EXCEPT ![g] = get]
          BY <3>1, <4>2 DEF ReadsOwnRow
        <5> HIDE DEF get
        <5> QED BY <2>1, <3>1, <5>1
      <4>3. CASE ReadsGlobalRow(g)
        <5> DEFINE get == [getting[g] EXCEPT !.pc = "global row", !.row = rowOf[Everyone]]
        <5>1. getting' = [getting EXCEPT ![g] = get]
          BY <3>1, <4>3 DEF ReadsGlobalRow
        <5> HIDE DEF get
        <5> QED BY <2>1, <3>1, <5>1
      <4>4. CASE LacksOwnRow(g) \/ FindsNothing(g)
        BY <2>1, <3>1, <4>4 DEF LacksOwnRow, FindsNothing
      <4> QED BY <4>1, <4>2, <4>3, <4>4
    <3> QED BY <1>1, <3>2 DEF SettingsInv, GetSound
  <2>2. CASE h = g
    <3>1. CASE \E l \in Levels : Misses(g, l)
      BY <1>1, <2>2, <3>1 DEF SettingsInv, SettingsType, GetSound, Misses, NotGetting
    <3>2. CASE ReadsOwnRow(g)
      <4>1. getting' = [getting EXCEPT
               ![g] = [getting[g] EXCEPT !.pc = "own row", !.row = rowOf[getting[g].level]]]
        BY <3>2 DEF ReadsOwnRow, SettingsInv, SettingsType
      <4>2. getting[g] \in Gets /\ getting \in [Getters -> Gets]
        BY DEF SettingsInv, SettingsType
      <4>3. /\ getting'[g].pc = "own row" /\ getting'[g].row = rowOf[getting[g].level]
            /\ getting'[g].level = getting[g].level
        BY <4>1, <4>2 DEF Gets
      <4> QED BY <1>1, <2>2, <4>3 DEF GetSound
    <3>3. CASE ReadsGlobalRow(g)
      <4>1. getting' = [getting EXCEPT
               ![g] = [getting[g] EXCEPT !.pc = "global row", !.row = rowOf[Everyone]]]
        BY <3>3 DEF ReadsGlobalRow, SettingsInv, SettingsType
      <4>2. /\ getting[g] \in Gets /\ getting \in [Getters -> Gets]
            /\ GetSound(g) /\ getting[g].pc = "global"
        BY <3>3 DEF SettingsInv, SettingsType, ReadsGlobalRow
      <4>3. /\ getting'[g].pc = "global row" /\ getting'[g].row = rowOf[Everyone]
            /\ getting'[g].level = getting[g].level /\ getting'[g].behind = getting[g].behind
        BY <4>1, <4>2 DEF Gets
      <4> QED BY <1>1, <2>2, <4>2, <4>3 DEF GetSound
    <3>4. CASE LacksOwnRow(g)
      <4>1. /\ getting' = [getting EXCEPT ![g] = [getting[g] EXCEPT !.pc = "global"]]
            /\ getting[g].pc = "own row" /\ getting[g].row = "unset"
        BY <3>4 DEF LacksOwnRow, SettingsInv, SettingsType
      <4>2. getting[g] \in Gets /\ getting \in [Getters -> Gets] /\ GetSound(g)
        BY DEF SettingsInv, SettingsType
      <4>3. /\ getting'[g].pc = "global" /\ getting'[g].level = getting[g].level
            /\ getting'[g].behind = getting[g].behind
        BY <4>1, <4>2 DEF Gets
      <4> QED BY <1>1, <2>2, <4>1, <4>2, <4>3 DEF GetSound
    <3>5. CASE FindsNothing(g)
      BY <1>1, <2>2, <3>5 DEF SettingsInv, SettingsType, Gets, GetSound, FindsNothing, NotGetting
    <3> QED BY <3>1, <3>2, <3>3, <3>4, <3>5
  <2> QED BY <2>1, <2>2
<1>4. EntriesSound'
  BY <1>1 DEF SettingsInv, EntriesSound, Settled, ByRows
<1> QED BY <1>2, <1>3, <1>4 DEF SettingsInv

(* What a get caches is what its level's rows resolve to, unless a write   *)
(* has overtaken it: then it is tainted, or an invalidation is to come.    *)
LEMMA SettingsPuts ==
    ASSUME SettingsInv, NEW g \in Getters, NEW l \in Levels, NEW v \in SettingEntries,
           Puts(g, l, v), ~getting[g].behind => v = ByRows(l)
    PROVE  SettingsInv'
<1>1. SettingsType'
  BY DEF SettingsInv, SettingsType, Puts, NotGetting, Gets, GetPlaces, SettingRows, Levels
<1>2. ASSUME NEW h \in Getters PROVE GetSound(h)'
  BY <1>2 DEF SettingsInv, SettingsType, GetSound, Puts, NotGetting
<1>3. EntriesSound'
  <2> SUFFICES ASSUME Settled', NEW k \in Levels, k \notin tainted', cachedAs'[k] # "unset"
               PROVE  cachedAs'[k] = ByRows(k)'
    BY DEF EntriesSound
  <2>1. Settled /\ ByRows(k)' = ByRows(k)
    BY DEF Puts, Settled, ByRows
  <2>2. CASE k = l
    <3>1. ~getting[g].behind
      BY <2>1, <2>2 DEF Puts
    <3> QED BY <2>1, <2>2, <3>1 DEF SettingsInv, SettingsType, Puts
  <2>3. CASE k # l
    <3>1. k \notin tainted /\ cachedAs'[k] = cachedAs[k]
      BY <2>3 DEF SettingsInv, SettingsType, Puts
    <3> QED BY <2>1, <3>1 DEF SettingsInv, EntriesSound
  <2> QED BY <2>2, <2>3
<1> QED BY <1>1, <1>2, <1>3 DEF SettingsInv

(* A get that has its answer.                                              *)
LEMMA SettingsResolves ==
    ASSUME SettingsInv, NEW g \in Getters,
           UsesOwnRow(g) \/ UsesGlobalRow(g) \/ UsesDefault(g)
    PROVE  SettingsInv'
<1>1. /\ Everyone \in Levels /\ getting[g].level \in Levels
      /\ getting[g].row \in SettingEntries /\ "default" \in SettingEntries
      /\ GetSound(g)
  BY DEF SettingsInv, SettingsType, Gets, SettingEntries, Levels
<1>2. CASE UsesOwnRow(g)
  <2>1. ~getting[g].behind => getting[g].row = ByRows(getting[g].level)
    BY <1>1, <1>2 DEF UsesOwnRow, GetSound, ByRows
  <2> QED BY <1>1, <1>2, <2>1, SettingsPuts DEF UsesOwnRow
<1>3. CASE UsesGlobalRow(g)
  <2>1. ~getting[g].behind => getting[g].row = ByRows(Everyone)
    BY <1>1, <1>3 DEF UsesGlobalRow, GetSound, ByRows
  <2> QED BY <1>1, <1>3, <2>1, SettingsPuts DEF UsesGlobalRow
<1>4. CASE UsesDefault(g)
  <2>1. ~getting[g].behind => "default" = ByRows(getting[g].level)
    BY <1>1, <1>4 DEF UsesDefault, GetSound, ByRows
  <2> QED BY <1>1, <1>4, <2>1, SettingsPuts DEF UsesDefault
<1> QED BY <1>2, <1>3, <1>4

(* Writes, invalidations and evictions.                                    *)
LEMMA SettingsWrites ==
    ASSUME SettingsInv, NEW l \in Levels, NEW v \in SettingRows,
           StoresValue(l, v) \/ Invalidates(l) \/ Evicts(l)
    PROVE  SettingsInv'
<1>1. CASE StoresValue(l, v)
  <2>1. SettingsType'
    <3>1. getting' \in [Getters -> Gets]
      BY <1>1 DEF SettingsInv, SettingsType, Gets, StoresValue
    <3> QED BY <1>1, <3>1 DEF SettingsInv, SettingsType, StoresValue
  <2>2. ASSUME NEW g \in Getters PROVE GetSound(g)'
    <3>1. getting'[g] = [getting[g] EXCEPT !.behind = getting[g].pc \notin {"idle", "own"}]
      BY <1>1 DEF StoresValue
    <3>2. /\ getting'[g].pc = getting[g].pc
          /\ getting'[g].behind = (getting[g].pc \notin {"idle", "own"})
      BY <3>1 DEF SettingsInv, SettingsType, Gets
    <3> QED BY <3>2 DEF GetSound
  <2>3. unsettled'[l] # 0
    BY <1>1 DEF StoresValue, SettingsInv, SettingsType
  <2> QED BY <2>1, <2>2, <2>3 DEF SettingsInv, EntriesSound, Settled
<1>2. CASE Invalidates(l)
  <2>1. SettingsType'
    BY <1>2 DEF SettingsInv, SettingsType, Invalidates, InvalidateKey, SettingEntries, SettingRows
  <2>2. \A k \in Levels : cachedAs'[k] = "unset"
    BY <1>2 DEF Invalidates, InvalidateKey
  <2> QED BY <1>2, <2>1, <2>2 DEF SettingsInv, EntriesSound, GetSound, Invalidates
<1>3. CASE Evicts(l)
  <2>1. SettingsType'
    BY <1>3 DEF SettingsInv, SettingsType, Evicts, SettingEntries, SettingRows
  <2>2. EntriesSound'
    BY <1>3 DEF SettingsInv, SettingsType, EntriesSound, Evicts, Settled, ByRows
  <2> QED BY <1>3, <2>1, <2>2 DEF SettingsInv, GetSound, Evicts
<1> QED BY <1>1, <1>2, <1>3

(* Every step keeps the invariant.                                         *)
LEMMA SettingsStep == SettingsInv /\ [SettingsNext]_settingVars => SettingsInv'
<1> SUFFICES ASSUME SettingsInv, [SettingsNext]_settingVars PROVE SettingsInv'
  OBVIOUS
<1>1. CASE UNCHANGED settingVars
  BY <1>1 DEF settingVars, SettingsInv, SettingsType, GetSound, EntriesSound, Settled, ByRows
<1>2. CASE SettingsNext
  BY <1>2, SettingsAsks, SettingsResolves, SettingsWrites DEF SettingsNext, SettingRows
<1> QED BY <1>1, <1>2

(* Once every write has returned, the cache serves what the rows resolve   *)
(* to, for any tenants, gets, values and overlaps of them.                 *)
THEOREM SettingsServedCorrect == SettingsSpec => []SettingsServed
<1>1. SettingsInv => SettingsServed
  <2> SUFFICES ASSUME SettingsInv, Settled, NEW l \in Levels, Served(l) # "unset",
                      Source(l) \notin tainted, ~Masked(l)
               PROVE  Served(l) = ByRows(l)
    BY DEF SettingsServed
  <2>1. Source(l) \in Levels
    BY DEF Source, Levels
  <2>2. Served(l) = ByRows(Source(l))
    BY <2>1 DEF Served, SettingsInv, EntriesSound
  <2> QED BY <2>2 DEF Masked, Source, ByRows
<1> QED BY <1>1, SettingsInitial, SettingsStep, PTL DEF SettingsSpec

-----------------------------------------------------------------------------
(***************************************************************************)
(* Uploads: files get the id of their variants, and posts their files.     *)
(***************************************************************************)

AllVariants == Renditions \cup {"orig"}
UploadIds == {NoId} \cup (Uploads \cup {"same"}) \X SUBSET AllVariants
UploadPlaces == {"idle", "known", "created", "recorded", "answered", "failed"}
IdTaskPlaces == {"none", "due", "look", "purge variants", "purge", "update", "done", "failed",
                 "taken", "lost"}
PostTypes == [pc : {"none", "collected", "waiting", "resolved", "failed", "lost"},
              files : SUBSET Uploads, deps : SUBSET Uploads, key : SUBSET Uploads,
              shares : BOOLEAN]

UploadRows == [st : {"none", "P", "A", "D"}, id : UploadIds, variants : SUBSET AllVariants]
IdTasks == [pc : IdTaskPlaces, deps : SUBSET Renditions, listed : SUBSET AllVariants]

UploadsType ==
    /\ upFile \in [Uploads -> UploadRows]
    /\ upAt \in [Uploads -> UploadPlaces]
    /\ rendering \in [Uploads -> SUBSET Renditions]
    /\ idTask \in [Uploads -> IdTasks]
    /\ post \in PostTypes

(* Once the id task has listed the variants of a file that is still        *)
(* pending, nobody adds one: its handler has answered, and the tasks of    *)
(* its variants have ended.  A file has no id while it is pending.         *)
Listed == {"look", "purge variants", "purge", "update"}

FileSound(u) ==
    /\ rendering[u] \subseteq idTask[u].deps
    /\ upAt[u] = "answered" <=> idTask[u].pc # "none"
    /\ upAt[u] = "idle" => upFile[u].st = "none" /\ upFile[u].id = NoId
    /\ idTask[u].pc \in Listed => rendering[u] = {}
    /\ idTask[u].pc \in Listed /\ upFile[u].st = "P" => idTask[u].listed = upFile[u].variants
    /\ upFile[u].st = "P" => upFile[u].id = NoId
    /\ upFile[u].st = "A" => upFile[u].id = Digest(u, upFile[u].variants)
    /\ OnItsWay(u) => ~IdTaskEnded(u)

(* A post names files that were answered for, and a file it does not wait  *)
(* for has ended its id task.                                              *)
PostSound ==
    /\ \A u \in post.files : upAt[u] = "answered"
    /\ post.pc \in {"collected", "waiting"} =>
         \A u \in post.files \ post.deps : IdTaskEnded(u)
    /\ post.pc = "failed" => \E u \in post.files : upFile[u].id = NoId /\ IdTaskEnded(u)

UploadsInv == UploadsType /\ (\A u \in Uploads : FileSound(u)) /\ PostSound

(* Tasks are displaced and lost only in a row that two of them share.      *)
RowsShared ==
    /\ \A u \in Uploads : Displaced(u) => InSharedRow(u)
    /\ post.pc \in {"none", "collected"} => ~post.shares
    /\ post.pc = "lost" => post.shares

(* The post is as it was, or has lost its row.                             *)
PostGoesOn ==
    /\ post' \in PostTypes
    /\ post'.files = post.files /\ post'.deps = post.deps
    /\ post'.pc = post.pc \/ post'.pc = "lost"

(* At the start nothing is uploaded.                                       *)
LEMMA UploadsInitial == UploadsInit => UploadsInv
<1> SUFFICES ASSUME UploadsInit PROVE UploadsInv
  OBVIOUS
<1>1. NoUpFile \in UploadRows /\ NoIdTask \in IdTasks
  BY DEF NoUpFile, NoIdTask, UploadRows, IdTasks, UploadIds, IdTaskPlaces
<1>2. UploadsType
  BY <1>1 DEF UploadsInit, UploadsType, NoPost, PostTypes, UploadPlaces
<1>3. (\A u \in Uploads : FileSound(u)) /\ PostSound
  BY DEF UploadsInit, FileSound, PostSound, NoUpFile, NoIdTask, NoPost, OnItsWay, Listed
<1> QED BY <1>2, <1>3 DEF UploadsInv

(* A step that leaves the posts, the ended id tasks of answered files and  *)
(* the rows without an id as they are leaves the posts sound.              *)
LEMMA PostKept ==
    ASSUME PostSound, UploadsType, PostGoesOn,
           \A u \in Uploads : upAt[u] = "answered" => upAt'[u] = "answered",
           \A u \in Uploads : upAt[u] = "answered" /\ IdTaskEnded(u) =>
              IdTaskEnded(u)' /\ (upFile[u].id = NoId => upFile'[u].id = NoId)
    PROVE  PostSound'
<1>1. post.files \subseteq Uploads
  BY DEF UploadsType, PostTypes
<1> QED BY <1>1 DEF PostSound, PostGoesOn

(* The row of the post is lost, or it is as it was.                        *)
LEMMA PostDropped ==
    ASSUME UploadsType, NEW u \in Uploads, DropsPost(u) \/ UNCHANGED post
    PROVE  /\ PostGoesOn
           /\ \/ UNCHANGED post
              \/ /\ post.pc = "waiting" /\ u \in post.key /\ post'.pc = "lost"
                 /\ post'.shares = TRUE /\ post'.key = post.key
<1> USE DEF UploadsType, PostTypes
<1>1. CASE UNCHANGED post
  BY <1>1 DEF PostGoesOn
<1>2. CASE post' = [post EXCEPT !.pc = "lost", !.shares = TRUE]
           /\ post.pc = "waiting" /\ u \in post.key
  BY <1>2 DEF PostGoesOn
<1> QED BY <1>1, <1>2 DEF DropsPost

(* The handler, up to its answer.                                          *)
LEMMA HandlerStep ==
    ASSUME UploadsInv, NEW u \in Uploads,
           \/ CreatesRow(u) \/ RecordsOrig(u) \/ SkipsOrig(u) \/ SchedulesIdTask(u)
           \/ UploadFails(u) \/ \E v \in Renditions : AddsRendition(u, v)
    PROVE  UploadsInv'
<1>0. /\ UploadsType /\ PostSound /\ \A w \in Uploads : FileSound(w)
      /\ upAt[u] \in {"idle", "created", "recorded"} /\ idTask[u].pc = "none"
      /\ UNCHANGED <<alike, clashed>> /\ PostGoesOn
  BY PostDropped DEF UploadsInv, FileSound, CreatesRow, RecordsOrig, SkipsOrig, SchedulesIdTask, UploadFails,
         AddsRendition
<1>1. UploadsType'
  <2>1. upAt' \in [Uploads -> UploadPlaces]
    BY <1>0 DEF UploadsType, CreatesRow, RecordsOrig, SkipsOrig, SchedulesIdTask, UploadFails,
                AddsRendition, UploadTo, UploadPlaces
  <2>2. upFile' \in [Uploads -> UploadRows]
    <3>1. [upFile[u] EXCEPT !.st = "P"] \in UploadRows
      BY <1>0 DEF UploadsType, UploadRows
    <3>2. [upFile[u] EXCEPT !.variants = upFile[u].variants \cup {"orig"}] \in UploadRows
      BY <1>0 DEF UploadsType, UploadRows, AllVariants
    <3>3. \/ upFile' = upFile
          \/ upFile' = [upFile EXCEPT ![u] = [upFile[u] EXCEPT !.st = "P"]]
          \/ upFile' = [upFile EXCEPT ![u] =
                          [upFile[u] EXCEPT !.variants = upFile[u].variants \cup {"orig"}]]
      BY <1>0 DEF UploadsType, CreatesRow, RecordsOrig, SkipsOrig, SchedulesIdTask,
                  UploadFails, AddsRendition, AddsVariant
    <3> QED BY <1>0, <3>1, <3>2, <3>3 DEF UploadsType
  <2>3. /\ rendering' \in [Uploads -> SUBSET Renditions]
        /\ idTask' \in [Uploads -> IdTasks]
    <3>1. CASE UNCHANGED <<rendering, idTask>>
      BY <1>0, <3>1 DEF UploadsType
    <3>2. CASE SchedulesIdTask(u)
      <4>1. [idTask[u] EXCEPT !.pc = "due"] \in IdTasks
        BY <1>0 DEF UploadsType, IdTasks, IdTaskPlaces
      <4> QED BY <1>0, <3>2, <4>1 DEF UploadsType, SchedulesIdTask
    <3>3. ASSUME NEW v \in Renditions, AddsRendition(u, v)
          PROVE  rendering' \in [Uploads -> SUBSET Renditions] /\ idTask' \in [Uploads -> IdTasks]
      <4>1. [idTask[u] EXCEPT !.deps = idTask[u].deps \cup {v}] \in IdTasks
        BY <1>0 DEF UploadsType, IdTasks
      <4>2. rendering[u] \cup {v} \in SUBSET Renditions
        BY <1>0 DEF UploadsType
      <4> QED BY <1>0, <3>3, <4>1, <4>2 DEF UploadsType, AddsRendition
    <3> QED BY <1>0, <3>1, <3>2, <3>3 DEF CreatesRow, RecordsOrig, SkipsOrig, UploadFails
  <2> QED BY <1>0, <2>1, <2>2, <2>3 DEF UploadsType, PostGoesOn
<1>2. ASSUME NEW w \in Uploads PROVE FileSound(w)'
  <2>1. CASE w # u
    <3>1. UNCHANGED <<upFile[w], upAt[w], rendering[w], idTask[w]>>
      BY <1>0, <2>1 DEF UploadsType, CreatesRow, RecordsOrig, SkipsOrig, SchedulesIdTask,
                        UploadFails, AddsRendition, AddsVariant, UploadTo
    <3> QED BY <1>0, <3>1 DEF FileSound, OnItsWay, IdTaskEnded, Digest, Content
  <2>2. CASE w = u
    <3>0. FileSound(u) /\ ~(idTask[u].pc \in Listed)
      BY <1>0 DEF Listed
    <3>1. CASE CreatesRow(u)
      <4>1. UNCHANGED <<rendering, idTask>> /\ upAt'[u] \in {"known", "created"}
            /\ upFile[u].st = "none" /\ upFile[u].id = NoId
        BY <1>0, <3>0, <3>1 DEF UploadsType, CreatesRow, UploadTo, FileSound
      <4>2. \/ upFile' = upFile
            \/ upFile' = [upFile EXCEPT ![u] = [upFile[u] EXCEPT !.st = "P"]]
        BY <1>0, <3>1 DEF CreatesRow
      <4>3. upFile'[u].st \in {"none", "P"} /\ upFile'[u].id = NoId
        BY <1>0, <4>1, <4>2 DEF UploadsType, UploadRows
      <4> QED BY <1>0, <2>2, <3>0, <4>1, <4>3 DEF FileSound, OnItsWay
    <3>2. CASE RecordsOrig(u)
      <4>1. UNCHANGED <<rendering, idTask>> /\ upAt'[u] \in {"recorded", "failed"}
        BY <1>0, <3>2 DEF UploadsType, RecordsOrig, UploadTo
      <4>2. \/ upFile'[u] = upFile[u]
            \/ upFile[u].st = "P" /\ upFile'[u].st = "P" /\ upFile'[u].id = upFile[u].id
        BY <3>2 DEF UploadsType, RecordsOrig, AddsVariant
      <4>3. UNCHANGED alike
        BY <3>2 DEF RecordsOrig
      <4> QED BY <1>0, <2>2, <3>0, <4>1, <4>2, <4>3
              DEF FileSound, OnItsWay, Digest, Content
    <3>3. CASE SkipsOrig(u) \/ UploadFails(u)
      <4>1. /\ UNCHANGED <<rendering, idTask, upFile, alike>>
            /\ upAt'[u] \in {"recorded", "failed"}
        BY <1>0, <3>3 DEF UploadsType, SkipsOrig, UploadFails, UploadTo
      <4> QED BY <1>0, <2>2, <3>0, <4>1 DEF FileSound, OnItsWay, Digest, Content
    <3>4. CASE SchedulesIdTask(u)
      <4>1. /\ UNCHANGED <<rendering, upFile, alike>> /\ upAt'[u] = "answered"
            /\ idTask'[u].pc = "due" /\ idTask'[u].deps = idTask[u].deps
        BY <1>0, <3>4 DEF UploadsType, SchedulesIdTask, UploadTo, IdTasks
      <4>2. ~IdTaskEnded(u)' /\ ~(idTask'[u].pc \in Listed)
        BY <4>1 DEF IdTaskEnded, Listed
      <4>3. FileSound(u)'
        BY <3>0, <4>1, <4>2 DEF FileSound, Digest, Content
      <4> QED BY <2>2, <4>3
    <3>5. ASSUME NEW v \in Renditions, AddsRendition(u, v) PROVE FileSound(u)'
      <4>1. /\ UNCHANGED <<upFile, upAt, alike>> /\ idTask'[u].pc = idTask[u].pc
            /\ rendering'[u] = rendering[u] \cup {v} /\ idTask'[u].deps = idTask[u].deps \cup {v}
        BY <1>0, <3>5 DEF UploadsType, AddsRendition, IdTasks
      <4> QED BY <1>0, <3>0, <3>5, <4>1 DEF FileSound, OnItsWay, AddsRendition, Digest, Content
    <3> QED BY <2>2, <3>1, <3>2, <3>3, <3>4, <3>5
  <2> QED BY <2>1, <2>2
<1>3. PostSound'
  <2>1. /\ \A w \in Uploads : upAt[w] = "answered" => upAt'[w] = "answered"
        /\ \A w \in Uploads : upAt[w] = "answered" => UNCHANGED <<idTask[w], upFile[w]>>
    BY <1>0 DEF UploadsType, CreatesRow, RecordsOrig, SkipsOrig, SchedulesIdTask, UploadFails,
                AddsRendition, AddsVariant, UploadTo
  <2> QED BY <1>0, <2>1, PostKept DEF IdTaskEnded
<1> QED BY <1>1, <1>2, <1>3 DEF UploadsInv

(* The tasks of the variants.                                              *)
LEMMA RenditionStep ==
    ASSUME UploadsInv, NEW u \in Uploads, NEW v \in Renditions,
           Renders(u, v) \/ RenderFails(u, v)
    PROVE  UploadsInv'
<1>0. /\ UploadsType /\ PostSound /\ \A w \in Uploads : FileSound(w)
      /\ v \in rendering[u]
      /\ UNCHANGED <<alike, post, clashed, idTask, upAt>> /\ PostGoesOn
      /\ rendering' = [rendering EXCEPT ![u] = rendering[u] \ {v}]
  BY PostDropped DEF UploadsInv, Renders, RenderFails
<1>1. \/ upFile' = upFile
      \/ /\ upFile[u].st = "P"
         /\ upFile' = [upFile EXCEPT ![u] =
                         [upFile[u] EXCEPT !.variants = upFile[u].variants \cup {v}]]
  BY <1>0 DEF UploadsType, Renders, RenderFails, AddsVariant
<1>2. UploadsType'
  <2>1. [upFile[u] EXCEPT !.variants = upFile[u].variants \cup {v}] \in UploadRows
    BY <1>0 DEF UploadsType, UploadRows, AllVariants
  <2> QED BY <1>0, <1>1, <2>1 DEF UploadsType
<1>3. ASSUME NEW w \in Uploads PROVE FileSound(w)'
  <2>1. CASE w # u
    BY <1>0, <1>1, <2>1 DEF UploadsType, FileSound, OnItsWay, IdTaskEnded, Digest, Content
  <2>2. CASE w = u
    <3>1. idTask[u].pc \notin Listed
      BY <1>0 DEF FileSound
    <3>2. \/ upFile'[u] = upFile[u]
          \/ upFile[u].st = "P" /\ upFile'[u].st = "P" /\ upFile'[u].id = upFile[u].id
      BY <1>0, <1>1 DEF UploadsType, UploadRows
    <3> QED BY <1>0, <2>2, <3>1, <3>2
            DEF UploadsType, FileSound, OnItsWay, IdTaskEnded, Digest, Content
  <2> QED BY <2>1, <2>2
<1>4. PostSound'
  <2>1. \A w \in Uploads : upFile'[w].id = upFile[w].id
    BY <1>0, <1>1 DEF UploadsType, UploadRows
  <2> QED BY <1>0, <2>1, PostKept DEF IdTaskEnded
<1> QED BY <1>2, <1>3, <1>4 DEF UploadsInv

(* A step of the id task of u that leaves the rows as they are.            *)
LEMMA IdTaskMoves ==
    ASSUME UploadsInv, NEW u \in Uploads, NEW r \in IdTasks,
           UNCHANGED <<alike, upFile, upAt, rendering>>, PostGoesOn, clashed \subseteq clashed',
           idTask' = [idTask EXCEPT ![u] = r],
           r.deps = idTask[u].deps, r.pc # "none", idTask[u].pc \in Listed \cup {"due"},
           r.pc \in Listed => rendering[u] = {},
           r.pc \in Listed /\ upFile[u].st = "P" => r.listed = upFile[u].variants,
           r.pc \in {"done", "failed"} => ~OnItsWay(u)'
    PROVE  UploadsInv'
<1>1. UploadsType'
  BY DEF UploadsInv, UploadsType, PostGoesOn
<1>2. ASSUME NEW w \in Uploads PROVE FileSound(w)'
  <2>1. CASE w # u
    <3>1. idTask'[w] = idTask[w]
      BY <2>1 DEF UploadsInv, UploadsType
    <3>2. FileSound(w)
      BY DEF UploadsInv
    <3> QED BY <3>1, <3>2 DEF FileSound, OnItsWay, IdTaskEnded, Digest, Content
  <2>2. CASE w = u
    <3>1. idTask'[u] = r /\ FileSound(u)
      BY DEF UploadsInv, UploadsType
    <3>2. OnItsWay(u)' => ~IdTaskEnded(u)'
      BY <3>1 DEF IdTaskEnded
    <3>3. FileSound(u)'
      BY <3>1, <3>2 DEF FileSound, Digest, Content, Listed
    <3> QED BY <2>2, <3>3
  <2> QED BY <2>1, <2>2
<1>3. PostSound'
  <2>1. ~IdTaskEnded(u)
    BY DEF IdTaskEnded, Listed
  <2>2. \A w \in Uploads \ {u} : idTask'[w] = idTask[w]
    BY DEF UploadsInv, UploadsType
  <2> QED BY <2>1, <2>2, PostKept DEF UploadsInv, IdTaskEnded
<1> QED BY <1>1, <1>2, <1>3 DEF UploadsInv

(* The steps of the id task that write no row.                               *)
LEMMA IdTaskStep ==
    ASSUME UploadsInv, NEW u \in Uploads,
           ListsVariants(u) \/ FindsIt(u) \/ IdRefused(u)
    PROVE  UploadsInv'
<1>0. /\ UploadsType /\ FileSound(u) /\ upFile[u] \in UploadRows /\ idTask[u] \in IdTasks
      /\ upFile[u].variants \in SUBSET AllVariants /\ PostGoesOn
  <2>1. DropsPost(u) \/ UNCHANGED post
    BY DEF ListsVariants, FindsIt, IdRefused
  <2>2. PostGoesOn
    BY <2>1, PostDropped DEF UploadsInv
  <2> QED BY <2>2 DEF UploadsInv, UploadsType, UploadRows
<1>1. CASE ListsVariants(u)
  <2> DEFINE r == [idTask[u] EXCEPT !.pc = "look", !.listed = upFile[u].variants]
  <2>1. /\ r \in IdTasks /\ r.deps = idTask[u].deps /\ r.pc = "look"
        /\ r.listed = upFile[u].variants
    BY <1>0 DEF IdTasks, IdTaskPlaces
  <2>2. idTask' = [idTask EXCEPT ![u] = r]
    BY <1>0, <1>1 DEF UploadsType, ListsVariants
  <2>3. rendering[u] = {} /\ idTask[u].pc = "due"
    BY <1>0, <1>1 DEF ListsVariants, DepsEnded, FileSound, IdTaskAt
  <2>4. UNCHANGED <<alike, upFile, upAt, rendering, clashed>>
    BY <1>1 DEF ListsVariants
  <2> HIDE DEF r
  <2> QED BY <1>0, <2>1, <2>2, <2>3, <2>4, IdTaskMoves
<1>2. CASE FindsIt(u)
  <2>1. PICK pc \in {"done", "failed", "purge variants"} :
          /\ IdTaskTo(u, pc) /\ (pc \in {"done", "failed"} => upFile[u].st # "P")
    BY <1>0, <1>2 DEF FindsIt, FileSound
  <2> DEFINE r == [idTask[u] EXCEPT !.pc = pc]
  <2>2. /\ r \in IdTasks /\ r.deps = idTask[u].deps /\ r.pc = pc
        /\ r.listed = idTask[u].listed
    BY <1>0 DEF IdTasks, IdTaskPlaces
  <2>3. idTask' = [idTask EXCEPT ![u] = r]
    BY <1>0, <2>1 DEF UploadsType, IdTaskTo
  <2>4. /\ UNCHANGED <<alike, upFile, upAt, rendering, clashed>>
        /\ idTask[u].pc = "look" /\ "look" \in Listed
    BY <1>2 DEF FindsIt, IdTaskAt, Listed
  <2>5. /\ rendering[u] = {} /\ (upFile[u].st = "P" => r.listed = upFile[u].variants)
        /\ (pc \in {"done", "failed"} => ~OnItsWay(u)')
    BY <1>0, <2>1, <2>2, <2>4 DEF FileSound, OnItsWay
  <2> HIDE DEF r
  <2> QED BY <1>0, <2>2, <2>3, <2>4, <2>5, IdTaskMoves
<1>3. CASE IdRefused(u)
  <2> DEFINE r == [idTask[u] EXCEPT !.pc = "failed"]
  <2>1. /\ r \in IdTasks /\ r.deps = idTask[u].deps /\ r.pc = "failed"
    BY <1>0 DEF IdTasks, IdTaskPlaces
  <2>2. idTask' = [idTask EXCEPT ![u] = r]
    BY <1>0, <1>3 DEF UploadsType, IdRefused, IdTaskTo
  <2>3. /\ UNCHANGED <<alike, upFile, upAt, rendering>> /\ clashed \subseteq clashed'
        /\ idTask[u].pc = "update" /\ "update" \in Listed /\ "failed" \notin Listed
        /\ ~OnItsWay(u)'
    BY <1>3 DEF IdRefused, IdTaskAt, Listed, OnItsWay
  <2> HIDE DEF r
  <2> QED BY <1>0, <2>1, <2>2, <2>3, IdTaskMoves
<1> QED BY <1>1, <1>2, <1>3

(* A step that changes rows, and may move the id task of u in the course   *)
(* of the finalization, or end it with an id.                              *)
LEMMA RowsMove ==
    ASSUME UploadsInv, NEW u \in Uploads, NEW pc \in Listed \cup {"done"},
           UNCHANGED <<alike, upAt, rendering, post, clashed>>,
           upFile' \in [Uploads -> UploadRows],
           \/ UNCHANGED idTask
           \/ idTask[u].pc \in Listed /\ IdTaskTo(u, pc),
           pc = "done" => upFile'[u].st # "P",
           \A w \in Uploads :
             \/ upFile'[w] = upFile[w]
             \/ upFile[w].st # "none" /\ upFile'[w].st = "D" /\ upFile'[w].id = upFile[w].id
             \/ upFile[w].st # "none" /\ upFile'[w].st = "none" /\ upFile'[w].id = NoId
             \/ /\ w = u /\ pc = "done" /\ idTask[u].pc \in Listed
                /\ upFile'[w].st = "A" /\ upFile'[w].id = Digest(w, upFile'[w].variants)
    PROVE  UploadsInv'
<1>0. /\ UploadsType /\ PostSound /\ (\A w \in Uploads : FileSound(w)) /\ PostGoesOn
  BY PostDropped DEF UploadsInv
<1>1. /\ idTask' \in [Uploads -> IdTasks]
      /\ \A w \in Uploads :
           /\ idTask'[w].deps = idTask[w].deps /\ idTask'[w].listed = idTask[w].listed
           /\ \/ idTask'[w].pc = idTask[w].pc
              \/ w = u /\ idTask[u].pc \in Listed /\ idTask'[w].pc = pc
  <2>1. CASE UNCHANGED idTask
    BY <1>0, <2>1 DEF UploadsType
  <2>2. CASE idTask[u].pc \in Listed /\ IdTaskTo(u, pc)
    <3>0. idTask[u] \in IdTasks /\ pc \in IdTaskPlaces
      BY <1>0 DEF UploadsType, IdTaskPlaces, Listed
    <3>1. [idTask[u] EXCEPT !.pc = pc] \in IdTasks
      BY <3>0 DEF IdTasks
    <3>2. idTask' = [idTask EXCEPT ![u] = [idTask[u] EXCEPT !.pc = pc]]
      BY <1>0, <2>2 DEF UploadsType, IdTaskTo
    <3>3. idTask' \in [Uploads -> IdTasks]
      BY <1>0, <3>1, <3>2 DEF UploadsType
    <3> QED BY <1>0, <2>2, <3>2, <3>3 DEF UploadsType, IdTasks
  <2> QED BY <2>1, <2>2
<1>2. UploadsType'
  BY <1>0, <1>1 DEF UploadsType
<1>3. ASSUME NEW w \in Uploads PROVE FileSound(w)'
  <2>0. FileSound(w)
    BY <1>0
  <2>1. /\ rendering'[w] \subseteq idTask'[w].deps
        /\ upAt'[w] = "answered" <=> idTask'[w].pc # "none"
        /\ idTask'[w].pc \in Listed => rendering'[w] = {}
    BY <1>1, <2>0 DEF FileSound, Listed
  <2>2. /\ upAt'[w] = "idle" => upFile'[w].st = "none" /\ upFile'[w].id = NoId
        /\ upFile'[w].st = "P" => upFile'[w].id = NoId
        /\ upFile'[w].st = "A" => upFile'[w].id = Digest(w, upFile[w].variants)'
    BY <2>0 DEF FileSound, Listed, Digest, Content
  <2>3. idTask'[w].pc \in Listed /\ upFile'[w].st = "P" => idTask'[w].listed = upFile'[w].variants
    BY <1>1, <2>0 DEF FileSound
  <2>4. OnItsWay(w)' => ~IdTaskEnded(w)'
    BY <1>1, <2>0 DEF FileSound, OnItsWay, IdTaskEnded, Listed
  <2> QED BY <2>1, <2>2, <2>3, <2>4 DEF FileSound
<1>4. PostSound'
  <2>1. ASSUME NEW w \in Uploads, IdTaskEnded(w)
        PROVE  IdTaskEnded(w)' /\ (upFile[w].id = NoId => upFile'[w].id = NoId)
    BY <1>1, <2>1 DEF IdTaskEnded, Listed
  <2> QED BY <1>0, <2>1, PostKept
<1> QED BY <1>2, <1>3, <1>4 DEF UploadsInv

(* The steps of the id task that write rows.                                  *)
LEMMA RowsStep ==
    ASSUME UploadsInv, NEW u \in Uploads,
           PurgesVariants(u) \/ PurgesRow(u) \/ SetsId(u) \/ DeletesFile(u)
    PROVE  UploadsInv'
<1>0. /\ UploadsType /\ FileSound(u) /\ \A w \in Uploads : upFile[w] \in UploadRows
      /\ idTask[u] \in IdTasks
  BY DEF UploadsInv, UploadsType
<1>1. CASE PurgesVariants(u)
  <2>1. \A w \in Uploads :
          [upFile[w] EXCEPT !.variants = {}] \in UploadRows
    BY <1>0 DEF UploadRows
  <2>2. upFile' \in [Uploads -> UploadRows]
    BY <1>0, <1>1, <2>1 DEF PurgesVariants
  <2>3. \A w \in Uploads :
          \/ upFile'[w] = upFile[w]
          \/ upFile[w].st = "D" /\ upFile'[w].st = "D" /\ upFile'[w].id = upFile[w].id
    BY <1>0, <1>1 DEF PurgesVariants, InTheWay, UploadRows
  <2>4. /\ UNCHANGED <<alike, upAt, rendering, post, clashed>>
        /\ idTask[u].pc \in Listed /\ IdTaskTo(u, "purge") /\ "purge" \in Listed
    BY <1>1 DEF PurgesVariants, IdTaskAt, Listed
  <2>5. PICK pc \in Listed : pc = "purge" /\ IdTaskTo(u, pc)
    BY <2>4
  <2> QED BY <2>2, <2>3, <2>4, <2>5, RowsMove
<1>2. CASE PurgesRow(u)
  <2>1. NoUpFile \in UploadRows
    BY DEF NoUpFile, UploadRows, UploadIds
  <2>2. upFile' \in [Uploads -> UploadRows]
    BY <1>0, <1>2, <2>1 DEF PurgesRow
  <2>3. \A w \in Uploads :
          \/ upFile'[w] = upFile[w]
          \/ upFile[w].st = "D" /\ upFile'[w].st = "none" /\ upFile'[w].id = NoId
    BY <1>0, <1>2 DEF PurgesRow, InTheWay, NoUpFile
  <2>4. /\ UNCHANGED <<alike, upAt, rendering, post, clashed>>
        /\ idTask[u].pc \in Listed /\ IdTaskTo(u, "update") /\ "update" \in Listed
    BY <1>2 DEF PurgesRow, IdTaskAt, Listed
  <2>5. PICK pc \in Listed : pc = "update" /\ IdTaskTo(u, pc)
    BY <2>4
  <2> QED BY <2>2, <2>3, <2>4, <2>5, RowsMove
<1>3. CASE SetsId(u)
  <2>1. /\ UNCHANGED <<alike, upAt, rendering, post, clashed>>
        /\ idTask[u].pc \in Listed /\ IdTaskTo(u, "done")
        /\ idTask[u].listed = upFile[u].variants
    BY <1>0, <1>3 DEF SetsId, IdTaskAt, Listed, FileSound
  <2>2. NewId(u) \in UploadIds
    BY <1>0 DEF NewId, Digest, Content, UploadIds, IdTasks
  <2>3. [upFile[u] EXCEPT !.st = "A", !.id = NewId(u)] \in UploadRows
    BY <1>0, <2>2 DEF UploadRows
  <2>4. upFile' = [upFile EXCEPT ![u] = [upFile[u] EXCEPT !.st = "A", !.id = NewId(u)]]
    BY <1>0, <1>3 DEF SetsId, UploadsType
  <2>5. /\ upFile' \in [Uploads -> UploadRows]
        /\ \A w \in Uploads \ {u} : upFile'[w] = upFile[w]
    BY <1>0, <2>3, <2>4 DEF UploadsType
  <2>6. /\ upFile'[u].st = "A" /\ upFile'[u].id = NewId(u)
        /\ upFile'[u].variants = upFile[u].variants
    BY <1>0, <2>4 DEF UploadsType, UploadRows
  <2>7. upFile'[u].id = Digest(u, upFile'[u].variants)
    BY <2>1, <2>6 DEF NewId
  <2>8. PICK pc \in Listed \cup {"done"} : pc = "done" /\ IdTaskTo(u, pc)
    BY <2>1
  <2> QED BY <2>1, <2>5, <2>6, <2>7, <2>8, RowsMove
<1>4. CASE DeletesFile(u)
  <2>1. upFile' = [upFile EXCEPT ![u] = [upFile[u] EXCEPT !.st = "D"]]
    BY <1>0, <1>4 DEF DeletesFile, UploadsType
  <2>2. [upFile[u] EXCEPT !.st = "D"] \in UploadRows
    BY <1>0 DEF UploadRows
  <2>3. /\ upFile' \in [Uploads -> UploadRows]
        /\ \A w \in Uploads \ {u} : upFile'[w] = upFile[w]
        /\ upFile'[u].st = "D" /\ upFile'[u].id = upFile[u].id /\ upFile[u].st # "none"
    BY <1>0, <1>4, <2>1, <2>2 DEF UploadsType, DeletesFile, UploadRows
  <2>4. UNCHANGED <<alike, upAt, rendering, post, clashed, idTask>>
    BY <1>4 DEF DeletesFile
  <2>5. PICK pc \in Listed : pc = "look"
    BY DEF Listed
  <2> QED BY <2>3, <2>4, <2>5, RowsMove
<1> QED BY <1>1, <1>2, <1>3, <1>4

(* The post and its creator task.                                          *)
LEMMA PostStep ==
    ASSUME UploadsInv,
           \/ \E files \in SUBSET Uploads, key \in SUBSET Uploads : Posts(files, key)
           \/ SchedulesPost \/ ResolvesFiles
    PROVE  UploadsInv'
<1>0. /\ UploadsType /\ PostSound /\ \A w \in Uploads : FileSound(w)
      /\ UNCHANGED <<alike, upFile, upAt, rendering, clashed>>
  BY DEF UploadsInv, Posts, SchedulesPost, ResolvesFiles
<1>1. /\ idTask' \in [Uploads -> IdTasks]
      /\ \A w \in Uploads :
           \/ idTask'[w] = idTask[w]
           \/ /\ idTask[w].pc = "due" /\ idTask'[w].pc = "taken"
              /\ idTask'[w].deps = idTask[w].deps
  <2>1. CASE UNCHANGED idTask
    BY <1>0, <2>1 DEF UploadsType
  <2>2. CASE SchedulesPost
    <3>1. \A w \in Uploads :
            LET r == [idTask[w] EXCEPT !.pc = "taken"]
            IN  r \in IdTasks /\ r.deps = idTask[w].deps /\ r.pc = "taken"
      BY <1>0 DEF UploadsType, IdTasks, IdTaskPlaces
    <3> QED BY <1>0, <2>2, <3>1 DEF SchedulesPost, IdTaskAt, UploadsType
  <2> QED BY <2>1, <2>2 DEF Posts, ResolvesFiles
<1>2. \A w \in Uploads : FileSound(w)' /\ (IdTaskEnded(w)' <=> IdTaskEnded(w))
  <2> SUFFICES ASSUME NEW w \in Uploads PROVE FileSound(w)' /\ (IdTaskEnded(w)' <=> IdTaskEnded(w))
    OBVIOUS
  <2>1. CASE idTask'[w] = idTask[w]
    BY <1>0, <2>1 DEF FileSound, OnItsWay, IdTaskEnded, Digest, Content
  <2>2. CASE /\ idTask[w].pc = "due" /\ idTask'[w].pc = "taken"
             /\ idTask'[w].deps = idTask[w].deps
    BY <1>0, <2>2 DEF FileSound, OnItsWay, IdTaskEnded, Listed, Digest, Content
  <2> QED BY <1>1, <2>1, <2>2
<1>3. UploadsType' /\ PostSound'
  <2>1. ASSUME NEW files \in SUBSET Uploads, NEW key \in SUBSET Uploads, Posts(files, key)
        PROVE  UploadsType' /\ PostSound'
    <3> DEFINE d == FileDeps(files)
    <3>1. /\ post' = [pc |-> "collected", files |-> files, deps |-> d, key |-> key,
                      shares |-> FALSE]
          /\ (\A w \in files : upAt[w] = "answered") /\ d \subseteq files
          /\ \A w \in files \ d : IdTaskEnded(w)
      BY <2>1 DEF Posts, FileDeps
    <3> HIDE DEF d
    <3>2. post' \in PostTypes /\ post'.files = files /\ post'.deps = d /\ post'.pc = "collected"
      BY <3>1 DEF PostTypes
    <3> QED BY <1>0, <1>1, <1>2, <3>1, <3>2 DEF UploadsType, PostSound
  <2>2. CASE SchedulesPost
    <3>1. PICK b \in BOOLEAN : post' = [post EXCEPT !.pc = "waiting", !.shares = b]
      BY <2>2 DEF SchedulesPost
    <3>2. post' \in PostTypes /\ post'.files = post.files /\ post'.deps = post.deps
          /\ post'.pc = "waiting" /\ post.pc = "collected"
      BY <1>0, <2>2, <3>1 DEF UploadsType, PostTypes, SchedulesPost
    <3>3. post.files \subseteq Uploads
      BY <1>0 DEF UploadsType, PostTypes
    <3> QED BY <1>0, <1>1, <1>2, <3>2, <3>3 DEF UploadsType, PostSound
  <2>3. CASE ResolvesFiles
    <3>1. /\ post'.files = post.files /\ post'.deps = post.deps /\ post' \in PostTypes
          /\ post'.pc \in {"resolved", "failed"} /\ post.files \subseteq Uploads
          /\ (post'.pc = "failed" => \E u \in post.files : upFile[u].id = NoId)
      BY <1>0, <2>3 DEF UploadsType, PostTypes, ResolvesFiles
    <3>2. \A u \in post.files : IdTaskEnded(u)
      BY <1>0, <2>3 DEF ResolvesFiles, PostSound
    <3> QED BY <1>0, <1>1, <1>2, <3>1, <3>2 DEF UploadsType, PostSound
  <2> QED BY <2>1, <2>2, <2>3
<1> QED BY <1>2, <1>3 DEF UploadsInv

(* A restart: handlers that have not answered are lost, and an id task     *)
(* begins again.                                                           *)
LEMMA UploadStop ==
    ASSUME UploadsInv, UploadStops PROVE UploadsInv'
<1>0. /\ UploadsType /\ PostSound /\ \A w \in Uploads : FileSound(w)
      /\ UNCHANGED <<alike, upFile, rendering, clashed>>
  BY DEF UploadsInv, UploadStops
<1>1. /\ idTask' \in [Uploads -> IdTasks]
      /\ \A w \in Uploads :
           /\ idTask'[w].deps = idTask[w].deps
           /\ \/ IdTaskEnded(w) /\ idTask'[w] = idTask[w]
              \/ /\ ~IdTaskEnded(w) /\ idTask'[w].pc \in {"due", "taken", "lost"}
  <2>1. \A w \in Uploads : idTask[w] \in IdTasks
    BY <1>0 DEF UploadsType
  <2>3. \A w \in Uploads :
          \/ (IdTaskEnded(w) \/ Displaced(w)) /\ idTask'[w] = idTask[w]
          \/ /\ ~IdTaskEnded(w)
             /\ \E pc \in {"due", "lost"} :
                  idTask'[w] = [idTask[w] EXCEPT !.pc = pc, !.listed = {}]
    BY DEF UploadStops
  <2>4. DOMAIN idTask' = Uploads /\ idTask' = [w \in Uploads |-> idTask'[w]]
    BY DEF UploadStops
  <2>5. ASSUME NEW w \in Uploads
        PROVE  /\ idTask'[w] \in IdTasks /\ idTask'[w].deps = idTask[w].deps
               /\ \/ IdTaskEnded(w) /\ idTask'[w] = idTask[w]
                  \/ ~IdTaskEnded(w) /\ idTask'[w].pc \in {"due", "taken", "lost"}
    <3>1. CASE (IdTaskEnded(w) \/ Displaced(w)) /\ idTask'[w] = idTask[w]
      BY <2>1, <3>1 DEF IdTaskEnded, Displaced
    <3>2. ASSUME ~IdTaskEnded(w), NEW pc \in {"due", "lost"},
                 idTask'[w] = [idTask[w] EXCEPT !.pc = pc, !.listed = {}]
          PROVE  /\ idTask'[w] \in IdTasks /\ idTask'[w].deps = idTask[w].deps
                 /\ idTask'[w].pc \in {"due", "lost"}
      <4>1. pc \in IdTaskPlaces /\ idTask[w] \in IdTasks
        BY <2>1 DEF IdTaskPlaces
      <4> QED BY <3>2, <4>1 DEF IdTasks
    <3> QED BY <2>3, <3>1, <3>2
  <2> QED BY <2>4, <2>5
<1>2. /\ upAt' \in [Uploads -> UploadPlaces]
      /\ \A w \in Uploads :
           (upAt'[w] = "answered" <=> upAt[w] = "answered") /\ (upAt'[w] = "idle" => upAt[w] = "idle")
  BY <1>0 DEF UploadStops, UploadsType, UploadPlaces
<1>3. post' \in PostTypes /\ (PostGoesOn \/ (post'.pc = "none" /\ post'.files = {}))
  <2>1. post' \in {post, NoPost, [post EXCEPT !.pc = "lost"]}
    BY DEF UploadStops
  <2>2. NoPost \in PostTypes /\ NoPost.pc = "none" /\ NoPost.files = {}
    BY DEF NoPost, PostTypes
  <2>3. LET p == [post EXCEPT !.pc = "lost"]
        IN  p \in PostTypes /\ p.pc = "lost" /\ p.files = post.files /\ p.deps = post.deps
    BY <1>0 DEF UploadsType, PostTypes
  <2> QED BY <1>0, <2>1, <2>2, <2>3 DEF UploadsType, PostGoesOn
<1>4. UploadsType'
  BY <1>0, <1>1, <1>2, <1>3 DEF UploadsType
<1>5. ASSUME NEW w \in Uploads PROVE FileSound(w)'
  <2>1. FileSound(w)
    BY <1>0
  <2> QED BY <1>0, <1>1, <1>2, <2>1
          DEF FileSound, OnItsWay, IdTaskEnded, Listed, Digest, Content
<1>6. PostSound'
  <2>1. CASE PostGoesOn
    <3>1. \A w \in Uploads : IdTaskEnded(w) => IdTaskEnded(w)'
      BY <1>1 DEF IdTaskEnded
    <3> QED BY <1>0, <1>2, <2>1, <3>1, PostKept
  <2>2. CASE post'.pc = "none" /\ post'.files = {}
    BY <2>2 DEF PostSound
  <2> QED BY <1>3, <2>1, <2>2
<1> QED BY <1>4, <1>5, <1>6 DEF UploadsInv

(* Every step keeps the invariant.                                         *)
LEMMA UploadsStep == UploadsInv /\ [UploadsNext]_uploadVars => UploadsInv'
<1> SUFFICES ASSUME UploadsInv, [UploadsNext]_uploadVars PROVE UploadsInv'
  OBVIOUS
<1>1. CASE UNCHANGED uploadVars
  BY <1>1 DEF uploadVars, UploadsInv, UploadsType, FileSound, PostSound, OnItsWay, IdTaskEnded,
              Digest, Content
<1>2. CASE UploadsNext
  <2>1. ASSUME NEW files \in SUBSET Uploads, NEW u \in Uploads,
               Posts(files, {}) \/ Posts(files, {u})
        PROVE  UploadsInv'
    <3>1. {} \in SUBSET Uploads /\ {u} \in SUBSET Uploads
      OBVIOUS
    <3> QED BY <2>1, <3>1, PostStep
  <2> QED BY <1>2, <2>1, HandlerStep, RenditionStep, IdTaskStep, RowsStep, PostStep, UploadStop
          DEF UploadsNext
<1> QED BY <1>1, <1>2

(* At the start no row is shared.                                          *)
LEMMA SharedInitial == UploadsInit => RowsShared
  BY DEF UploadsInit, RowsShared, Displaced, NoIdTask, NoPost

(* A step that displaces no task, and leaves the post or drops it.         *)
LEMMA NoneDisplaced ==
    ASSUME UploadsType, RowsShared, NEW u \in Uploads, DropsPost(u) \/ UNCHANGED post,
           \A w \in Uploads : Displaced(w)' => Displaced(w)
    PROVE  RowsShared'
<1>1. \/ UNCHANGED post
      \/ post'.pc = "lost" /\ post'.shares = TRUE /\ post'.key = post.key
  BY PostDropped
<1>2. CASE UNCHANGED post
  BY <1>2 DEF RowsShared, InSharedRow
<1>3. CASE post'.pc = "lost" /\ post'.shares = TRUE /\ post'.key = post.key
  BY <1>3 DEF RowsShared, InSharedRow
<1> QED BY <1>1, <1>2, <1>3

(* Tasks are displaced when the post is scheduled and by a restart, and    *)
(* then from a row that is shared.                                         *)
LEMMA SharedStep == UploadsInv /\ RowsShared /\ [UploadsNext]_uploadVars => RowsShared'
<1> SUFFICES ASSUME UploadsInv, RowsShared, [UploadsNext]_uploadVars PROVE RowsShared'
  OBVIOUS
<1>0. /\ UploadsType /\ post \in PostTypes
      /\ \A w \in Uploads : idTask[w] \in IdTasks
  BY DEF UploadsInv, UploadsType
<1>1. CASE UNCHANGED uploadVars
  BY <1>1 DEF uploadVars, RowsShared, Displaced, InSharedRow
<1>2. ASSUME NEW u \in Uploads,
             \/ CreatesRow(u) \/ RecordsOrig(u) \/ SkipsOrig(u)
             \/ SchedulesIdTask(u) \/ UploadFails(u) \/ DeletesFile(u)
             \/ ListsVariants(u) \/ FindsIt(u) \/ PurgesVariants(u) \/ PurgesRow(u)
             \/ SetsId(u) \/ IdRefused(u)
      PROVE  RowsShared'
  <2>1. DropsPost(u) \/ UNCHANGED post
    BY <1>2 DEF CreatesRow, RecordsOrig, SkipsOrig, SchedulesIdTask, UploadFails, DeletesFile,
                ListsVariants, FindsIt, PurgesVariants, PurgesRow, SetsId, IdRefused
  <2>2. \/ UNCHANGED idTask
        \/ \E pc \in {"due", "look", "purge variants", "purge", "update", "done", "failed"} :
             IdTaskTo(u, pc)
        \/ idTask' = [idTask EXCEPT ![u].pc = "look", ![u].listed = upFile[u].variants]
    BY <1>2 DEF CreatesRow, RecordsOrig, SkipsOrig, SchedulesIdTask, UploadFails, DeletesFile,
                ListsVariants, FindsIt, PurgesVariants, PurgesRow, SetsId, IdRefused, IdTaskTo
  <2>3. ASSUME NEW w \in Uploads, Displaced(w)' PROVE Displaced(w)
    <3>1. idTask[u] \in IdTasks /\ idTask \in [Uploads -> IdTasks]
      BY <1>0 DEF UploadsType
    <3>2. CASE UNCHANGED idTask
      BY <2>3, <3>2 DEF Displaced
    <3>3. ASSUME NEW pc \in {"due", "look", "purge variants", "purge", "update", "done",
                             "failed"},
                 idTask' = [idTask EXCEPT ![u] = [idTask[u] EXCEPT !.pc = pc]]
          PROVE  Displaced(w)
      BY <2>3, <3>1, <3>3 DEF IdTasks, Displaced
    <3>4. CASE idTask' = [idTask EXCEPT ![u] = [idTask[u] EXCEPT !.pc = "look",
                                                                 !.listed = upFile[u].variants]]
      BY <2>3, <3>1, <3>4 DEF IdTasks, Displaced
    <3> QED BY <2>2, <3>1, <3>2, <3>3, <3>4 DEF IdTaskTo
  <2> QED BY <1>0, <2>1, <2>3, NoneDisplaced
<1>3. ASSUME NEW u \in Uploads, NEW v \in Renditions,
             AddsRendition(u, v) \/ Renders(u, v) \/ RenderFails(u, v)
      PROVE  RowsShared'
  <2>1. UNCHANGED post /\ \A w \in Uploads : Displaced(w)' => Displaced(w)
    BY <1>0, <1>3 DEF AddsRendition, Renders, RenderFails, UploadsType, IdTasks, Displaced
  <2> QED BY <1>0, <2>1, NoneDisplaced
<1>4. ASSUME NEW files, NEW key, Posts(files, key) PROVE RowsShared'
  <2>1. post.pc = "none" /\ ~post'.shares /\ post'.pc = "collected" /\ UNCHANGED idTask
    BY <1>4 DEF Posts, NoPost
  <2> QED BY <2>1 DEF RowsShared, InSharedRow, Displaced
<1>5. CASE SchedulesPost
  <2> DEFINE b == \E u \in post.key : ~IdTaskEnded(u)
  <2>1. /\ post.pc = "collected" /\ b \in BOOLEAN
        /\ post' = [post EXCEPT !.pc = "waiting", !.shares = b]
    BY <1>5 DEF SchedulesPost
  <2>2. post'.key = post.key /\ (post'.shares <=> b) /\ post'.pc = "waiting"
    BY <1>0, <2>1 DEF PostTypes
  <2>3. ASSUME NEW w \in Uploads, Displaced(w)' PROVE InSharedRow(w)'
    <3>1. ~Displaced(w)
      BY <2>1 DEF RowsShared, InSharedRow
    <3>2. w \in post.key /\ IdTaskAt(w, "due")
      BY <1>5, <2>3, <3>1 DEF SchedulesPost, Displaced
    <3>3. ~IdTaskEnded(w)
      BY <3>2 DEF IdTaskAt, IdTaskEnded
    <3> QED BY <2>2, <3>2, <3>3 DEF InSharedRow
  <2> QED BY <2>2, <2>3 DEF RowsShared
<1>6. CASE ResolvesFiles
  <2>1. /\ post'.key = post.key /\ post'.shares = post.shares /\ UNCHANGED idTask
        /\ post'.pc \in {"resolved", "failed"}
    BY <1>0, <1>6 DEF ResolvesFiles, PostTypes
  <2> QED BY <2>1 DEF RowsShared, InSharedRow, Displaced
<1>7. CASE UploadStops
  <2>1. ASSUME NEW w \in Uploads, Displaced(w)' PROVE InSharedRow(w)
    <3>1. CASE IdTaskEnded(w) \/ Displaced(w)
      BY <1>7, <2>1, <3>1 DEF UploadStops, RowsShared, Displaced
    <3>2. CASE ~(IdTaskEnded(w) \/ Displaced(w)) /\ ~InSharedRow(w)
      <4>1. idTask'[w] = [idTask[w] EXCEPT !.pc = "due", !.listed = {}]
        BY <1>7, <3>2 DEF UploadStops
      <4> QED BY <1>0, <2>1, <4>1 DEF IdTasks, Displaced
    <3> QED BY <3>1, <3>2
  <2>2. CASE post.pc = "collected"
    BY <1>7, <2>1, <2>2 DEF UploadStops, NoPost, RowsShared, InSharedRow
  <2>3. CASE post.pc # "collected"
    <3>1. /\ post'.key = post.key /\ post'.shares = post.shares
          /\ post'.pc = post.pc \/ (post'.pc = "lost" /\ post.shares)
      BY <1>0, <1>7, <2>3 DEF UploadStops, PostTypes
    <3> QED BY <2>1, <3>1 DEF RowsShared, InSharedRow
  <2> QED BY <2>2, <2>3
<1>8. CASE UploadsNext
  BY <1>2, <1>3, <1>4, <1>5, <1>6, <1>7, <1>8 DEF UploadsNext
<1> QED BY <1>1, <1>8

(* For any uploads, renditions and restarts: a live file's id is the       *)
(* digest of its variants, none that was answered for is left without an   *)
(* id, and a post fails only when a file of it can get none; the task of a *)
(* file or of a post is lost only from a row that the two share.           *)
THEOREM FilesIdentifiedCorrect == UploadsSpec => []FilesIdentified
<1>1. UploadsInv /\ RowsShared => FilesIdentified
  BY DEF UploadsInv, FileSound, PostSound, RowsShared, FilesIdentified
<1> QED BY <1>1, UploadsInitial, UploadsStep, SharedInitial, SharedStep, PTL DEF UploadsSpec

-----------------------------------------------------------------------------
(***************************************************************************)
(* Onboarding: the welcome mail is left, and to one task.                  *)
(***************************************************************************)

RegistrationPlaces ==
    {"idle", "issue", "retries", "hook", "queue", "send", "defer", "done", "lost"}
EarlyPlaces == {"none", "due", "issue", "hook", "flush", "clear", "ended"}

OnboardingType ==
    /\ cert \in BOOLEAN /\ marker \in BOOLEAN /\ mailDue \in BOOLEAN /\ mails \in Nat
    /\ forgone \in BOOLEAN /\ doubled \in BOOLEAN
    /\ registration \in RegistrationPlaces
    /\ early \in [EarlyRetries -> EarlyPlaces]

MailLeft == mailDue \/ mails > 0

(* What leads to the mail: until a registration came through there is      *)
(* neither mail nor marker; then the marker goes only after a mail was     *)
(* left; and whoever is in the hook has the certificate.                   *)
MailSound ==
    /\ registration # "done" =>
         ~marker /\ ~MailLeft /\ \A r \in EarlyRetries : early[r] \notin {"flush", "clear"}
    /\ registration = "done" => marker \/ MailLeft
    /\ \A r \in EarlyRetries :
         /\ early[r] \in {"hook", "flush", "clear"} => cert
         /\ early[r] = "clear" => MailLeft

(* Unless two hooks have read the marker, one that has read it is alone    *)
(* with it, and there is no mail yet.                                      *)
OneHook ==
    ~doubled =>
      /\ ~(mailDue /\ mails > 0) /\ mails <= 1
      /\ \A r \in EarlyRetries : early[r] = "flush" =>
           ~MailLeft /\ \A q \in EarlyRetries : early[q] = "flush" => q = r

OnItsWayToMail ==
    registration = "done" /\ ~forgone =>
      \/ MailLeft
      \/ marker /\ ~cert
      \/ \E r \in EarlyRetries : early[r] \in {"hook", "flush"}

OnboardingInv == OnboardingType /\ MailSound /\ OneHook /\ OnItsWayToMail

(* At the start no tenant is registered.                                   *)
LEMMA OnboardingInitial == OnboardingInit => OnboardingInv
<1> SUFFICES ASSUME OnboardingInit PROVE OnboardingInv
  OBVIOUS
<1>1. OnboardingType
  BY DEF OnboardingInit, OnboardingType, RegistrationPlaces, EarlyPlaces
<1>2. MailSound /\ OneHook /\ OnItsWayToMail
  BY DEF OnboardingInit, MailSound, OneHook, OnItsWayToMail, MailLeft
<1> QED BY <1>1, <1>2 DEF OnboardingInv

(* The registration.                                                       *)
LEMMA RegistrationStep ==
    ASSUME OnboardingInv,
           \/ CreatesTenant \/ IssuesAtCreation \/ IssueFailsAtCreation \/ HookAtCreation
           \/ LooksForCert \/ SendsNow \/ Defers \/ \E r \in EarlyRetries : SchedulesRetry(r)
    PROVE  OnboardingInv'
<1> USE DEF OnboardingInv, OnboardingType, MailSound, OneHook, OnItsWayToMail, MailLeft,
            RegistrationPlaces, EarlyPlaces, RegistrationTo, EarlyTo
<1>1. CASE CreatesTenant \/ IssueFailsAtCreation \/ HookAtCreation \/ LooksForCert
  BY <1>1 DEF CreatesTenant, IssueFailsAtCreation, HookAtCreation, LooksForCert
<1>2. CASE IssuesAtCreation
  BY <1>2 DEF IssuesAtCreation, AfterIssuing, FirstIssuance
<1>3. CASE SendsNow
  BY <1>3 DEF SendsNow
<1>4. CASE Defers
  BY <1>4 DEF Defers
<1>5. ASSUME NEW r \in EarlyRetries, SchedulesRetry(r) PROVE OnboardingInv'
  BY <1>5 DEF SchedulesRetry
<1> QED BY <1>1, <1>2, <1>3, <1>4, <1>5

(* The retries and the hook they call.                                     *)
LEMMA RetryStep ==
    ASSUME OnboardingInv, NEW r \in EarlyRetries,
           \/ RetryStarts(r) \/ RetryIssues(r) \/ RetryFails(r)
           \/ RetryReadsMarker(r) \/ RetryLeavesMail(r) \/ RetryClearsMarker(r)
    PROVE  OnboardingInv'
<1> USE DEF OnboardingInv, OnboardingType, MailSound, OneHook, OnItsWayToMail, MailLeft,
            RegistrationPlaces, EarlyPlaces, EarlyTo
<1>1. CASE RetryStarts(r) \/ RetryFails(r)
  BY <1>1 DEF RetryStarts, RetryFails
<1>2. CASE RetryIssues(r)
  BY <1>2 DEF RetryIssues, AfterIssuing, FirstIssuance
<1>3. CASE RetryReadsMarker(r)
  BY <1>3 DEF RetryReadsMarker, AfterLook, Flushing
<1>4. CASE RetryLeavesMail(r)
  BY <1>4 DEF RetryLeavesMail
<1>5. CASE RetryClearsMarker(r)
  BY <1>5 DEF RetryClearsMarker
<1> QED BY <1>1, <1>2, <1>3, <1>4, <1>5

(* The renewal, the mail, and a restart.                                   *)
LEMMA OthersStep ==
    ASSUME OnboardingInv,
           RenewalStarts \/ RenewalIssues \/ RenewalFails \/ SendsMail \/ OnboardingStop
    PROVE  OnboardingInv'
<1> USE DEF OnboardingInv, OnboardingType, MailSound, OneHook, OnItsWayToMail, MailLeft,
            RegistrationPlaces, EarlyPlaces
<1>1. CASE RenewalStarts \/ RenewalFails
  BY <1>1 DEF RenewalStarts, RenewalFails
<1>2. CASE RenewalIssues
  BY <1>2 DEF RenewalIssues
<1>3. CASE SendsMail
  <2>1. mailDue' = FALSE /\ mails' = mails + 1 /\ mails' > 0 /\ mails' \in Nat
        /\ UNCHANGED <<cert, registration, early, marker, forgone, doubled>>
    BY <1>3 DEF SendsMail
  <2>2. registration = "done" /\ MailLeft'
    BY <1>3, <2>1 DEF SendsMail
  <2>3. OnboardingType' /\ MailSound' /\ OnItsWayToMail'
    BY <2>1, <2>2
  <2>4. ~doubled => mails = 0 /\ \A r \in EarlyRetries : early[r] # "flush"
    BY <1>3 DEF SendsMail
  <2>5. OneHook'
    BY <2>1, <2>4
  <2> QED BY <2>3, <2>5
<1>4. CASE OnboardingStop
  BY <1>4 DEF OnboardingStop
<1> QED BY <1>1, <1>2, <1>3, <1>4

(* Every step keeps the invariant.                                         *)
LEMMA OnboardingStep == OnboardingInv /\ [OnboardingNext]_onboardingVars => OnboardingInv'
<1> SUFFICES ASSUME OnboardingInv, [OnboardingNext]_onboardingVars PROVE OnboardingInv'
  OBVIOUS
<1>1. CASE UNCHANGED onboardingVars
  BY <1>1 DEF onboardingVars, OnboardingInv, OnboardingType, MailSound, OneHook, OnItsWayToMail,
              MailLeft
<1>2. CASE OnboardingNext
  BY <1>2, RegistrationStep, RetryStep, OthersStep DEF OnboardingNext
<1> QED BY <1>1, <1>2

(* A registration that came through leaves its mail, and to one task, for  *)
(* any retries, renewals and restarts.                                     *)
THEOREM WelcomeCaredCorrect == OnboardingSpec => []WelcomeCared
<1>1. OnboardingInv => WelcomeCared
  BY DEF OnboardingInv, OnboardingType, OneHook, OnItsWayToMail, MailLeft, WelcomeCared
<1> QED BY <1>1, OnboardingInitial, OnboardingStep, PTL DEF OnboardingSpec

-----------------------------------------------------------------------------
(***************************************************************************)
(* BlobGC: what is named and synchronized is whole.                        *)
(***************************************************************************)

SyncPlaces == {"idle", "row", "probe", "found", "fetch", "stored", "finalize", "refer"}
GcPlaces == {"idle", "tenant", "referenced", "sweep", "stat", "recheck", "delete"}
FileRows == [st : {"none", "P", "A"}, created : Int, variant : BOOLEAN]
Syncs == [pc : SyncPlaces, first : BOOLEAN, isNew : BOOLEAN]
Collections == [pc : GcPlaces, cutoff : Int, left : SUBSET Tenants, tn : Tenants \cup {0}]

BlobType ==
    /\ day \in Nat /\ blob \in [there : BOOLEAN, mtime : Nat]
    /\ file \in [Tenants -> FileRows] /\ wanted \in [Tenants -> BOOLEAN]
    /\ sync \in [Tenants -> Syncs] /\ gc \in Collections /\ excepted \subseteq Tenants

(* A tenant that is not excepted: its file is named from the start of a    *)
(* synchronization that follows a reference, else at its end; it has a row *)
(* once it was looked up, and the variant's row once the blob is known to  *)
(* be in the store; and the blob is there for as long as a variant names   *)
(* it or the synchronization relies on it.                                 *)
TenantSound(t) ==
    t \notin excepted =>
      /\ sync[t].pc # "idle" => wanted[t] = sync[t].first
      /\ sync[t].pc = "idle" /\ wanted[t] => file[t].st # "none" /\ file[t].variant
      /\ file[t].st = "A" => file[t].variant
      /\ sync[t].pc \in {"probe", "found", "fetch", "stored"} => file[t].st = "P"
      /\ sync[t].pc \in {"finalize", "refer"} => file[t].st # "none" /\ file[t].variant
      /\ file[t].variant \/ sync[t].pc \in {"found", "stored"} => blob.there
      /\ sync[t].pc = "stored" => blob.mtime = day /\ gc.pc \notin {"recheck", "delete"}

(* The collection works with a cutoff that is the window back, removes the *)
(* row of a tenant that it found unnamed, and the blob only when no        *)
(* tenant's row names it; whoever changed that meanwhile is excepted.      *)
GcSound ==
    /\ gc.pc # "idle" => gc.cutoff <= day - SafetyWindow
    /\ gc.pc \in {"referenced", "sweep"} => gc.tn \in Tenants
    /\ gc.pc = "sweep" /\ gc.tn \notin excepted => ~wanted[gc.tn]
    /\ gc.pc = "delete" => \A t \in Tenants \ excepted : ~file[t].variant

BlobInv == BlobType /\ (\A t \in Tenants : TenantSound(t)) /\ GcSound

(* At the start there is no file, blob or collection.                      *)
LEMMA BlobInit == GcInit => BlobInv
<1> SUFFICES ASSUME GcInit PROVE BlobInv
  OBVIOUS
<1>1. NoFile \in FileRows /\ NoSync \in Syncs /\ NoGc \in Collections
  BY DEF NoFile, NoSync, NoGc, FileRows, Syncs, Collections, SyncPlaces, GcPlaces
<1>2. BlobType
  BY <1>1 DEF GcInit, BlobType
<1>3. (\A t \in Tenants : TenantSound(t)) /\ GcSound
  BY DEF GcInit, TenantSound, GcSound, NoFile, NoSync, NoGc
<1> QED BY <1>2, <1>3 DEF BlobInv

(* A step of one tenant's synchronization, which leaves the blob, or puts  *)
(* it into the store, and touches its own row only.                        *)
LEMMA TenantMoves ==
    ASSUME BlobInv, NEW t \in Tenants, NEW s \in Syncs, NEW f \in FileRows, NEW b \in BOOLEAN,
           UNCHANGED <<day, gc>>,
           sync' = [sync EXCEPT ![t] = s], file' = [file EXCEPT ![t] = f],
           wanted' = [wanted EXCEPT ![t] = b],
           excepted' \in {excepted, excepted \cup {t}},
           UNCHANGED blob \/ blob' = [there |-> TRUE, mtime |-> day],
           TenantSound(t)',
           gc.pc = "sweep" /\ gc.tn = t /\ t \notin excepted' => ~b,
           gc.pc = "delete" /\ t \notin excepted' => ~f.variant
    PROVE  BlobInv'
<1>0. BlobType /\ GcSound /\ \A u \in Tenants : TenantSound(u)
  BY DEF BlobInv
<1>1. BlobType'
  <2>0. [there |-> TRUE, mtime |-> day] \in [there : BOOLEAN, mtime : Nat] /\ day' \in Nat
    BY <1>0 DEF BlobType
  <2>1. blob' \in [there : BOOLEAN, mtime : Nat]
    BY <1>0, <2>0 DEF BlobType
  <2>2. /\ file' \in [Tenants -> FileRows] /\ wanted' \in [Tenants -> BOOLEAN]
        /\ sync' \in [Tenants -> Syncs]
    BY <1>0 DEF BlobType
  <2>3. gc' \in Collections /\ excepted' \subseteq Tenants
    BY <1>0 DEF BlobType
  <2> QED BY <2>0, <2>1, <2>2, <2>3 DEF BlobType
<1>2. ASSUME NEW u \in Tenants PROVE TenantSound(u)'
  <2>1. CASE u # t
    <3>1. /\ sync'[u] = sync[u] /\ file'[u] = file[u] /\ wanted'[u] = wanted[u]
          /\ (u \in excepted' <=> u \in excepted)
      BY <1>0, <2>1 DEF BlobType
    <3>2. (blob.there => blob'.there) /\ (blob.mtime = day => blob'.mtime = day')
      BY <1>0 DEF BlobType
    <3>3. TenantSound(u)
      BY <1>0
    <3> QED BY <3>1, <3>2, <3>3 DEF TenantSound
  <2> QED BY <2>1
<1>3. GcSound'
  <2>1. /\ \A u \in Tenants \ {t} : file'[u] = file[u] /\ wanted'[u] = wanted[u]
        /\ file'[t] = f /\ wanted'[t] = b /\ excepted \subseteq excepted'
    BY <1>0 DEF BlobType
  <2> QED BY <1>0, <2>1 DEF GcSound
<1> QED BY <1>1, <1>2, <1>3 DEF BlobInv

(* The steps of a synchronization.                                         *)
LEMMA SyncStep ==
    ASSUME BlobInv, NEW t \in Tenants,
           \/ \E first \in BOOLEAN : StartsSync(t, first)
           \/ FindsFile(t) \/ CreatesFile(t) \/ MatchesOther(t) \/ ProbesBlob(t)
           \/ FetchesBlob(t) \/ FetchFails(t) \/ CreatesVariant(t) \/ VariantFails(t)
           \/ FinalizesFile(t) \/ Refers(t) \/ DropsReference(t)
    PROVE  BlobInv'
<1>0. /\ BlobType /\ GcSound /\ TenantSound(t)
      /\ sync[t] \in Syncs /\ file[t] \in FileRows /\ wanted[t] \in BOOLEAN
      /\ file = [file EXCEPT ![t] = file[t]] /\ wanted = [wanted EXCEPT ![t] = wanted[t]]
      /\ sync = [sync EXCEPT ![t] = sync[t]]
      /\ TRUE \in BOOLEAN /\ FALSE \in BOOLEAN /\ NoSync \in Syncs
  BY DEF BlobInv, BlobType, NoSync, Syncs, SyncPlaces
<1>p. \A pc \in SyncPlaces : [sync[t] EXCEPT !.pc = pc] \in Syncs
  BY <1>0 DEF Syncs
<1>1. ASSUME NEW first \in BOOLEAN, StartsSync(t, first) PROVE BlobInv'
  <2> DEFINE s == [pc |-> "row", first |-> first, isNew |-> FALSE]
  <2>1. s \in Syncs /\ s.pc = "row" /\ s.first = first
    BY DEF Syncs, SyncPlaces
  <2> HIDE DEF s
  <2>2. /\ sync' = [sync EXCEPT ![t] = s] /\ file' = [file EXCEPT ![t] = file[t]]
        /\ wanted' = [wanted EXCEPT ![t] = first] /\ sync'[t] = s /\ wanted'[t] = first
        /\ UNCHANGED <<day, gc, blob, file>> /\ ~wanted[t]
    BY <1>0, <1>1 DEF StartsSync, BlobType, s
  <2>3. excepted' \in {excepted, excepted \cup {t}} /\ (first /\ ToBeSwept(t) => t \in excepted')
    BY <1>1 DEF StartsSync
  <2>4. TenantSound(t)'
    BY <1>0, <2>1, <2>2, <2>3 DEF TenantSound
  <2>5. /\ gc.pc = "sweep" /\ gc.tn = t /\ t \notin excepted' => ~first
        /\ gc.pc = "delete" /\ t \notin excepted' => ~file[t].variant
    BY <1>0, <2>3 DEF ToBeSwept, GcSound
  <2> QED BY <1>0, <2>1, <2>2, <2>3, <2>4, <2>5, TenantMoves
<1>2. CASE FindsFile(t) \/ ProbesBlob(t)
  <2>1. PICK pc \in {"refer", "probe", "found", "fetch"} :
          /\ SyncTo(t, pc) /\ (pc = "refer" => file[t].st # "none" /\ file[t].variant)
          /\ (pc = "found" => blob.there)
          /\ (pc # "refer" /\ t \notin excepted => file[t].st = "P")
    <3>1. CASE FindsFile(t)
      <4>1. t \notin excepted /\ ~file[t].variant => file[t].st = "P"
        BY <1>0, <3>1 DEF FindsFile, TenantSound, FileRows
      <4> QED BY <3>1, <4>1 DEF FindsFile
    <3>2. CASE ProbesBlob(t)
      BY <1>0, <3>2 DEF ProbesBlob, TenantSound, AtSync
    <3> QED BY <1>2, <3>1, <3>2
  <2> DEFINE s == [sync[t] EXCEPT !.pc = pc]
  <2>2. s \in Syncs /\ s.pc = pc /\ s.first = sync[t].first
    BY <1>0, <1>p DEF Syncs, SyncPlaces
  <2>3. sync' = [sync EXCEPT ![t] = s] /\ sync'[t] = s
    BY <1>0, <2>1 DEF SyncTo, BlobType
  <2>4. UNCHANGED <<day, gc, blob, file, wanted, excepted>> /\ sync[t].pc \in {"row", "probe"}
    BY <1>2 DEF FindsFile, ProbesBlob, AtSync
  <2> HIDE DEF s
  <2>5. TenantSound(t)'
    BY <1>0, <2>1, <2>2, <2>3, <2>4 DEF TenantSound
  <2>6. /\ gc.pc = "sweep" /\ gc.tn = t /\ t \notin excepted' => ~wanted[t]
        /\ gc.pc = "delete" /\ t \notin excepted' => ~file[t].variant
    BY <1>0, <2>4 DEF GcSound
  <2> QED BY <1>0, <2>2, <2>3, <2>4, <2>5, <2>6, TenantMoves
<1>3. CASE CreatesFile(t)
  <2>1. PICK created \in {LongBefore, day} :
          file' = [file EXCEPT ![t] = [st |-> "P", created |-> created, variant |-> FALSE]]
    BY <1>3 DEF CreatesFile
  <2> DEFINE f == [st |-> "P", created |-> created, variant |-> FALSE]
             s == [sync[t] EXCEPT !.pc = "probe", !.isNew = TRUE]
  <2>2. f \in FileRows /\ f.st = "P" /\ ~f.variant
    BY <1>0, GcBounds DEF FileRows, LongBefore, BlobType
  <2>3. s \in Syncs /\ s.pc = "probe" /\ s.first = sync[t].first
    BY <1>0 DEF Syncs, SyncPlaces
  <2>4. /\ sync' = [sync EXCEPT ![t] = s] /\ file' = [file EXCEPT ![t] = f]
        /\ sync'[t] = s /\ file'[t] = f
        /\ UNCHANGED <<day, gc, blob, wanted, excepted>> /\ sync[t].pc = "row"
    BY <1>0, <1>3, <2>1 DEF CreatesFile, BlobType, AtSync
  <2> HIDE DEF s, f
  <2>5. TenantSound(t)'
    BY <1>0, <2>2, <2>3, <2>4 DEF TenantSound
  <2>6. gc.pc = "sweep" /\ gc.tn = t /\ t \notin excepted' => ~wanted[t]
    BY <1>0, <2>4 DEF GcSound
  <2> QED BY <1>0, <2>2, <2>3, <2>4, <2>5, <2>6, TenantMoves
<1>4. CASE FetchesBlob(t)
  <2> DEFINE s == [sync[t] EXCEPT !.pc = "stored"]
  <2>2. s \in Syncs /\ s.pc = "stored" /\ s.first = sync[t].first
    BY <1>0 DEF Syncs, SyncPlaces
  <2>3. sync' = [sync EXCEPT ![t] = s] /\ sync'[t] = s
    BY <1>0, <1>4 DEF FetchesBlob, SyncTo, BlobType
  <2>4. /\ UNCHANGED <<day, gc, file, wanted>> /\ sync[t].pc = "fetch"
        /\ blob' = [there |-> TRUE, mtime |-> day] /\ blob'.there /\ blob'.mtime = day
        /\ excepted' \in {excepted, excepted \cup {t}}
        /\ (gc.pc \in {"recheck", "delete"} => t \in excepted')
    BY <1>4 DEF FetchesBlob, AtSync
  <2> HIDE DEF s
  <2>5. TenantSound(t)'
    BY <1>0, <2>2, <2>3, <2>4 DEF TenantSound
  <2>6. /\ gc.pc = "sweep" /\ gc.tn = t /\ t \notin excepted' => ~wanted[t]
        /\ gc.pc = "delete" /\ t \notin excepted' => ~file[t].variant
    BY <1>0, <2>4 DEF GcSound
  <2> QED BY <1>0, <2>2, <2>3, <2>4, <2>5, <2>6, TenantMoves
<1>5. CASE FetchFails(t)
  <2>1. PICK s \in Syncs :
          /\ sync' = [sync EXCEPT ![t] = s]
          /\ IF sync[t].first THEN s.pc = "row" /\ s.first = TRUE ELSE s.pc = "idle"
    <3>1. CASE sync[t].first
      <4> DEFINE s == [sync[t] EXCEPT !.pc = "row", !.isNew = FALSE]
      <4>1. s \in Syncs /\ s.pc = "row" /\ s.first = TRUE
        BY <1>0, <3>1 DEF Syncs, SyncPlaces
      <4>2. sync' = [sync EXCEPT ![t] = s]
        BY <1>0, <1>5, <3>1 DEF FetchFails, BlobType
      <4> QED BY <3>1, <4>1, <4>2
    <3>2. CASE ~sync[t].first
      <4>1. NoSync.pc = "idle" /\ sync' = [sync EXCEPT ![t] = NoSync]
        BY <1>0, <1>5, <3>2 DEF FetchFails, BlobType, NoSync
      <4> QED BY <1>0, <3>2, <4>1
    <3> QED BY <3>1, <3>2
  <2>2. /\ UNCHANGED <<day, gc, blob, file, wanted, excepted>> /\ sync[t].pc = "fetch"
        /\ sync'[t] = s
    BY <1>0, <1>5, <2>1 DEF FetchFails, AtSync, BlobType
  <2>5. TenantSound(t)'
    BY <1>0, <2>1, <2>2 DEF TenantSound, Syncs
  <2>6. /\ gc.pc = "sweep" /\ gc.tn = t /\ t \notin excepted' => ~wanted[t]
        /\ gc.pc = "delete" /\ t \notin excepted' => ~file[t].variant
    BY <1>0, <2>2 DEF GcSound
  <2> QED BY <1>0, <2>1, <2>2, <2>5, <2>6, TenantMoves
<1>6. CASE CreatesVariant(t)
  <2>1. PICK f \in FileRows :
          /\ file' = [file EXCEPT ![t] = f]
          /\ (file[t].st = "P" => f.st = "P" /\ f.variant) /\ (file[t].st # "P" => f = file[t])
    <3>1. CASE file[t].st = "P"
      <4> DEFINE f == [file[t] EXCEPT !.variant = TRUE]
      <4>1. f \in FileRows /\ f.st = "P" /\ f.variant
        BY <1>0, <3>1 DEF FileRows
      <4>2. file' = [file EXCEPT ![t] = f]
        BY <1>0, <1>6, <3>1 DEF CreatesVariant, BlobType
      <4> QED BY <3>1, <4>1, <4>2
    <3>2. CASE file[t].st # "P"
      BY <1>0, <1>6, <3>2 DEF CreatesVariant
    <3> QED BY <3>1, <3>2
  <2> DEFINE s == [sync[t] EXCEPT !.pc = "finalize"]
  <2>2. s \in Syncs /\ s.pc = "finalize" /\ s.first = sync[t].first
    BY <1>0 DEF Syncs, SyncPlaces
  <2>3. sync' = [sync EXCEPT ![t] = s] /\ sync'[t] = s /\ file'[t] = f
    BY <1>0, <1>6, <2>1 DEF CreatesVariant, SyncTo, BlobType
  <2>4. /\ UNCHANGED <<day, gc, blob, wanted>> /\ sync[t].pc \in {"found", "stored"}
        /\ excepted' \in {excepted, excepted \cup {t}} /\ (gc.pc = "delete" => t \in excepted')
    BY <1>6 DEF CreatesVariant
  <2> HIDE DEF s
  <2>5. TenantSound(t)'
    BY <1>0, <2>1, <2>2, <2>3, <2>4 DEF TenantSound
  <2>6. gc.pc = "sweep" /\ gc.tn = t /\ t \notin excepted' => ~wanted[t]
    BY <1>0, <2>4 DEF GcSound
  <2> QED BY <1>0, <2>1, <2>2, <2>3, <2>4, <2>5, <2>6, TenantMoves
<1>7. CASE FinalizesFile(t)
  <2>1. PICK f \in FileRows :
          /\ file' = [file EXCEPT ![t] = f] /\ f.variant = file[t].variant
          /\ (file[t].st # "none" => f.st # "none") /\ (f.st = "A" => file[t].st \in {"P", "A"})
    <3>1. CASE sync[t].isNew /\ file[t].st = "P"
      <4> DEFINE f == [file[t] EXCEPT !.st = "A"]
      <4>1. f \in FileRows /\ f.st = "A" /\ f.variant = file[t].variant
        BY <1>0, <3>1 DEF FileRows
      <4>2. file' = [file EXCEPT ![t] = f]
        BY <1>0, <1>7, <3>1 DEF FinalizesFile, BlobType
      <4> QED BY <3>1, <4>1, <4>2
    <3>2. CASE ~(sync[t].isNew /\ file[t].st = "P")
      BY <1>0, <1>7, <3>2 DEF FinalizesFile
    <3> QED BY <3>1, <3>2
  <2> DEFINE s == [sync[t] EXCEPT !.pc = "refer"]
  <2>2. s \in Syncs /\ s.pc = "refer" /\ s.first = sync[t].first
    BY <1>0 DEF Syncs, SyncPlaces
  <2>3. sync' = [sync EXCEPT ![t] = s] /\ sync'[t] = s /\ file'[t] = f
    BY <1>0, <1>7, <2>1 DEF FinalizesFile, SyncTo, BlobType
  <2>4. UNCHANGED <<day, gc, blob, wanted, excepted>> /\ sync[t].pc = "finalize"
    BY <1>7 DEF FinalizesFile, AtSync
  <2> HIDE DEF s
  <2>5. TenantSound(t)'
    BY <1>0, <2>1, <2>2, <2>3, <2>4 DEF TenantSound
  <2>6. /\ gc.pc = "sweep" /\ gc.tn = t /\ t \notin excepted' => ~wanted[t]
        /\ gc.pc = "delete" /\ t \notin excepted' => ~f.variant
    BY <1>0, <2>1, <2>4 DEF GcSound
  <2> QED BY <1>0, <2>1, <2>2, <2>3, <2>4, <2>5, <2>6, TenantMoves
<1>8. CASE Refers(t)
  <2>1. /\ sync' = [sync EXCEPT ![t] = NoSync] /\ wanted' = [wanted EXCEPT ![t] = TRUE]
        /\ sync'[t] = NoSync /\ wanted'[t] /\ NoSync.pc = "idle"
        /\ UNCHANGED <<day, gc, blob, file>> /\ sync[t].pc = "refer"
        /\ excepted' \in {excepted, excepted \cup {t}}
        /\ (~sync[t].first /\ ToBeSwept(t) => t \in excepted')
    BY <1>0, <1>8 DEF Refers, BlobType, NoSync, AtSync
  <2>2. TenantSound(t)'
    BY <1>0, <2>1 DEF TenantSound
  <2>3. ~(gc.pc = "sweep" /\ gc.tn = t /\ t \notin excepted')
    BY <1>0, <2>1 DEF GcSound, TenantSound, ToBeSwept
  <2>4. gc.pc = "delete" /\ t \notin excepted' => ~file[t].variant
    BY <1>0, <2>1 DEF GcSound
  <2> QED BY <1>0, <2>1, <2>2, <2>3, <2>4, TenantMoves
<1>9. CASE DropsReference(t)
  <2>1. /\ wanted' = [wanted EXCEPT ![t] = FALSE] /\ ~wanted'[t]
        /\ UNCHANGED <<day, gc, blob, file, sync, excepted>> /\ sync[t].pc = "idle"
    BY <1>0, <1>9 DEF DropsReference, BlobType, AtSync
  <2>2. TenantSound(t)'
    BY <1>0, <2>1 DEF TenantSound
  <2>4. gc.pc = "delete" /\ t \notin excepted' => ~file[t].variant
    BY <1>0, <2>1 DEF GcSound
  <2> QED BY <1>0, <2>1, <2>2, <2>4, TenantMoves
<1>10. CASE MatchesOther(t) \/ VariantFails(t)
  <2>1. PICK pc \in {"probe", "finalize"} : SyncTo(t, pc)
    BY <1>10 DEF MatchesOther, VariantFails
  <2> DEFINE s == [sync[t] EXCEPT !.pc = pc]
  <2>2. s \in Syncs
    BY <1>p DEF SyncPlaces
  <2>3. /\ sync' = [sync EXCEPT ![t] = s] /\ excepted' = excepted \cup {t}
        /\ UNCHANGED <<day, gc, blob, file, wanted>> /\ sync[t].pc # "idle"
    BY <1>0, <1>10, <2>1 DEF MatchesOther, VariantFails, SyncTo, BlobType, AtSync
  <2> HIDE DEF s
  <2>4. TenantSound(t)'
    BY <2>3 DEF TenantSound
  <2> QED BY <1>0, <2>2, <2>3, <2>4, TenantMoves
<1> QED BY <1>1, <1>2, <1>3, <1>4, <1>5, <1>6, <1>7, <1>8, <1>9, <1>10

(* The steps of the collection, and the clock.                             *)
LEMMA CollectionStep ==
    ASSUME BlobInv,
           \/ \E t \in Tenants : GcListsFiles(t)
           \/ GcStarts \/ GcListsReferenced \/ GcDeletesFile
           \/ GcListsBlobs \/ GcStatsBlob \/ GcRechecks \/ GcDeletesBlob \/ DayPasses
    PROVE  BlobInv'
<1>0. BlobType /\ GcSound /\ (\A u \in Tenants : TenantSound(u)) /\ gc \in Collections
      /\ SafetyWindow \in Nat \ {0} /\ NoGc \in Collections /\ NoGc.pc = "idle"
  BY GcBounds DEF BlobInv, BlobType, NoGc, Collections, GcPlaces
<1>1. ASSUME NEW g \in Collections, gc' = g,
             UNCHANGED <<day, blob, file, wanted, sync, excepted>>,
             g.pc # "idle" => g.cutoff <= day - SafetyWindow,
             g.pc \in {"referenced", "sweep"} => g.tn \in Tenants,
             g.pc = "sweep" => ~wanted[g.tn],
             g.pc \in {"recheck", "delete"} =>
                gc.pc \in {"recheck", "delete"} \/ blob.mtime < day,
             g.pc = "delete" => \A t \in Tenants : ~file[t].variant
      PROVE  BlobInv'
  <2>1. BlobType' /\ GcSound'
    BY <1>0, <1>1 DEF BlobType, GcSound
  <2>2. ASSUME NEW u \in Tenants PROVE TenantSound(u)'
    BY <1>0, <1>1 DEF TenantSound, BlobType
  <2> QED BY <2>1, <2>2 DEF BlobInv
<1>2. ASSUME NEW t \in Tenants, GcListsFiles(t) PROVE BlobInv'
  <2>1. PICK pc \in {"referenced", "tenant"}, tn \in Tenants \cup {0} :
          /\ gc' = [gc EXCEPT !.left = gc.left \ {t}, !.tn = tn, !.pc = pc]
          /\ (pc = "referenced" => tn \in Tenants)
    BY <1>2 DEF GcListsFiles
  <2> DEFINE g == [gc EXCEPT !.left = gc.left \ {t}, !.tn = tn, !.pc = pc]
  <2>2. g \in Collections /\ g.pc = pc /\ g.tn = tn /\ g.cutoff = gc.cutoff
    BY <1>0 DEF Collections, GcPlaces
  <2>3. gc.pc = "tenant" /\ UNCHANGED <<day, blob, file, wanted, sync, excepted>>
    BY <1>2 DEF GcListsFiles
  <2> HIDE DEF g
  <2>4. gc' = g
    BY <2>1 DEF g
  <2> QED BY <1>0, <1>1, <2>1, <2>2, <2>3, <2>4 DEF GcSound
<1>3. CASE GcStarts
  <2> DEFINE g == [NoGc EXCEPT !.pc = "tenant", !.cutoff = Cutoff, !.left = Tenants]
  <2>0. Cutoff \in Int /\ Cutoff = day - SafetyWindow
    BY <1>0 DEF Cutoff, BlobType
  <2>1. g \in Collections /\ g.pc = "tenant" /\ g.cutoff = day - SafetyWindow
    BY <1>0, <2>0 DEF Collections, GcPlaces
  <2>2. gc' = g /\ UNCHANGED <<day, blob, file, wanted, sync, excepted>>
    BY <1>3 DEF GcStarts
  <2> HIDE DEF g
  <2>3. g.cutoff <= day - SafetyWindow
    BY <1>0, <2>1 DEF BlobType
  <2> QED BY <1>1, <2>1, <2>2, <2>3
<1>4. ASSUME NEW pc \in GcPlaces, NEW tn \in Tenants \cup {0},
             gc' = [gc EXCEPT !.pc = pc, !.tn = tn] \/ gc' = NoGc,
             gc.pc # "idle", UNCHANGED <<day, blob, file, wanted, sync, excepted>>,
             pc \in {"referenced", "sweep"} => tn \in Tenants,
             pc = "sweep" => ~wanted[tn],
             pc \in {"recheck", "delete"} => gc.pc \in {"recheck", "delete"} \/ blob.mtime < day,
             pc = "delete" => \A t \in Tenants : ~file[t].variant
      PROVE  BlobInv'
  <2> DEFINE g == [gc EXCEPT !.pc = pc, !.tn = tn]
  <2>1. g \in Collections /\ g.pc = pc /\ g.tn = tn /\ g.cutoff = gc.cutoff
    BY <1>0 DEF Collections
  <2>2. gc' = g \/ gc' = NoGc
    BY <1>4
  <2> HIDE DEF g
  <2>3. CASE gc' = NoGc
    BY <1>0, <1>1, <1>4, <2>3
  <2>4. CASE gc' = g
    <3>1. g.pc # "idle" => g.cutoff <= day - SafetyWindow
      BY <1>0, <1>4, <2>1 DEF GcSound
    <3> QED BY <1>1, <1>4, <2>1, <2>4, <3>1
  <2> QED BY <2>2, <2>3, <2>4
<1>5. gc.tn \in Tenants \cup {0} /\ gc = [gc EXCEPT !.tn = gc.tn]
  BY <1>0 DEF Collections
<1>6. CASE GcListsReferenced
  <2>1. gc.pc = "referenced" /\ gc.tn \in Tenants
        /\ UNCHANGED <<day, blob, file, wanted, sync, excepted>>
    BY <1>0, <1>6 DEF GcListsReferenced, GcSound
  <2>2. CASE wanted[gc.tn]
    <3>1. gc' = [gc EXCEPT !.pc = "tenant", !.tn = 0]
      BY <1>6, <2>2 DEF GcListsReferenced, NextTenant
    <3>2. PICK pc \in GcPlaces, tn \in Tenants \cup {0} : pc = "tenant" /\ tn = 0
      BY DEF GcPlaces
    <3> QED BY <1>4, <2>1, <3>1, <3>2
  <2>3. CASE ~wanted[gc.tn]
    <3>1. gc' = [gc EXCEPT !.pc = "sweep", !.tn = gc.tn]
      BY <1>0, <1>6, <2>3 DEF GcListsReferenced, Collections
    <3>2. PICK pc \in GcPlaces, tn \in Tenants \cup {0} : pc = "sweep" /\ tn = gc.tn
      BY <1>5 DEF GcPlaces
    <3> QED BY <1>4, <2>1, <2>3, <3>1, <3>2
  <2> QED BY <2>2, <2>3
<1>7. CASE GcListsBlobs \/ GcStatsBlob \/ GcRechecks
  <2>1. UNCHANGED <<day, blob, file, wanted, sync, excepted>> /\ gc.pc \in {"tenant", "stat", "recheck"}
    BY <1>7 DEF GcListsBlobs, GcStatsBlob, GcRechecks
  <2>2. PICK pc \in {"stat", "recheck", "delete"} :
          /\ gc' = [gc EXCEPT !.pc = pc] \/ gc' = NoGc
          /\ (pc = "recheck" => gc' = NoGc \/ blob.mtime < day)
          /\ (pc = "delete" => gc.pc = "recheck" /\ (gc' = NoGc \/ Orphan))
    <3>1. CASE GcListsBlobs
      BY <3>1 DEF GcListsBlobs
    <3>2. CASE GcStatsBlob
      <4>1. blob.mtime <= gc.cutoff => blob.mtime < day
        BY <1>0, <3>2 DEF GcStatsBlob, GcSound, BlobType, Collections
      <4> QED BY <3>2, <4>1 DEF GcStatsBlob
    <3>3. CASE GcRechecks
      BY <3>3 DEF GcRechecks, StillOrphan
    <3> QED BY <1>7, <3>1, <3>2, <3>3
  <2>3. CASE gc' = NoGc
    BY <1>0, <1>1, <2>1, <2>3
  <2>4. CASE gc' # NoGc
    <3>1. gc' = [gc EXCEPT !.pc = pc, !.tn = gc.tn] /\ pc \in GcPlaces
      BY <1>0, <2>2, <2>4 DEF Collections, GcPlaces
    <3>2. pc = "delete" => \A t \in Tenants : ~file[t].variant
      BY <2>2, <2>4 DEF Orphan
    <3> QED BY <1>4, <1>5, <2>1, <2>2, <2>4, <3>1, <3>2
  <2> QED BY <2>3, <2>4
<1>8. CASE GcDeletesFile
  <2> DEFINE t == gc.tn
             g == [gc EXCEPT !.pc = "tenant", !.tn = 0]
  <2>1. /\ t \in Tenants /\ file' = [file EXCEPT ![t] = NoFile] /\ gc' = g
        /\ UNCHANGED <<day, blob, wanted, sync>> /\ gc.pc = "sweep"
        /\ excepted' = IF sync[t].pc # "idle" THEN excepted \cup {t} ELSE excepted
    BY <1>0, <1>8 DEF GcDeletesFile, GcSound, NextTenant, AtSync
  <2>2. g \in Collections /\ g.pc = "tenant" /\ g.cutoff = gc.cutoff
    BY <1>0 DEF Collections, GcPlaces
  <2>3. NoFile \in FileRows /\ NoFile.st = "none" /\ ~NoFile.variant
    BY DEF NoFile, FileRows
  <2> HIDE DEF g
  <2>4. BlobType' /\ GcSound'
    BY <1>0, <2>1, <2>2, <2>3 DEF BlobType, GcSound
  <2>5. ASSUME NEW u \in Tenants PROVE TenantSound(u)'
    <3>0. TenantSound(u)
      BY <1>0
    <3>1. CASE u # t
      <4>1. file'[u] = file[u] /\ (u \in excepted' <=> u \in excepted)
        BY <1>0, <2>1, <3>1 DEF BlobType
      <4> QED BY <2>1, <2>2, <3>0, <4>1 DEF TenantSound
    <3>2. CASE u = t
      <4>1. file'[t] = NoFile /\ (t \notin excepted' => t \notin excepted /\ sync[t].pc = "idle")
        BY <1>0, <2>1 DEF BlobType
      <4>2. t \notin excepted => ~wanted[t]
        BY <1>0, <2>1 DEF GcSound
      <4> QED BY <2>1, <2>3, <3>2, <4>1, <4>2 DEF TenantSound
    <3> QED BY <3>1, <3>2
  <2> QED BY <2>4, <2>5 DEF BlobInv
<1>9. CASE GcDeletesBlob
  <2>1. /\ blob' = [there |-> FALSE, mtime |-> 0] /\ gc' = NoGc /\ gc.pc = "delete"
        /\ excepted' = excepted \cup {t \in Tenants : sync[t].pc = "found"}
        /\ UNCHANGED <<day, file, wanted, sync>>
    BY <1>9 DEF GcDeletesBlob, AtSync
  <2>2. BlobType' /\ GcSound'
    BY <1>0, <2>1 DEF BlobType, GcSound
  <2>3. ASSUME NEW u \in Tenants PROVE TenantSound(u)'
    <3>1. TenantSound(u) /\ (u \notin excepted => ~file[u].variant)
      BY <1>0, <2>1 DEF GcSound
    <3>2. u \notin excepted' => u \notin excepted /\ sync[u].pc # "found"
      BY <2>1
    <3> QED BY <2>1, <3>1, <3>2 DEF TenantSound
  <2> QED BY <2>2, <2>3 DEF BlobInv
<1>10. CASE DayPasses
  <2>1. /\ day' = day + 1 /\ \A t \in Tenants : sync[t].pc # "stored"
        /\ UNCHANGED <<blob, file, wanted, sync, gc, excepted>>
    BY <1>10 DEF DayPasses, AtSync
  <2>2. BlobType' /\ GcSound'
    BY <1>0, <2>1 DEF BlobType, GcSound, Collections
  <2>3. ASSUME NEW u \in Tenants PROVE TenantSound(u)'
    BY <1>0, <2>1 DEF TenantSound
  <2> QED BY <2>2, <2>3 DEF BlobInv
<1> QED BY <1>2, <1>3, <1>6, <1>7, <1>8, <1>9, <1>10

(* Every step keeps the invariant.                                         *)
LEMMA BlobStep == BlobInv /\ [GcNext]_gcVars => BlobInv'
<1> SUFFICES ASSUME BlobInv, [GcNext]_gcVars PROVE BlobInv'
  OBVIOUS
<1>1. CASE UNCHANGED gcVars
  BY <1>1 DEF gcVars, BlobInv, BlobType, TenantSound, GcSound
<1>2. CASE GcNext
  BY <1>2, SyncStep, CollectionStep DEF GcNext
<1> QED BY <1>1, <1>2

(* A file that is named and synchronized is whole, unless the collection   *)
(* has raced its tenant or a synchronization left it without a row, for    *)
(* any tenants and window.                                                 *)
THEOREM FilesWholeCorrect == GcSpec => []FilesWhole
<1>1. BlobInv => FilesWhole
  BY DEF BlobInv, TenantSound, FilesWhole, AtSync
<1> QED BY <1>1, BlobInit, BlobStep, PTL DEF GcSpec

-----------------------------------------------------------------------------
(***************************************************************************)
(* SearchIndex: when nothing is left to run, the index is right.           *)
(***************************************************************************)

RunPlaces == {"idle", "write row", "export", "forget", "write"}
Runs == [pc : RunPlaces, live : BOOLEAN, content : Nat]

SearchType ==
    /\ clock \in Nat /\ docVersion \in Nat /\ inTrash \in BOOLEAN /\ lastSent \in Int
    /\ spawned \subseteq IndexTasks /\ dueAt \in [IndexTasks -> Int]
    /\ runOf \in [Runners -> Runs] /\ rowF \in BOOLEAN /\ rowsD \in Nat
    /\ overtaken \in BOOLEAN
    /\ lastSent <= clock /\ runOf["document"].pc # "write row"

(* A task that was asked for and has not started since; a document task    *)
(* that cannot start before the clock moves; and the object task on its    *)
(* way to a row that is right.                                             *)
IsDue(k) == k \in spawned \/ dueAt[k] # Never
DocumentLater == "document" \in spawned \/ dueAt["document"] > clock
ObjectOnItsWay ==
    IsDue("object") \/ (runOf["object"].pc = "write row" /\ runOf["object"].live = ~inTrash)

(* While commits are throttled the task of an earlier one is still to come.*)
ThrottleSound ==
    \/ "document" \in spawned
    \/ dueAt["document"] >= lastSent + DEBOUNCE_SECS
    \/ clock >= lastSent + DEBOUNCE_SECS

(* A run that is about to remove parts of a live document, or to write old *)
(* ones: before the clock can move it has done so, and a later run comes.  *)
Spoils(r) ==
    \/ runOf[r].pc = "forget"
    \/ runOf[r].pc = "write" /\ runOf[r].content # docVersion
    \/ r \in IndexTasks /\ runOf[r].pc = "write row" /\ ~runOf[r].live

WritesCurrent(r) ==
    runOf[r].pc = "export" \/ (runOf[r].pc = "write" /\ runOf[r].content = docVersion)

RowSound ==
    ObjectOnItsWay \/ (rowF = ~inTrash /\ runOf["object"] = Idle)
TrashSound ==
    inTrash => \/ ObjectOnItsWay
               \/ rowsD = 0 /\ \A r \in Runners : ~AboutToWrite(r)
PartsSound ==
    ~inTrash =>
      /\ (\E r \in Runners : Spoils(r)) => DocumentLater
      /\ \/ IsDue("document") \/ rowsD = docVersion
         \/ \E r \in Runners : WritesCurrent(r)

SearchInv ==
    /\ SearchType /\ ThrottleSound
    /\ ~overtaken => RowSound /\ TrashSound /\ PartsSound

(* What a run looks like when it begins.                                   *)
LEMMA RunShapes ==
    /\ Idle \in Runs /\ Idle.pc = "idle"
    /\ inTrash \in BOOLEAN =>
         /\ WithRow \in Runs /\ WithRow.pc = "write row" /\ WithRow.live = ~inTrash
         /\ WithDocument \in Runs
         /\ WithDocument.pc = (IF inTrash THEN "forget" ELSE "export")
<1>1. Idle \in Runs /\ Idle.pc = "idle"
  BY DEF Idle, Runs, RunPlaces
<1>2. ASSUME inTrash \in BOOLEAN
      PROVE  WithRow \in Runs /\ WithRow.pc = "write row" /\ WithRow.live = ~inTrash
  <2> DEFINE alive == ~inTrash
  <2>1. alive \in BOOLEAN /\ WithRow = [Idle EXCEPT !.pc = "write row", !.live = alive]
    BY <1>2 DEF WithRow
  <2> HIDE DEF alive
  <2>2. WithRow \in Runs /\ WithRow.pc = "write row" /\ WithRow.live = alive
    BY <1>1, <2>1 DEF Runs, RunPlaces
  <2> QED BY <2>2 DEF alive
<1>3. ASSUME inTrash \in BOOLEAN
      PROVE  WithDocument \in Runs
             /\ WithDocument.pc = (IF inTrash THEN "forget" ELSE "export")
  <2> DEFINE alive == ~inTrash
             start == IF inTrash THEN "forget" ELSE "export"
  <2>1. /\ alive \in BOOLEAN /\ start \in RunPlaces
        /\ WithDocument = [Idle EXCEPT !.pc = IF alive THEN "export" ELSE "forget",
                                       !.live = alive]
    BY <1>3 DEF WithDocument, IndexableFile, RunPlaces
  <2>2. start = (IF alive THEN "export" ELSE "forget")
    BY <1>3
  <2> HIDE DEF alive, start
  <2>3. WithDocument \in Runs /\ WithDocument.pc = start
    BY <1>1, <2>1, <2>2 DEF Runs
  <2> QED BY <2>3 DEF start
<1> QED BY <1>1, <1>2, <1>3

(* At the start everything is indexed.                                     *)
LEMMA SearchInitial == SearchInit => SearchInv
<1> SUFFICES ASSUME SearchInit PROVE SearchInv
  OBVIOUS
<1>0. Idle \in Runs /\ Idle.pc = "idle" /\ "document" \in Runners /\ "object" \in Runners
  BY DEF Idle, Runs, RunPlaces, Runners, IndexTasks
<1>1. SearchType
  <2>1. LongAgo \in Int /\ LongAgo <= 0 /\ Never \in Int
    BY SearchTimes DEF LongAgo, Never
  <2> HIDE DEF SearchInit
  <2>2. /\ clock = 0 /\ docVersion = 1 /\ inTrash = FALSE /\ lastSent = LongAgo /\ spawned = {}
        /\ dueAt = [k \in IndexTasks |-> Never] /\ runOf = [r \in Runners |-> Idle]
        /\ rowF = TRUE /\ rowsD = 1 /\ overtaken = FALSE
    BY DEF SearchInit
  <2> QED BY <1>0, <2>1, <2>2 DEF SearchType
<1>2. ThrottleSound
  BY SearchTimes DEF SearchInit, ThrottleSound, LongAgo
<1>3. RowSound /\ TrashSound /\ PartsSound
  BY <1>0 DEF SearchInit, RowSound, TrashSound, PartsSound, Spoils
<1> QED BY <1>1, <1>2, <1>3 DEF SearchInv

(* The numbers of a state.                                                 *)
LEMMA SearchNumbers ==
    ASSUME SearchInv
    PROVE  /\ clock \in Nat /\ docVersion \in Nat /\ lastSent \in Int /\ lastSent <= clock
           /\ "document" \in IndexTasks /\ "object" \in IndexTasks
           /\ dueAt \in [IndexTasks -> Int]
           /\ \A k \in IndexTasks : dueAt[k] \in Int
           /\ dueAt["document"] > clock => dueAt["document"] # Never
           /\ THROTTLE_SECS \in Nat /\ OBJECT_DEBOUNCE_SECS \in Nat /\ DEBOUNCE_SECS \in Nat
           /\ THROTTLE_SECS < DEBOUNCE_SECS
<1>1. /\ clock \in Nat /\ docVersion \in Nat /\ lastSent \in Int /\ lastSent <= clock
      /\ dueAt \in [IndexTasks -> Int]
  BY DEF SearchInv, SearchType
<1>2. "document" \in IndexTasks /\ "object" \in IndexTasks
  BY DEF IndexTasks
<1>3. \A k \in IndexTasks : dueAt[k] \in Int
  BY <1>1
<1>4. dueAt["document"] > clock => dueAt["document"] # Never
  BY <1>1, <1>2, <1>3 DEF Never
<1> QED BY <1>1, <1>2, <1>3, <1>4, SearchTimes

(* A request for the document leaves one to come after the clock has moved.*)
LEMMA RequestLeaves ==
    ASSUME SearchInv, NEW also \in SUBSET IndexTasks, RequestsDocument(also),
           UNCHANGED <<clock, dueAt>>
    PROVE  /\ DocumentLater' /\ IsDue("document")' /\ ThrottleSound'
           /\ lastSent' \in Int /\ lastSent' <= clock
           /\ spawned' \subseteq IndexTasks /\ also \cup spawned \subseteq spawned'
<1>0. /\ clock \in Nat /\ lastSent \in Int /\ lastSent <= clock
      /\ "document" \in IndexTasks /\ dueAt["document"] \in Int
      /\ dueAt["document"] > clock => dueAt["document"] # Never
      /\ DEBOUNCE_SECS \in Nat /\ THROTTLE_SECS \in Nat /\ THROTTLE_SECS < DEBOUNCE_SECS
      /\ spawned \subseteq IndexTasks /\ ThrottleSound
  BY SearchNumbers DEF SearchInv, SearchType
<1>1. CASE Throttled
  <2>1. UNCHANGED lastSent /\ spawned' = spawned \cup also
    BY <1>1 DEF RequestsDocument
  <2>2. "document" \in spawned \/ dueAt["document"] > clock
    BY <1>0, <1>1 DEF Throttled, ThrottleSound
  <2> QED BY <1>0, <2>1, <2>2 DEF ThrottleSound, DocumentLater, IsDue
<1>2. CASE ~Throttled
  <2>1. lastSent' = clock /\ spawned' = (spawned \cup also) \cup {"document"}
    BY <1>2 DEF RequestsDocument
  <2> QED BY <1>0, <2>1 DEF ThrottleSound, DocumentLater, IsDue
<1> QED BY <1>1, <1>2

(* What changes the file.                                                  *)
LEMMA FileStep ==
    ASSUME SearchInv, CommitsEdit \/ MovesToTrash \/ RestoresFile
    PROVE  SearchInv'
<1>0. UNCHANGED <<clock, dueAt, runOf, rowF, rowsD, overtaken>>
      /\ "document" \in IndexTasks /\ "object" \in IndexTasks
  BY DEF CommitsEdit, MovesToTrash, RestoresFile, IndexTasks
<1>1. CASE CommitsEdit
  <2>1. /\ DocumentLater' /\ IsDue("document")' /\ ThrottleSound'
        /\ lastSent' \in Int /\ lastSent' <= clock
        /\ spawned' \subseteq IndexTasks /\ spawned \subseteq spawned'
    BY <1>0, <1>1, RequestLeaves DEF CommitsEdit
  <2>2. UNCHANGED inTrash /\ docVersion' \in Nat
    BY <1>1, SearchNumbers DEF CommitsEdit
  <2>3. SearchType'
    BY <1>0, <2>1, <2>2 DEF SearchInv, SearchType
  <2>4. ObjectOnItsWay => ObjectOnItsWay'
    BY <1>0, <2>1, <2>2 DEF ObjectOnItsWay, IsDue
  <2>5. ~overtaken' => RowSound' /\ TrashSound' /\ PartsSound'
    BY <1>0, <2>1, <2>2, <2>4 DEF SearchInv, RowSound, TrashSound, PartsSound, AboutToWrite
  <2> QED BY <2>1, <2>3, <2>5 DEF SearchInv
<1>2. CASE MovesToTrash
  <2>1. /\ inTrash' = TRUE /\ spawned' = spawned \cup {"object"}
        /\ UNCHANGED <<docVersion, lastSent>>
    BY <1>2 DEF MovesToTrash
  <2>2. SearchType' /\ ThrottleSound'
    BY <1>0, <2>1 DEF SearchInv, SearchType, ThrottleSound
  <2>3. ObjectOnItsWay'
    BY <2>1 DEF ObjectOnItsWay, IsDue
  <2> QED BY <2>1, <2>2, <2>3 DEF SearchInv, RowSound, TrashSound, PartsSound
<1>3. CASE RestoresFile
  <2>0. {"object"} \in SUBSET IndexTasks
    BY <1>0
  <2>1. /\ DocumentLater' /\ IsDue("document")' /\ ThrottleSound'
        /\ lastSent' \in Int /\ lastSent' <= clock
        /\ spawned' \subseteq IndexTasks /\ {"object"} \cup spawned \subseteq spawned'
    BY <1>0, <1>3, <2>0, RequestLeaves DEF RestoresFile
  <2>2. inTrash' = FALSE /\ UNCHANGED docVersion
    BY <1>3 DEF RestoresFile
  <2>3. SearchType'
    BY <1>0, <2>1, <2>2 DEF SearchInv, SearchType
  <2>4. ObjectOnItsWay'
    BY <2>1 DEF ObjectOnItsWay, IsDue
  <2> QED BY <2>1, <2>2, <2>3, <2>4 DEF SearchInv, RowSound, TrashSound, PartsSound
<1> QED BY <1>1, <1>2, <1>3

(* The scheduler, and the clock.                                           *)
LEMMA TaskStep ==
    ASSUME SearchInv,
           \/ SearchTicks \/ SweepLists
           \/ \E k \in IndexTasks : SpawnedSchedules(k) \/ StartsIndexTask(k)
    PROVE  SearchInv'
<1>0. UNCHANGED <<docVersion, inTrash, lastSent, rowF, rowsD, overtaken>>
      /\ "document" \in IndexTasks /\ "object" \in IndexTasks
      /\ "sweep" \in Runners /\ IndexTasks \subseteq Runners /\ "sweep" \notin IndexTasks
      /\ "document" # "object"
  BY DEF SearchTicks, SweepLists, SpawnedSchedules, StartsIndexTask, IndexTasks, Runners
<1>1. CASE SearchTicks
  <2>1. /\ clock' = clock + 1 /\ UNCHANGED <<spawned, dueAt, runOf>>
        /\ \A r \in Runners : runOf[r].pc \notin {"write", "forget"}
        /\ \A k \in IndexTasks : runOf[k].pc # "write row"
    BY <1>1 DEF SearchTicks
  <2>2. SearchType' /\ ThrottleSound'
    <3>1. SearchType'
      <4>1. clock + 1 \in Nat /\ lastSent <= clock + 1
        BY SearchNumbers
      <4> QED BY <1>0, <2>1, <4>1 DEF SearchInv, SearchType
    <3>2. ThrottleSound
      BY DEF SearchInv
    <3>3. \/ "document" \in spawned \/ dueAt["document"] >= lastSent + DEBOUNCE_SECS
          \/ clock + 1 >= lastSent + DEBOUNCE_SECS
      BY <3>2, SearchNumbers DEF ThrottleSound
    <3>4. ThrottleSound'
      BY <1>0, <2>1, <3>3 DEF ThrottleSound
    <3> QED BY <3>1, <3>4
  <2>3. \A r \in Runners : ~Spoils(r)'
    BY <1>0, <2>1 DEF Spoils
  <2>4. /\ ObjectOnItsWay' = ObjectOnItsWay /\ IsDue("document")' = IsDue("document")
        /\ \A r \in Runners : /\ AboutToWrite(r)' = AboutToWrite(r)
                              /\ WritesCurrent(r)' = WritesCurrent(r)
    BY <1>0, <2>1 DEF ObjectOnItsWay, IsDue, AboutToWrite, WritesCurrent
  <2>5. ~overtaken' => RowSound' /\ TrashSound' /\ PartsSound'
    BY <1>0, <2>1, <2>3, <2>4 DEF SearchInv, RowSound, TrashSound, PartsSound
  <2> QED BY <2>2, <2>5 DEF SearchInv
<1>2. CASE SweepLists
  <2>1. /\ WithRow \in Runs /\ WithRow.pc = "write row"
        /\ runOf["sweep"].pc = "idle"
        /\ runOf' = [runOf EXCEPT !["sweep"] = WithRow]
        /\ UNCHANGED <<clock, spawned, dueAt>>
    BY <1>2, RunShapes DEF SweepLists, SearchInv, SearchType
  <2>2. /\ runOf' \in [Runners -> Runs] /\ runOf'["sweep"].pc = "write row"
        /\ \A r \in Runners \ {"sweep"} : runOf'[r] = runOf[r]
    <3>1. runOf \in [Runners -> Runs]
      BY DEF SearchInv, SearchType
    <3>2. runOf'["sweep"] = WithRow
      BY <1>0, <2>1, <3>1
    <3> QED BY <1>0, <2>1, <3>1, <3>2
  <2>3. SearchType' /\ ThrottleSound'
    BY <1>0, <2>1, <2>2 DEF SearchInv, SearchType, ThrottleSound
  <2>4. /\ ObjectOnItsWay' = ObjectOnItsWay /\ IsDue("document")' = IsDue("document")
        /\ DocumentLater' = DocumentLater /\ runOf'["object"] = runOf["object"]
        /\ \A r \in Runners : /\ (AboutToWrite(r)' <=> AboutToWrite(r))
                              /\ (WritesCurrent(r)' <=> WritesCurrent(r))
                              /\ (Spoils(r)' <=> Spoils(r))
    <3>1. runOf'["object"] = runOf["object"] /\ "sweep" # "object"
      BY <1>0, <2>2
    <3>2. /\ ObjectOnItsWay' = ObjectOnItsWay /\ IsDue("document")' = IsDue("document")
          /\ DocumentLater' = DocumentLater
      BY <1>0, <2>1, <3>1 DEF ObjectOnItsWay, IsDue, DocumentLater
    <3>3. ASSUME NEW r \in Runners
          PROVE  /\ (AboutToWrite(r)' <=> AboutToWrite(r))
                 /\ (WritesCurrent(r)' <=> WritesCurrent(r)) /\ (Spoils(r)' <=> Spoils(r))
      <4>1. CASE r = "sweep"
        <5>1. runOf[r].pc = "idle" /\ runOf'[r].pc = "write row" /\ r \notin IndexTasks
          BY <1>0, <2>1, <2>2, <4>1
        <5>2. ~AboutToWrite(r)' /\ ~AboutToWrite(r) /\ ~WritesCurrent(r)' /\ ~WritesCurrent(r)
          BY <5>1 DEF AboutToWrite, WritesCurrent
        <5>3. ~Spoils(r)' /\ ~Spoils(r)
          BY <5>1 DEF Spoils
        <5> QED BY <5>2, <5>3
      <4>2. CASE r # "sweep"
        <5>1. runOf'[r] = runOf[r]
          BY <2>2, <4>2
        <5> QED BY <1>0, <5>1 DEF AboutToWrite, WritesCurrent, Spoils
      <4> QED BY <4>1, <4>2
    <3> QED BY <3>1, <3>2, <3>3
  <2>5. ~overtaken' => RowSound' /\ TrashSound' /\ PartsSound'
    BY <1>0, <2>4 DEF SearchInv, RowSound, TrashSound, PartsSound
  <2> QED BY <2>3, <2>5 DEF SearchInv
<1>3. ASSUME NEW k \in IndexTasks, SpawnedSchedules(k) PROVE SearchInv'
  <2>1. PICK due \in Int :
          /\ spawned' = spawned \ {k} /\ dueAt' = [dueAt EXCEPT ![k] = due]
          /\ due >= clock /\ (k = "document" => due = clock + DEBOUNCE_SECS)
    <3> DEFINE wait == IF k = "document" THEN DEBOUNCE_SECS ELSE OBJECT_DEBOUNCE_SECS
    <3>1. spawned' = spawned \ {k} /\ dueAt' = [dueAt EXCEPT ![k] = clock + wait]
      BY <1>3 DEF SpawnedSchedules
    <3>2. wait \in Nat /\ (k = "document" => wait = DEBOUNCE_SECS)
      BY SearchNumbers
    <3> HIDE DEF wait
    <3>3. clock + wait \in Int /\ clock + wait >= clock
      BY <3>2, SearchNumbers
    <3> QED BY <3>1, <3>2, <3>3
  <2>2. UNCHANGED <<clock, runOf>>
    BY <1>3 DEF SpawnedSchedules
  <2>3. SearchType'
    BY <1>0, <2>1, <2>2 DEF SearchInv, SearchType
  <2>4. /\ dueAt'[k] = due /\ \A j \in IndexTasks \ {k} : dueAt'[j] = dueAt[j]
        /\ due # Never
    BY <2>1, SearchNumbers DEF Never
  <2>5. ThrottleSound'
    <3>1. ThrottleSound
      BY DEF SearchInv
    <3>2. k = "document" \/ dueAt'["document"] = dueAt["document"]
      BY <1>0, <2>4
    <3>3. k = "document" => dueAt'["document"] = clock + DEBOUNCE_SECS
      BY <2>1, <2>4
    <3>4. ("document" \in spawned /\ k # "document") => "document" \in spawned'
      BY <2>1
    <3> QED BY <1>0, <2>2, <3>1, <3>2, <3>3, <3>4, SearchNumbers DEF ThrottleSound
  <2>6. /\ \A j \in IndexTasks : IsDue(j) => IsDue(j)'
        /\ DocumentLater => DocumentLater'
    <3>1. ASSUME NEW j \in IndexTasks, IsDue(j) PROVE IsDue(j)'
      BY <2>1, <2>4, <3>1 DEF IsDue
    <3>2. DEBOUNCE_SECS > 0
      BY SearchNumbers
    <3>3. ASSUME DocumentLater PROVE DocumentLater'
      <4>1. CASE k = "document"
        <5>1. dueAt'["document"] > clock
          BY <2>1, <2>4, <3>2, <4>1, SearchNumbers
        <5> QED BY <2>2, <5>1 DEF DocumentLater
      <4>2. CASE k # "document"
        BY <1>0, <2>1, <2>2, <2>4, <3>3, <4>2 DEF DocumentLater
      <4> QED BY <4>1, <4>2
    <3> QED BY <3>1, <3>3
  <2>7. /\ ObjectOnItsWay => ObjectOnItsWay'
        /\ \A r \in Runners : /\ AboutToWrite(r)' = AboutToWrite(r)
                              /\ WritesCurrent(r)' = WritesCurrent(r)
                              /\ Spoils(r)' = Spoils(r)
    BY <1>0, <2>2, <2>6 DEF ObjectOnItsWay, AboutToWrite, WritesCurrent, Spoils
  <2>8. ~overtaken' => RowSound' /\ TrashSound' /\ PartsSound'
    BY <1>0, <2>2, <2>6, <2>7 DEF SearchInv, RowSound, TrashSound, PartsSound
  <2> QED BY <2>3, <2>5, <2>8 DEF SearchInv
<1>4. CASE StartsIndexTask("document")
  <2>1. /\ dueAt' = [dueAt EXCEPT !["document"] = Never] /\ dueAt["document"] <= clock
        /\ runOf' = [runOf EXCEPT !["document"] = WithDocument]
        /\ UNCHANGED <<clock, spawned>> /\ runOf["document"] = Idle
    BY <1>4 DEF StartsIndexTask
  <2>2. /\ WithDocument \in Runs /\ WithDocument.pc = (IF inTrash THEN "forget" ELSE "export")
    BY RunShapes DEF SearchInv, SearchType
  <2>3. /\ runOf' \in [Runners -> Runs] /\ runOf'["document"] = WithDocument
        /\ \A r \in Runners \ {"document"} : runOf'[r] = runOf[r]
        /\ dueAt' \in [IndexTasks -> Int] /\ dueAt'["object"] = dueAt["object"]
        /\ dueAt'["document"] = Never
    <3>0. Never \in Int
      BY DEF Never
    <3>1. runOf \in [Runners -> Runs]
      BY DEF SearchInv, SearchType
    <3> QED BY <1>0, <2>1, <2>2, <3>0, <3>1, SearchNumbers
  <2>4. SearchType'
    BY <1>0, <2>1, <2>2, <2>3 DEF SearchInv, SearchType
  <2>5. ThrottleSound'
    <3>1. ThrottleSound
      BY DEF SearchInv
    <3>2. "document" \in spawned \/ clock >= lastSent + DEBOUNCE_SECS
      BY <2>1, <3>1, SearchNumbers DEF ThrottleSound
    <3> QED BY <1>0, <2>1, <3>2 DEF ThrottleSound
  <2>6. DocumentLater => "document" \in spawned
    BY <2>1, SearchNumbers DEF DocumentLater
  <2>7. /\ ObjectOnItsWay' = ObjectOnItsWay /\ runOf'["object"] = runOf["object"]
    BY <1>0, <2>1, <2>3 DEF ObjectOnItsWay, IsDue
  <2>8. /\ inTrash => \A r \in Runners : AboutToWrite(r)' => AboutToWrite(r)
        /\ ~inTrash => /\ WritesCurrent("document")'
                       /\ \A r \in Runners : Spoils(r)' => Spoils(r)
    BY <1>0, <2>1, <2>2, <2>3 DEF AboutToWrite, WritesCurrent, Spoils
  <2>9. ~overtaken' => RowSound' /\ TrashSound' /\ PartsSound'
    BY <1>0, <2>1, <2>6, <2>7, <2>8
    DEF SearchInv, RowSound, TrashSound, PartsSound, DocumentLater
  <2> QED BY <2>4, <2>5, <2>9 DEF SearchInv
<1>5. CASE StartsIndexTask("object")
  <2>1. /\ dueAt' = [dueAt EXCEPT !["object"] = Never]
        /\ runOf' = [runOf EXCEPT !["object"] = WithRow]
        /\ UNCHANGED <<clock, spawned>> /\ runOf["object"] = Idle /\ Idle.pc = "idle"
    BY <1>0, <1>5 DEF StartsIndexTask, Idle
  <2>2. WithRow \in Runs /\ WithRow.pc = "write row" /\ WithRow.live = ~inTrash
    BY RunShapes DEF SearchInv, SearchType
  <2>3. /\ runOf' \in [Runners -> Runs] /\ runOf'["object"] = WithRow
        /\ \A r \in Runners \ {"object"} : runOf'[r] = runOf[r]
        /\ dueAt' \in [IndexTasks -> Int] /\ dueAt'["document"] = dueAt["document"]
    <3>0. Never \in Int
      BY DEF Never
    <3>1. runOf \in [Runners -> Runs]
      BY DEF SearchInv, SearchType
    <3> QED BY <1>0, <2>1, <2>2, <3>0, <3>1, SearchNumbers
  <2>4. SearchType' /\ ThrottleSound'
    BY <1>0, <2>1, <2>2, <2>3 DEF SearchInv, SearchType, ThrottleSound
  <2>5. ObjectOnItsWay'
    BY <1>0, <2>2, <2>3 DEF ObjectOnItsWay
  <2>6. /\ IsDue("document")' = IsDue("document") /\ DocumentLater' = DocumentLater
        /\ ~inTrash => \A r \in Runners : /\ Spoils(r)' => Spoils(r)
                                          /\ WritesCurrent(r) => WritesCurrent(r)'
    BY <1>0, <2>1, <2>2, <2>3 DEF IsDue, DocumentLater, Spoils, WritesCurrent
  <2>7. ~overtaken' => RowSound' /\ TrashSound' /\ PartsSound'
    BY <1>0, <2>5, <2>6 DEF SearchInv, RowSound, TrashSound, PartsSound
  <2> QED BY <2>4, <2>7 DEF SearchInv
<1> QED BY <1>1, <1>2, <1>3, <1>4, <1>5 DEF IndexTasks

(* The runs.                                                               *)
LEMMA RunStep ==
    ASSUME SearchInv, NEW r \in Runners,
           WritesRow(r) \/ ExportsDocument(r) \/ WritesParts(r)
    PROVE  SearchInv'
<1>0. UNCHANGED <<clock, docVersion, inTrash, lastSent, spawned, dueAt>>
      /\ "document" \in IndexTasks /\ "object" \in IndexTasks
      /\ "sweep" \in Runners /\ IndexTasks \subseteq Runners /\ "sweep" \notin IndexTasks
      /\ "document" # "object" /\ runOf[r] \in Runs /\ Idle \in Runs /\ Idle.pc = "idle"
      /\ Runners = {"document", "object", "sweep"}
  BY RunShapes DEF WritesRow, ExportsDocument, WritesParts, IndexTasks, Runners, SearchInv,
                   SearchType
<1>1. /\ IsDue("document")' = IsDue("document") /\ DocumentLater' = DocumentLater
      /\ IsDue("object")' = IsDue("object") /\ ThrottleSound' = ThrottleSound
  BY <1>0 DEF IsDue, DocumentLater, ThrottleSound
<1>2. CASE WritesRow(r)
  <2>1. /\ runOf[r].pc = "write row" /\ rowF' = runOf[r].live
        /\ rowsD' = (IF runOf[r].live THEN rowsD ELSE 0)
        /\ runOf' = [runOf EXCEPT ![r] = IF r = "sweep" THEN WithDocument ELSE Idle]
        /\ r # "document"
    BY <1>2 DEF WritesRow, SearchInv, SearchType
  <2>2. ~overtaken' =>
          /\ ~overtaken
          /\ ~runOf[r].live => \A q \in Runners \ {r} : ~AboutToWrite(q)
          /\ r = "sweep" => runOf[r].live = ~inTrash
    BY <1>0, <1>2 DEF WritesRow, Runs, SearchInv, SearchType
  <2>3. /\ WithDocument \in Runs /\ WithDocument.pc = (IF inTrash THEN "forget" ELSE "export")
    BY RunShapes DEF SearchInv, SearchType
  <2>4. /\ runOf' \in [Runners -> Runs]
        /\ runOf'[r] = (IF r = "sweep" THEN WithDocument ELSE Idle)
        /\ \A q \in Runners \ {r} : runOf'[q] = runOf[q]
    BY <1>0, <2>1, <2>3 DEF SearchInv, SearchType
  <2>5. overtaken' \in BOOLEAN /\ rowF' \in BOOLEAN /\ rowsD' \in Nat
    <3>1. overtaken' \in BOOLEAN
      BY <1>2 DEF WritesRow
    <3>2. rowF' \in BOOLEAN
      BY <1>0, <2>1 DEF Runs
    <3>3. rowsD' \in Nat
      BY <2>1 DEF SearchInv, SearchType
    <3> QED BY <3>1, <3>2, <3>3
  <2>6. SearchType'
    BY <1>0, <2>1, <2>4, <2>5 DEF SearchInv, SearchType
  <2>7. ASSUME ~overtaken' PROVE RowSound' /\ TrashSound' /\ PartsSound'
    <3>1. RowSound /\ TrashSound /\ PartsSound
      BY <2>2, <2>7 DEF SearchInv
    <3>2. CASE r = "sweep"
      <4>1. runOf'["object"] = runOf["object"] /\ ObjectOnItsWay' = ObjectOnItsWay
            /\ rowF' = ~inTrash
        BY <1>0, <1>1, <2>1, <2>2, <2>4, <2>7, <3>2 DEF ObjectOnItsWay
      <4>2. RowSound'
        BY <1>0, <3>1, <4>1 DEF RowSound
      <4>3. inTrash => rowsD' = 0 /\ \A q \in Runners : ~AboutToWrite(q)'
        BY <1>0, <2>1, <2>2, <2>3, <2>4, <2>7, <3>2 DEF AboutToWrite, Runs
      <4>4. ~inTrash => WritesCurrent("sweep")' /\ \A q \in Runners : Spoils(q)' => Spoils(q)
        BY <1>0, <2>3, <2>4, <3>2 DEF WritesCurrent, Spoils
      <4> QED BY <1>0, <1>1, <3>1, <4>2, <4>3, <4>4 DEF TrashSound, PartsSound
    <3>3. CASE r = "object"
      <4>1. runOf'["object"] = Idle /\ (IsDue("object") \/ runOf["object"].live = ~inTrash)
        BY <1>0, <2>1, <2>4, <3>1, <3>3 DEF RowSound, ObjectOnItsWay
      <4>2. RowSound'
        BY <1>0, <1>1, <2>1, <3>3, <4>1 DEF RowSound, ObjectOnItsWay
      <4>3. inTrash => \/ ObjectOnItsWay'
                       \/ rowsD' = 0 /\ \A q \in Runners : ~AboutToWrite(q)'
        <5>1. ASSUME inTrash, ~IsDue("object")
              PROVE  rowsD' = 0 /\ \A q \in Runners : ~AboutToWrite(q)'
          <6>1. ~runOf["object"].live
            BY <4>1, <5>1
          <6>2. \A q \in Runners \ {r} : ~AboutToWrite(q)
            BY <2>2, <2>7, <3>3, <6>1
          <6> QED BY <1>0, <2>1, <2>4, <3>3, <4>1, <6>1, <6>2 DEF AboutToWrite
        <5> QED BY <1>0, <1>1, <5>1 DEF ObjectOnItsWay
      <4>4. \A q \in Runners : /\ Spoils(q)' => Spoils(q)
                               /\ WritesCurrent(q) => WritesCurrent(q)'
        BY <1>0, <2>1, <2>4, <3>3, <4>1 DEF Spoils, WritesCurrent
      <4>5. ~inTrash /\ ~runOf["object"].live => IsDue("document")
        <5>1. ~inTrash /\ ~runOf["object"].live => DocumentLater
          BY <1>0, <2>1, <3>1, <3>3 DEF PartsSound, Spoils
        <5> QED BY <5>1, SearchNumbers DEF DocumentLater, IsDue
      <4> QED BY <1>0, <1>1, <2>1, <3>1, <3>3, <4>2, <4>3, <4>4, <4>5
              DEF TrashSound, PartsSound
    <3> QED BY <1>0, <2>1, <3>2, <3>3
  <2> QED BY <1>1, <2>6, <2>7 DEF SearchInv
<1>3. CASE ExportsDocument(r)
  <2> DEFINE x == [runOf[r] EXCEPT !.pc = "write", !.content = docVersion]
  <2>1. x \in Runs /\ x.pc = "write" /\ x.content = docVersion
    BY <1>0 DEF Runs, RunPlaces, SearchInv, SearchType
  <2>2. /\ runOf' = [runOf EXCEPT ![r] = x] /\ runOf[r].pc = "export"
        /\ UNCHANGED <<rowF, rowsD, overtaken>>
    BY <1>3 DEF ExportsDocument, SearchInv, SearchType
  <2> HIDE DEF x
  <2>3. /\ runOf' \in [Runners -> Runs] /\ runOf'[r] = x
        /\ \A q \in Runners \ {r} : runOf'[q] = runOf[q]
    BY <2>1, <2>2 DEF SearchInv, SearchType
  <2>4. SearchType'
    BY <1>0, <2>1, <2>2, <2>3 DEF SearchInv, SearchType
  <2>5. /\ ObjectOnItsWay => ObjectOnItsWay'
        /\ runOf["object"] = Idle => runOf'["object"] = Idle
        /\ \A q \in Runners : /\ AboutToWrite(q)' => AboutToWrite(q)
                              /\ WritesCurrent(q) => WritesCurrent(q)'
                              /\ Spoils(q)' => Spoils(q)
    BY <1>0, <1>1, <2>1, <2>2, <2>3
    DEF ObjectOnItsWay, AboutToWrite, WritesCurrent, Spoils
  <2>6. ~overtaken' => RowSound' /\ TrashSound' /\ PartsSound'
    BY <1>0, <1>1, <2>2, <2>5 DEF SearchInv, RowSound, TrashSound, PartsSound
  <2> QED BY <1>1, <2>4, <2>6 DEF SearchInv
<1>4. CASE WritesParts(r)
  <2>1. /\ runOf[r].pc \in {"write", "forget"} /\ UNCHANGED rowF
        /\ rowsD' = (IF runOf[r].pc = "write" THEN runOf[r].content ELSE 0)
        /\ runOf' = [runOf EXCEPT ![r] = Idle]
        /\ overtaken' \in BOOLEAN /\ (~overtaken' => ~overtaken)
    BY <1>4 DEF WritesParts, SearchInv, SearchType
  <2>2. /\ runOf' \in [Runners -> Runs] /\ runOf'[r] = Idle
        /\ \A q \in Runners \ {r} : runOf'[q] = runOf[q]
    BY <1>0, <2>1 DEF SearchInv, SearchType
  <2>3. SearchType'
    BY <1>0, <2>1, <2>2 DEF SearchInv, SearchType, Runs
  <2>4. /\ ObjectOnItsWay => ObjectOnItsWay'
        /\ runOf["object"] = Idle => runOf'["object"] = Idle
        /\ \A q \in Runners : AboutToWrite(q)' => AboutToWrite(q)
        /\ \A q \in Runners : Spoils(q)' => Spoils(q)
        /\ \A q \in Runners \ {r} : WritesCurrent(q) => WritesCurrent(q)'
    BY <1>0, <1>1, <2>1, <2>2
    DEF ObjectOnItsWay, AboutToWrite, WritesCurrent, Spoils
  <2>5. /\ WritesCurrent(r) => rowsD' = docVersion
        /\ ~WritesCurrent(r) => Spoils(r)
        /\ runOf[r].pc = "forget" => rowsD' = 0 /\ Spoils(r)
        /\ runOf[r].pc = "write" => AboutToWrite(r)
    BY <2>1 DEF WritesCurrent, Spoils, AboutToWrite
  <2>6. DocumentLater => IsDue("document")
    BY SearchNumbers DEF DocumentLater, IsDue
  <2>7. ASSUME ~overtaken' PROVE RowSound' /\ TrashSound' /\ PartsSound'
    <3>1. RowSound /\ TrashSound /\ PartsSound
      BY <2>1, <2>7 DEF SearchInv
    <3>2. RowSound'
      BY <1>0, <2>1, <2>4, <3>1 DEF RowSound
    <3>3. TrashSound'
      BY <1>0, <2>1, <2>4, <2>5, <3>1 DEF TrashSound
    <3>4. PartsSound'
      BY <1>0, <1>1, <2>4, <2>5, <2>6, <3>1 DEF PartsSound
    <3> QED BY <3>2, <3>3, <3>4
  <2> QED BY <1>1, <2>3, <2>7 DEF SearchInv
<1> QED BY <1>2, <1>3, <1>4

(* Every step keeps the invariant.                                         *)
LEMMA SearchStep == SearchInv /\ [SearchNext]_searchVars => SearchInv'
<1> SUFFICES ASSUME SearchInv, [SearchNext]_searchVars PROVE SearchInv'
  OBVIOUS
<1>1. CASE UNCHANGED searchVars
  BY <1>1 DEF searchVars, SearchInv, SearchType, ThrottleSound, RowSound, TrashSound,
              PartsSound, ObjectOnItsWay, IsDue, DocumentLater, AboutToWrite, Spoils,
              WritesCurrent
<1>2. CASE SearchNext
  BY <1>2, FileStep, TaskStep, RunStep DEF SearchNext
<1> QED BY <1>1, <1>2

(* When nothing is left to run the index is right, for any throttle that   *)
(* is shorter than the debounce, and any edits, moves and sweeps.          *)
THEOREM IndexAgreesCorrect == SearchSpec => []IndexAgrees
<1>1. SearchInv => IndexAgrees
  <2> SUFFICES ASSUME SearchInv, NothingToIndex, ~overtaken
               PROVE  rowF = ~inTrash /\ rowsD = IF inTrash THEN 0 ELSE docVersion
    BY DEF IndexAgrees
  <2>1. /\ ~IsDue("document") /\ ~IsDue("object") /\ ~ObjectOnItsWay
        /\ \A r \in Runners : ~WritesCurrent(r)
    <3>1. "document" \in IndexTasks /\ "object" \in IndexTasks /\ "object" \in Runners
      BY DEF IndexTasks, Runners
    <3> QED BY <3>1, RunShapes DEF NothingToIndex, IsDue, ObjectOnItsWay, WritesCurrent
  <2> QED BY <2>1 DEF SearchInv, RowSound, TrashSound, PartsSound
<1> QED BY <1>1, SearchInitial, SearchStep, PTL DEF SearchSpec

-----------------------------------------------------------------------------
(***************************************************************************)
(* Drafts: a draft is sent once, and as it was meant.                      *)
(***************************************************************************)

DraftStates == {"R", "S", "P", "A", "gone"}
DraftRows == [st : DraftStates, content : Nat, at : Nat, sealed : BOOLEAN]
CallKinds == {"nothing", "patch", "schedule", "schedule task", "publish", "create task", "cancel"}
DraftCalls == [does : CallKinds, at : Nat, content : Nat]
DraftTasks == [pc : {"none", "mark", "create", "run"}, at : Nat, content : Nat]

DraftsType ==
    /\ draft \in DraftRows /\ callOf \in [Calls -> DraftCalls]
    /\ publishRun \in DraftTasks /\ creatorTask \in DraftTasks
    /\ intent \in [st : DraftStates, content : Nat]
    /\ sent \in Seq(Nat) /\ calls \in Nat /\ hour \in Nat /\ crossed \in BOOLEAN

(* While nobody has crossed anybody: one actor is past its look, ...       *)
OneActor ==
    /\ \A c, d \in Calls : InFlight(c) /\ InFlight(d) => c = d
    /\ \A c \in Calls : InFlight(c) => ~TaskInFlight
    /\ publishRun = NoTask \/ creatorTask = NoTask

(* ... what a call saw is still so, ...                                    *)
CallSound(c) ==
    InFlight(c) =>
      \/ callOf[c].does = "schedule task" /\ draft.st = "S"
      \/ /\ callOf[c].does = "create task"
         /\ draft.st = "P" /\ callOf[c].content = draft.content
      \/ /\ callOf[c].does \notin {"schedule task", "create task"}
         /\ draft.st \in {"R", "S"} /\ intent.st = draft.st
         /\ callOf[c].does = "publish" => callOf[c].content = draft.content

(* ... and what a task saw, ...                                            *)
TasksSound ==
    /\ publishRun # NoTask =>
         /\ publishRun.content = draft.content
         /\ \/ publishRun.pc = "mark" /\ draft.st = "S"
            \/ publishRun.pc = "create" /\ draft.st = "P"
    /\ creatorTask # NoTask =>
         creatorTask.pc = "run" /\ draft.st = "P" /\ creatorTask.content = draft.content

(* ... between calls the user knows of the status, and what was sent is    *)
(* the draft, which can no longer change.                                  *)
UserKnows ==
    (\A c \in Calls : ~InFlight(c)) =>
      IF draft.st \in {"P", "A"} THEN intent.st \notin {"R", "gone"} ELSE intent.st = draft.st
SentSound ==
    sent # <<>> => draft.st = "A" /\ sent[Len(sent)] = draft.content

Orderly == OneActor /\ (\A c \in Calls : CallSound(c)) /\ TasksSound /\ UserKnows /\ SentSound

DraftsInv ==
    /\ DraftsType
    /\ draft.content = intent.content
    /\ Len(sent) <= 1 /\ (sent # <<>> => draft.sealed)
    /\ ~crossed => Orderly

(* A scheduled draft and the hour that was promised: the task is not due   *)
(* before it, nor did the one begin that published the draft, unless a     *)
(* restart lost it.                                                        *)
Publications == [pc : {"none", "due", "running"}, at : Nat, saved : Nat]
TimedType == /\ publishTask \in Publications
             /\ timed \in [told : Nat, lost : BOOLEAN, began : Nat]

TaskOnTime ==
    \/ timed.lost \/ publishTask.pc = "none"
    \/ timed.told <= publishTask.at \/ timed.told <= hour
Published ==
    \/ publishRun # NoTask
    \/ intent.st = "S" /\ (creatorTask # NoTask \/ sent # <<>>)
SentOnTime == Published => timed.lost \/ timed.told <= timed.began

TimedInv == TimedType /\ (~crossed => TaskOnTime /\ SentOnTime)

(* At the start there is a draft, and nobody works on it.                  *)
LEMMA DraftsInitial == DraftsInit => DraftsInv
<1> SUFFICES ASSUME DraftsInit PROVE DraftsInv
  OBVIOUS
<1>1. /\ NoCall \in DraftCalls /\ NoTask \in DraftTasks
      /\ \A c \in Calls : ~InFlight(c)
  BY DEF DraftsInit, NoCall, NoTask, DraftCalls, CallKinds, DraftTasks, InFlight
<1>2. DraftsType
  <2>1. draft \in DraftRows /\ intent \in [st : DraftStates, content : Nat]
    BY DEF DraftsInit, DraftRows, DraftStates
  <2>2. callOf \in [Calls -> DraftCalls]
    BY <1>1 DEF DraftsInit
  <2>3. /\ publishRun \in DraftTasks /\ creatorTask \in DraftTasks
        /\ sent = <<>> /\ calls = 0 /\ hour = 0 /\ crossed = FALSE
    BY <1>1 DEF DraftsInit
  <2>4. sent \in Seq(Nat)
    BY <2>3
  <2> QED BY <2>1, <2>2, <2>3, <2>4 DEF DraftsType
<1>3. Orderly
  BY <1>1 DEF DraftsInit, Orderly, OneActor, CallSound, TasksSound, UserKnows, SentSound
<1> QED BY <1>2, <1>3 DEF DraftsInv, DraftsInit

(* A call that looks at the row.                                           *)
LEMMA LookStep ==
    ASSUME DraftsInv, NEW c \in Calls, NEW does \in {"patch", "schedule", "publish", "cancel"},
           NEW at \in Nat, Looks(c, does, at)
    PROVE  DraftsInv'
<1> DEFINE x == [does |-> does, at |-> at,
                 content |-> IF does = "patch" THEN calls + 1 ELSE draft.content]
<1>1. /\ x \in DraftCalls /\ x.does = does
      /\ does = "publish" => x.content = draft.content
  <2> DEFINE m == IF does = "patch" THEN calls + 1 ELSE draft.content
  <2>1. m \in Nat /\ (does = "publish" => m = draft.content)
    BY DEF DraftsInv, DraftsType, DraftRows
  <2> HIDE DEF m
  <2>2. [does |-> does, at |-> at, content |-> m] \in DraftCalls
    BY <2>1 DEF DraftCalls, CallKinds
  <2> QED BY <2>1, <2>2 DEF m
<1>2. /\ callOf' = [callOf EXCEPT ![c] = x] /\ draft.st \in {"R", "S"}
      /\ calls' = calls + 1
      /\ UNCHANGED <<draft, publishRun, creatorTask, sent, hour, intent>>
      /\ crossed' \in BOOLEAN
      /\ ~crossed' => ~crossed /\ ~TaskInFlight /\ \A d \in Calls : ~InFlight(d)
  BY DEF Looks, AllowedIn
<1> HIDE DEF x
<1>3. /\ callOf' \in [Calls -> DraftCalls] /\ callOf'[c] = x
      /\ \A d \in Calls \ {c} : callOf'[d] = callOf[d]
  BY <1>1, <1>2 DEF DraftsInv, DraftsType
<1>4. DraftsType'
  BY <1>2, <1>3 DEF DraftsInv, DraftsType
<1>5. ASSUME ~crossed' PROVE Orderly'
  <2>1. /\ Orderly /\ ~TaskInFlight /\ \A d \in Calls : ~InFlight(d)
        /\ TaskInFlight' = TaskInFlight
    BY <1>2, <1>5 DEF DraftsInv, TaskInFlight
  <2>2. InFlight(c)' /\ \A d \in Calls \ {c} : ~InFlight(d)'
    BY <1>1, <1>3, <2>1 DEF InFlight, NoCall
  <2>3. OneActor' /\ TasksSound' /\ SentSound' /\ UserKnows'
    BY <1>2, <2>1, <2>2 DEF Orderly, OneActor, TasksSound, SentSound, UserKnows, TaskInFlight
  <2>4. intent.st = draft.st
    BY <1>2, <2>1 DEF Orderly, UserKnows
  <2>5. \A d \in Calls : CallSound(d)'
    BY <1>1, <1>2, <1>3, <2>2, <2>4 DEF CallSound
  <2> QED BY <2>3, <2>5 DEF Orderly
<1> QED BY <1>2, <1>4, <1>5 DEF DraftsInv

(* What a call that goes on leaves alone.                                  *)
LEMMA CallGoesOn ==
    ASSUME DraftsInv, NEW c \in Calls, InFlight(c), NEW x \in DraftCalls,
           callOf' = [callOf EXCEPT ![c] = x], UNCHANGED <<publishRun, sent, crossed>>
    PROVE  /\ callOf' \in [Calls -> DraftCalls] /\ callOf'[c] = x
           /\ ~crossed => /\ publishRun = NoTask /\ creatorTask = NoTask
                          /\ CallSound(c) /\ SentSound
                          /\ \A d \in Calls \ {c} : ~InFlight(d)'
                          /\ InFlight(c)' <=> x # NoCall
<1>1. /\ callOf' \in [Calls -> DraftCalls] /\ callOf'[c] = x
      /\ \A d \in Calls \ {c} : callOf'[d] = callOf[d]
  BY DEF DraftsInv, DraftsType
<1>2. ~crossed => /\ publishRun = NoTask /\ creatorTask = NoTask
                  /\ CallSound(c) /\ SentSound
                  /\ \A d \in Calls \ {c} : ~InFlight(d)
  BY DEF DraftsInv, Orderly, OneActor, TaskInFlight
<1> QED BY <1>1, <1>2 DEF InFlight

(* A call that goes on.                                                    *)
LEMMA CallStep ==
    ASSUME DraftsInv, NEW c \in Calls,
           \/ Patches(c) \/ MarksScheduled(c) \/ SchedulesPublish(c) \/ MarksPending(c)
           \/ SchedulesCreator(c) \/ CancelsSchedule(c) \/ CallFindsNoRow(c)
    PROVE  DraftsInv'
<1>0. /\ UNCHANGED <<publishRun, sent, crossed, hour, calls>> /\ InFlight(c)
      /\ NoCall \in DraftCalls /\ callOf[c] \in DraftCalls /\ draft \in DraftRows
      /\ intent \in [st : DraftStates, content : Nat] /\ draft.content = intent.content
  <2>1. UNCHANGED <<publishRun, sent, crossed, hour, calls>>
    BY DEF Patches, MarksScheduled, SchedulesPublish, MarksPending, SchedulesCreator,
           CancelsSchedule, CallFindsNoRow
  <2>2. InFlight(c)
    <3>1. NoCall.does = "nothing"
      BY DEF NoCall
    <3> QED BY <3>1 DEF Patches, MarksScheduled, SchedulesPublish, MarksPending,
                        SchedulesCreator, CancelsSchedule, CallFindsNoRow, Asked, InFlight
  <2>3. NoCall \in DraftCalls
    BY DEF NoCall, DraftCalls, CallKinds
  <2> QED BY <2>1, <2>2, <2>3 DEF DraftsInv, DraftsType
<1>1. CASE Patches(c)
  <2> DEFINE t == IF callOf[c].at = 0 THEN draft.at ELSE callOf[c].at
             m == callOf[c].content
  <2>1. t \in Nat /\ m \in Nat /\ callOf' = [callOf EXCEPT ![c] = NoCall]
        /\ draft' = [draft EXCEPT !.content = m, !.at = t]
        /\ intent' = [intent EXCEPT !.content = m] /\ UNCHANGED creatorTask
        /\ callOf[c].does = "patch"
    BY <1>0, <1>1 DEF Patches, Asked, Answered, DraftCalls, DraftRows
  <2> HIDE DEF t, m
  <2>2. /\ draft' \in DraftRows /\ draft'.content = m /\ draft'.st = draft.st
        /\ draft'.sealed = draft.sealed
        /\ intent' \in [st : DraftStates, content : Nat] /\ intent'.content = m
        /\ intent'.st = intent.st
    BY <1>0, <2>1 DEF DraftRows
  <2>3. /\ callOf' \in [Calls -> DraftCalls]
        /\ ~crossed => /\ publishRun = NoTask /\ creatorTask = NoTask
                       /\ CallSound(c) /\ SentSound /\ \A d \in Calls : ~InFlight(d)'
    BY <1>0, <2>1, CallGoesOn
  <2>4. DraftsType'
    BY <1>0, <2>1, <2>2, <2>3 DEF DraftsInv, DraftsType
  <2>5. ASSUME ~crossed PROVE Orderly'
    <3>1. draft.st \in {"R", "S"} /\ intent.st = draft.st /\ sent = <<>>
      BY <1>0, <2>1, <2>3, <2>5 DEF CallSound, SentSound
    <3> QED BY <1>0, <2>1, <2>2, <2>3, <2>5, <3>1
            DEF Orderly, OneActor, CallSound, TasksSound, UserKnows, SentSound, TaskInFlight
  <2> QED BY <1>0, <2>2, <2>4, <2>5 DEF DraftsInv
<1>2. CASE MarksScheduled(c)
  <2> DEFINE x == [callOf[c] EXCEPT !.does = "schedule task"]
             t == callOf[c].at
  <2>1. x \in DraftCalls /\ x # NoCall /\ x.does = "schedule task" /\ t \in Nat
    BY <1>0 DEF DraftCalls, CallKinds, NoCall
  <2>2. callOf' = [callOf EXCEPT ![c] = x]
        /\ draft' = [draft EXCEPT !.st = "S", !.at = t]
        /\ UNCHANGED <<creatorTask, intent>> /\ callOf[c].does = "schedule"
    BY <1>2 DEF MarksScheduled, Asked, DraftsInv, DraftsType
  <2> HIDE DEF x, t
  <2>3. /\ draft' \in DraftRows /\ draft'.content = draft.content /\ draft'.st = "S"
        /\ draft'.sealed = draft.sealed
    BY <1>0, <2>1, <2>2 DEF DraftRows, DraftStates
  <2>4. /\ callOf' \in [Calls -> DraftCalls] /\ callOf'[c] = x
        /\ ~crossed => /\ publishRun = NoTask /\ creatorTask = NoTask
                       /\ CallSound(c) /\ SentSound /\ InFlight(c)'
                       /\ \A d \in Calls \ {c} : ~InFlight(d)'
    BY <1>0, <2>1, <2>2, CallGoesOn
  <2>5. DraftsType'
    BY <1>0, <2>2, <2>3, <2>4 DEF DraftsInv, DraftsType
  <2>6. ASSUME ~crossed PROVE Orderly'
    <3>1. sent = <<>>
      BY <1>0, <2>2, <2>4, <2>6 DEF CallSound, SentSound
    <3>2. \A d \in Calls : CallSound(d)'
      BY <2>1, <2>3, <2>4, <2>6 DEF CallSound
    <3> QED BY <1>0, <2>2, <2>4, <2>6, <3>1, <3>2
            DEF Orderly, OneActor, TasksSound, UserKnows, SentSound, TaskInFlight
  <2> QED BY <1>0, <2>2, <2>3, <2>5, <2>6 DEF DraftsInv
<1>3. CASE SchedulesPublish(c)
  <2>1. callOf' = [callOf EXCEPT ![c] = NoCall]
        /\ intent' = [intent EXCEPT !.st = "S"]
        /\ UNCHANGED <<draft, creatorTask>> /\ callOf[c].does = "schedule task"
    BY <1>3 DEF SchedulesPublish, Asked, Answered
  <2>2. /\ intent' \in [st : DraftStates, content : Nat] /\ intent'.content = intent.content
        /\ intent'.st = "S"
    BY <1>0, <2>1 DEF DraftStates
  <2>3. /\ callOf' \in [Calls -> DraftCalls]
        /\ ~crossed => /\ publishRun = NoTask /\ creatorTask = NoTask
                       /\ CallSound(c) /\ SentSound /\ \A d \in Calls : ~InFlight(d)'
    BY <1>0, <2>1, CallGoesOn
  <2>4. DraftsType'
    BY <1>0, <2>1, <2>2, <2>3 DEF DraftsInv, DraftsType
  <2>5. ASSUME ~crossed PROVE Orderly'
    <3>1. draft.st = "S"
      BY <1>0, <2>1, <2>3, <2>5 DEF CallSound
    <3> QED BY <1>0, <2>1, <2>2, <2>3, <2>5, <3>1
            DEF Orderly, OneActor, CallSound, TasksSound, UserKnows, SentSound, TaskInFlight
  <2> QED BY <1>0, <2>1, <2>2, <2>4, <2>5 DEF DraftsInv
<1>4. CASE MarksPending(c)
  <2> DEFINE x == [callOf[c] EXCEPT !.does = "create task"]
  <2>1. x \in DraftCalls /\ x # NoCall /\ x.does = "create task"
        /\ x.content = callOf[c].content
    BY <1>0 DEF DraftCalls, CallKinds, NoCall
  <2>2. callOf' = [callOf EXCEPT ![c] = x]
        /\ draft' = [draft EXCEPT !.st = "P", !.at = hour]
        /\ UNCHANGED <<creatorTask, intent>> /\ callOf[c].does = "publish"
    BY <1>4 DEF MarksPending, Asked, DraftsInv, DraftsType
  <2> HIDE DEF x
  <2>3. /\ draft' \in DraftRows /\ draft'.content = draft.content /\ draft'.st = "P"
        /\ draft'.sealed = draft.sealed
    BY <1>0, <2>2 DEF DraftRows, DraftStates, DraftsInv, DraftsType
  <2>4. /\ callOf' \in [Calls -> DraftCalls] /\ callOf'[c] = x
        /\ ~crossed => /\ publishRun = NoTask /\ creatorTask = NoTask
                       /\ CallSound(c) /\ SentSound /\ InFlight(c)'
                       /\ \A d \in Calls \ {c} : ~InFlight(d)'
    BY <1>0, <2>1, <2>2, CallGoesOn
  <2>5. DraftsType'
    BY <1>0, <2>2, <2>3, <2>4 DEF DraftsInv, DraftsType
  <2>6. ASSUME ~crossed PROVE Orderly'
    <3>1. sent = <<>> /\ callOf[c].content = draft.content
      BY <1>0, <2>2, <2>4, <2>6 DEF CallSound, SentSound
    <3>2. \A d \in Calls : CallSound(d)'
      BY <2>1, <2>3, <2>4, <2>6, <3>1 DEF CallSound
    <3> QED BY <1>0, <2>2, <2>4, <2>6, <3>1, <3>2
            DEF Orderly, OneActor, TasksSound, UserKnows, SentSound, TaskInFlight
  <2> QED BY <1>0, <2>2, <2>3, <2>5, <2>6 DEF DraftsInv
<1>5. CASE SchedulesCreator(c)
  <2>1. callOf' = [callOf EXCEPT ![c] = NoCall]
        /\ intent' = [intent EXCEPT !.st = "P"]
        /\ creatorTask' = [pc |-> "run", at |-> 0, content |-> callOf[c].content]
        /\ UNCHANGED draft /\ callOf[c].does = "create task"
    BY <1>5 DEF SchedulesCreator, Asked, Answered
  <2>2. /\ intent' \in [st : DraftStates, content : Nat] /\ intent'.content = intent.content
        /\ intent'.st = "P"
        /\ creatorTask' \in DraftTasks /\ creatorTask'.pc = "run"
        /\ creatorTask'.content = callOf[c].content
    BY <1>0, <2>1 DEF DraftStates, DraftTasks, DraftCalls
  <2>3. /\ callOf' \in [Calls -> DraftCalls]
        /\ ~crossed => /\ publishRun = NoTask /\ creatorTask = NoTask
                       /\ CallSound(c) /\ SentSound /\ \A d \in Calls : ~InFlight(d)'
    BY <1>0, <2>1, CallGoesOn
  <2>4. DraftsType'
    BY <1>0, <2>1, <2>2, <2>3 DEF DraftsInv, DraftsType
  <2>5. ASSUME ~crossed PROVE Orderly'
    <3>1. draft.st = "P" /\ callOf[c].content = draft.content
      BY <1>0, <2>1, <2>3, <2>5 DEF CallSound
    <3> QED BY <1>0, <2>1, <2>2, <2>3, <2>5, <3>1
            DEF Orderly, OneActor, CallSound, TasksSound, UserKnows, SentSound, TaskInFlight
  <2> QED BY <1>0, <2>1, <2>2, <2>4, <2>5 DEF DraftsInv
<1>6. CASE CancelsSchedule(c)
  <2>1. callOf' = [callOf EXCEPT ![c] = NoCall]
        /\ draft' = [draft EXCEPT !.st = "R"] /\ intent' = [intent EXCEPT !.st = "R"]
        /\ UNCHANGED creatorTask /\ callOf[c].does = "cancel"
    BY <1>6 DEF CancelsSchedule, Asked, Answered
  <2>2. /\ intent' \in [st : DraftStates, content : Nat] /\ intent'.content = intent.content
        /\ intent'.st = "R"
        /\ draft' \in DraftRows /\ draft'.content = draft.content /\ draft'.st = "R"
        /\ draft'.sealed = draft.sealed
    BY <1>0, <2>1 DEF DraftStates, DraftRows
  <2>3. /\ callOf' \in [Calls -> DraftCalls]
        /\ ~crossed => /\ publishRun = NoTask /\ creatorTask = NoTask
                       /\ CallSound(c) /\ SentSound /\ \A d \in Calls : ~InFlight(d)'
    BY <1>0, <2>1, CallGoesOn
  <2>4. DraftsType'
    BY <1>0, <2>1, <2>2, <2>3 DEF DraftsInv, DraftsType
  <2>5. ASSUME ~crossed PROVE Orderly'
    <3>1. sent = <<>>
      BY <1>0, <2>1, <2>3, <2>5 DEF CallSound, SentSound
    <3> QED BY <1>0, <2>1, <2>2, <2>3, <2>5, <3>1
            DEF Orderly, OneActor, CallSound, TasksSound, UserKnows, SentSound, TaskInFlight
  <2> QED BY <1>0, <2>1, <2>2, <2>4, <2>5 DEF DraftsInv
<1>7. CASE CallFindsNoRow(c)
  <2>1. callOf' = [callOf EXCEPT ![c] = NoCall] /\ draft.st = "gone"
        /\ UNCHANGED <<draft, intent, creatorTask>>
    BY <1>7 DEF CallFindsNoRow, Answered
  <2>2. callOf' \in [Calls -> DraftCalls] /\ (~crossed => CallSound(c))
    BY <1>0, <2>1, CallGoesOn
  <2>3. crossed
    BY <1>0, <2>1, <2>2 DEF CallSound
  <2>4. DraftsType'
    BY <1>0, <2>1, <2>2 DEF DraftsInv, DraftsType
  <2> QED BY <1>0, <2>1, <2>3, <2>4 DEF DraftsInv
<1> QED BY <1>1, <1>2, <1>3, <1>4, <1>5, <1>6, <1>7

(* The deletion, a restart, and the clock.                                 *)
LEMMA OtherStep ==
    ASSUME DraftsInv, DeletesDraft \/ ServerStops \/ HourPasses
    PROVE  DraftsInv'
<1>0. /\ NoCall \in DraftCalls /\ NoTask \in DraftTasks /\ draft \in DraftRows
      /\ intent \in [st : DraftStates, content : Nat] /\ draft.content = intent.content
  BY DEF NoCall, NoTask, DraftCalls, CallKinds, DraftTasks, DraftsInv, DraftsType
<1>1. CASE DeletesDraft
  <2>1. /\ draft' = [draft EXCEPT !.st = "gone"] /\ intent' = [intent EXCEPT !.st = "gone"]
        /\ UNCHANGED <<callOf, calls, publishRun, creatorTask, sent, hour>>
        /\ crossed' \in BOOLEAN /\ draft.st = "R"
        /\ ~crossed' => ~crossed /\ ~TaskInFlight /\ \A d \in Calls : ~InFlight(d)
    BY <1>1 DEF DeletesDraft
  <2>2. /\ intent' \in [st : DraftStates, content : Nat] /\ intent'.content = intent.content
        /\ intent'.st = "gone"
        /\ draft' \in DraftRows /\ draft'.content = draft.content /\ draft'.st = "gone"
        /\ draft'.sealed = draft.sealed
    BY <1>0, <2>1 DEF DraftStates, DraftRows
  <2>3. DraftsType'
    BY <2>1, <2>2 DEF DraftsInv, DraftsType
  <2>4. ASSUME ~crossed' PROVE Orderly'
    <3>1. /\ Orderly /\ \A d \in Calls : ~InFlight(d)'
          /\ publishRun = NoTask /\ creatorTask = NoTask
      BY <2>1, <2>4 DEF DraftsInv, TaskInFlight, InFlight
    <3>2. sent = <<>>
      BY <2>1, <3>1 DEF Orderly, SentSound
    <3> QED BY <2>1, <2>2, <3>1, <3>2
            DEF Orderly, OneActor, CallSound, TasksSound, UserKnows, SentSound, TaskInFlight
  <2> QED BY <1>0, <2>1, <2>2, <2>3, <2>4 DEF DraftsInv
<1>2. CASE ServerStops
  <2>1. /\ callOf' = [c \in Calls |-> NoCall] /\ publishRun' = NoTask
        /\ UNCHANGED <<draft, calls, creatorTask, sent, hour, intent>>
        /\ crossed' \in BOOLEAN
        /\ ~crossed' => ~crossed /\ \A d \in Calls : ~InFlight(d)
    BY <1>2 DEF ServerStops
  <2>2. DraftsType' /\ \A d \in Calls : ~InFlight(d)'
    BY <1>0, <2>1 DEF DraftsInv, DraftsType, InFlight
  <2>3. ASSUME ~crossed' PROVE Orderly'
    BY <2>1, <2>2, <2>3
    DEF DraftsInv, Orderly, OneActor, CallSound, TasksSound, UserKnows, SentSound,
        TaskInFlight
  <2> QED BY <1>0, <2>1, <2>2, <2>3 DEF DraftsInv
<1>3. CASE HourPasses
  <2>1. /\ hour' = hour + 1
        /\ UNCHANGED <<draft, callOf, calls, publishRun, creatorTask, sent, intent, crossed>>
    BY <1>3 DEF HourPasses
  <2>2. DraftsType'
    BY <2>1 DEF DraftsInv, DraftsType
  <2>3. Orderly' = Orderly
    BY <2>1 DEF Orderly, OneActor, CallSound, TasksSound, UserKnows, SentSound, TaskInFlight,
                InFlight
  <2> QED BY <1>0, <2>1, <2>2, <2>3 DEF DraftsInv
<1> QED BY <1>1, <1>2, <1>3

(* The tasks.                                                              *)
LEMMA DraftTaskStep ==
    ASSUME DraftsInv,
           PublishTaskStarts \/ PublishTaskMarks \/ PublishTaskCreates \/ CreatorFinalizes
    PROVE  DraftsInv'
<1>0. /\ NoTask \in DraftTasks /\ NoTask.pc = "none" /\ draft \in DraftRows
      /\ publishRun \in DraftTasks /\ creatorTask \in DraftTasks
      /\ UNCHANGED <<callOf, calls, hour, intent>>
      /\ \A c \in Calls : InFlight(c)' = InFlight(c)
  BY DEF NoTask, DraftTasks, DraftsInv, DraftsType, InFlight, PublishTaskStarts,
         PublishTaskMarks, PublishTaskCreates, CreatorFinalizes
<1>1. CASE PublishTaskStarts
  <2>1. /\ UNCHANGED <<draft, creatorTask, sent>> /\ crossed' \in BOOLEAN
        /\ ~crossed' => ~crossed /\ \A d \in Calls : ~InFlight(d)
        /\ publishRun = NoTask
    BY <1>1 DEF PublishTaskStarts
  <2>2. CASE ~StillScheduled(draft.st)
    <3>1. UNCHANGED publishRun
      BY <1>1, <2>2 DEF PublishTaskStarts
    <3>2. DraftsType'
      BY <1>0, <2>1, <3>1 DEF DraftsInv, DraftsType
    <3>3. ASSUME ~crossed' PROVE Orderly'
      BY <1>0, <2>1, <3>1, <3>3
      DEF DraftsInv, Orderly, OneActor, CallSound, TasksSound, UserKnows, SentSound,
          TaskInFlight
    <3> QED BY <1>0, <2>1, <3>2, <3>3 DEF DraftsInv
  <2>3. CASE StillScheduled(draft.st)
    <3> DEFINE m == draft.content
    <3>1. /\ publishRun' = [NoTask EXCEPT !.pc = "mark", !.content = m]
          /\ draft.st = "S" /\ m \in Nat
      BY <1>0, <1>1, <2>3 DEF PublishTaskStarts, ContentToPublish, StillScheduled, DraftRows
    <3> HIDE DEF m
    <3>2. publishRun' \in DraftTasks /\ publishRun'.pc = "mark" /\ publishRun'.content = m
      BY <1>0, <3>1 DEF DraftTasks
    <3>3. DraftsType'
      BY <1>0, <2>1, <3>2 DEF DraftsInv, DraftsType
    <3>4. ASSUME ~crossed' PROVE Orderly'
      <4>1. Orderly /\ creatorTask = NoTask /\ sent = <<>>
        BY <2>1, <3>1, <3>4 DEF DraftsInv, Orderly, TasksSound, SentSound
      <4> QED BY <1>0, <2>1, <3>1, <3>2, <3>4, <4>1
              DEF Orderly, OneActor, CallSound, TasksSound, UserKnows, SentSound,
                  TaskInFlight, m
    <3> QED BY <1>0, <2>1, <3>3, <3>4 DEF DraftsInv
  <2> QED BY <2>2, <2>3
<1>2. CASE PublishTaskMarks
  <2>1. /\ UNCHANGED <<creatorTask, sent, crossed>> /\ publishRun.pc = "mark"
        /\ publishRun # NoTask
    BY <1>0, <1>2 DEF PublishTaskMarks
  <2>2. ~crossed => /\ draft.st = "S" /\ publishRun.content = draft.content
                    /\ Orderly /\ creatorTask = NoTask /\ sent = <<>>
                    /\ \A c \in Calls : ~InFlight(c)
    BY <2>1 DEF DraftsInv, Orderly, OneActor, TasksSound, SentSound, TaskInFlight
  <2>3. CASE draft.st = "gone"
    <3>1. publishRun' = NoTask /\ UNCHANGED draft
      BY <1>2, <2>3 DEF PublishTaskMarks, PublishTaskEnds
    <3>2. DraftsType'
      BY <1>0, <2>1, <3>1 DEF DraftsInv, DraftsType
    <3> QED BY <1>0, <2>1, <2>2, <2>3, <3>1, <3>2 DEF DraftsInv
  <2>4. CASE draft.st # "gone"
    <3>1. /\ draft' = [draft EXCEPT !.st = "P"]
          /\ publishRun' = [publishRun EXCEPT !.pc = "create"]
      BY <1>2, <2>4 DEF PublishTaskMarks
    <3>2. /\ draft' \in DraftRows /\ draft'.st = "P" /\ draft'.content = draft.content
          /\ draft'.sealed = draft.sealed
          /\ publishRun' \in DraftTasks /\ publishRun'.pc = "create"
          /\ publishRun'.content = publishRun.content
      BY <1>0, <3>1 DEF DraftRows, DraftStates, DraftTasks
    <3>3. DraftsType'
      BY <1>0, <2>1, <3>2 DEF DraftsInv, DraftsType
    <3>4. ASSUME ~crossed PROVE Orderly'
      <4>1. intent.st = "S"
        BY <2>2, <3>4 DEF Orderly, UserKnows
      <4> QED BY <1>0, <2>1, <2>2, <3>2, <3>4, <4>1
              DEF Orderly, OneActor, CallSound, TasksSound, UserKnows, SentSound, TaskInFlight
    <3> QED BY <1>0, <2>1, <3>2, <3>3, <3>4 DEF DraftsInv
  <2> QED BY <2>3, <2>4
<1>3. CASE PublishTaskCreates
  <2>1. /\ UNCHANGED <<draft, sent, crossed>> /\ publishRun.pc = "create"
        /\ publishRun # NoTask /\ publishRun' = NoTask
        /\ creatorTask' = [pc |-> "run", at |-> 0, content |-> publishRun.content]
    BY <1>0, <1>3 DEF PublishTaskCreates, PublishTaskEnds
  <2>2. /\ creatorTask' \in DraftTasks /\ creatorTask'.pc = "run"
        /\ creatorTask'.content = publishRun.content
    BY <1>0, <2>1 DEF DraftTasks
  <2>3. DraftsType'
    BY <1>0, <2>1, <2>2 DEF DraftsInv, DraftsType
  <2>4. ASSUME ~crossed PROVE Orderly'
    BY <1>0, <2>1, <2>2, <2>4
    DEF DraftsInv, Orderly, OneActor, CallSound, TasksSound, UserKnows, SentSound,
        TaskInFlight
  <2> QED BY <1>0, <2>1, <2>3, <2>4 DEF DraftsInv
<1>4. CASE CreatorFinalizes
  <2>1. /\ UNCHANGED <<publishRun, crossed>> /\ creatorTask.pc = "run"
        /\ creatorTask # NoTask /\ creatorTask' = NoTask
    BY <1>0, <1>4 DEF CreatorFinalizes
  <2>2. ~crossed => /\ draft.st = "P" /\ creatorTask.content = draft.content
                    /\ Orderly /\ publishRun = NoTask /\ sent = <<>>
                    /\ \A c \in Calls : ~InFlight(c)
    BY <2>1 DEF DraftsInv, Orderly, OneActor, TasksSound, SentSound, TaskInFlight
  <2>3. CASE ~FinalizableDraft
    <3>1. UNCHANGED <<draft, sent>>
      BY <1>4, <2>3 DEF CreatorFinalizes
    <3>2. DraftsType'
      BY <1>0, <2>1, <3>1 DEF DraftsInv, DraftsType
    <3>3. ASSUME ~crossed PROVE Orderly'
      BY <1>0, <2>1, <2>2, <3>1, <3>3
      DEF Orderly, OneActor, CallSound, TasksSound, UserKnows, SentSound, TaskInFlight
    <3> QED BY <1>0, <2>1, <3>1, <3>2, <3>3 DEF DraftsInv
  <2>4. CASE FinalizableDraft
    <3> DEFINE m == creatorTask.content
    <3>1. /\ draft' = [draft EXCEPT !.st = "A", !.sealed = TRUE]
          /\ sent' = Append(sent, m) /\ sent = <<>> /\ m \in Nat
      BY <1>0, <1>4, <2>4 DEF CreatorFinalizes, FinalizableDraft, DraftsInv, DraftTasks
    <3>2. /\ draft' \in DraftRows /\ draft'.st = "A" /\ draft'.content = draft.content
          /\ draft'.sealed
      BY <1>0, <3>1 DEF DraftRows, DraftStates
    <3> HIDE DEF m
    <3>3. sent' \in Seq(Nat) /\ Len(sent') = 1 /\ sent'[1] = m
      BY <3>1
    <3>4. DraftsType'
      BY <1>0, <2>1, <3>2, <3>3 DEF DraftsInv, DraftsType
    <3>5. ASSUME ~crossed PROVE Orderly'
      <4>1. m = draft.content /\ intent.st \notin {"R", "gone"}
        BY <2>2, <3>5 DEF Orderly, UserKnows, m
      <4> QED BY <1>0, <2>1, <2>2, <3>2, <3>3, <3>5, <4>1
              DEF Orderly, OneActor, CallSound, TasksSound, UserKnows, SentSound, TaskInFlight
    <3> QED BY <1>0, <2>1, <3>2, <3>3, <3>4, <3>5 DEF DraftsInv
  <2> QED BY <2>3, <2>4
<1> QED BY <1>1, <1>2, <1>3, <1>4

(* Every step keeps the invariant.                                         *)
LEMMA DraftsStep == DraftsInv /\ [DraftsNext]_draftVars => DraftsInv'
<1> SUFFICES ASSUME DraftsInv, [DraftsNext]_draftVars PROVE DraftsInv'
  OBVIOUS
<1>1. CASE UNCHANGED draftVars
  BY <1>1 DEF draftVars, DraftsInv, DraftsType, Orderly, OneActor, CallSound, TasksSound,
              UserKnows, SentSound, TaskInFlight, InFlight
<1>2. ASSUME NEW c \in Calls, NEW at \in 1..MaxHour,
             Looks(c, "schedule", at) \/ Looks(c, "patch", at)
      PROVE  DraftsInv'
  <2>1. at \in Nat
    BY DraftBounds
  <2> QED BY <1>2, <2>1, LookStep
<1>3. ASSUME NEW c \in Calls, NEW does \in {"patch", "publish", "cancel"}, Looks(c, does, 0)
      PROVE  DraftsInv'
  <2>1. 0 \in Nat /\ does \in {"patch", "schedule", "publish", "cancel"}
    OBVIOUS
  <2> QED BY <1>3, <2>1, LookStep
<1>4. CASE DraftsNext
  BY <1>2, <1>3, <1>4, CallStep, OtherStep, DraftTaskStep DEF DraftsNext
<1> QED BY <1>1, <1>4

(* Nothing is promised at the start.                                       *)
LEMMA TimedInitial == DraftsInit => TimedInv
  BY DEF DraftsInit, TimedInv, TimedType, Publications, NoSchedule, NoTask, TaskOnTime,
         SentOnTime, Published

(* The calls: only the one that schedules the task promises anything, and  *)
(* then no task is past its look.                                          *)
LEMMA TimedCallStep ==
    ASSUME DraftsInv, TimedInv, NEW c \in Calls,
           \/ Patches(c) \/ MarksScheduled(c) \/ SchedulesPublish(c) \/ MarksPending(c)
           \/ SchedulesCreator(c) \/ CancelsSchedule(c) \/ CallFindsNoRow(c)
    PROVE  TimedInv'
<1>0. /\ UNCHANGED <<publishRun, sent, crossed, hour>> /\ InFlight(c)
      /\ callOf[c] \in DraftCalls /\ NoTask.pc = "none"
      /\ intent \in [st : DraftStates, content : Nat]
  <2>1. UNCHANGED <<publishRun, sent, crossed, hour>>
    BY DEF Patches, MarksScheduled, SchedulesPublish, MarksPending, SchedulesCreator,
           CancelsSchedule, CallFindsNoRow
  <2>2. InFlight(c)
    <3>1. NoCall.does = "nothing"
      BY DEF NoCall
    <3> QED BY <3>1 DEF Patches, MarksScheduled, SchedulesPublish, MarksPending,
                        SchedulesCreator, CancelsSchedule, CallFindsNoRow, Asked, InFlight
  <2> QED BY <2>1, <2>2 DEF DraftsInv, DraftsType, NoTask
<1>1. ~crossed => publishRun = NoTask /\ creatorTask = NoTask /\ CallSound(c) /\ SentSound
  BY <1>0 DEF DraftsInv, Orderly, OneActor, TaskInFlight
<1>2. CASE SchedulesPublish(c)
  <2> DEFINE a == callOf[c].at
             w == IF publishRun = NoTask THEN a ELSE 0
             v == IF publishTask = NoSchedule THEN 0 ELSE a
  <2>1. /\ a \in Nat /\ w \in Nat /\ v \in Nat /\ (publishRun = NoTask => w = a)
        /\ publishTask' = [pc |-> "due", at |-> w, saved |-> v]
        /\ timed' = [timed EXCEPT !.told = a, !.lost = FALSE]
        /\ UNCHANGED <<draft, creatorTask>> /\ callOf[c].does = "schedule task"
    BY <1>0, <1>2 DEF SchedulesPublish, Asked, DraftCalls
  <2> HIDE DEF a, w, v
  <2>2. /\ TimedType' /\ publishTask'.at = w /\ timed'.told = a
    BY <2>1 DEF TimedInv, TimedType, Publications
  <2>3. ASSUME ~crossed PROVE TaskOnTime' /\ SentOnTime'
    <3>1. sent = <<>> /\ publishRun = NoTask /\ creatorTask = NoTask
      BY <1>0, <1>1, <2>1, <2>3 DEF CallSound, SentSound
    <3>2. publishRun' = NoTask /\ creatorTask' = NoTask /\ sent' = <<>> /\ w = a
      BY <1>0, <2>1, <3>1
    <3>3. timed'.told <= publishTask'.at
      <4>1. a \in Nat /\ timed'.told = a /\ publishTask'.at = a
        BY <2>1, <2>2, <3>2
      <4> QED BY <4>1
    <3>4. ~Published'
      BY <3>2 DEF Published, NoTask
    <3> QED BY <3>3, <3>4 DEF TaskOnTime, SentOnTime
  <2> QED BY <1>0, <2>2, <2>3 DEF TimedInv
<1>3. CASE SchedulesCreator(c)
  <2>1. /\ intent' = [intent EXCEPT !.st = "P"] /\ UNCHANGED <<publishTask, timed>>
    BY <1>3 DEF SchedulesCreator
  <2>2. intent'.st = "P"
    BY <1>0, <2>1
  <2> QED BY <1>0, <1>1, <2>1, <2>2
          DEF TimedInv, TimedType, TaskOnTime, SentOnTime, Published
<1>4. CASE Patches(c) \/ MarksScheduled(c) \/ MarksPending(c) \/ CallFindsNoRow(c)
  <2>1. intent'.st = intent.st /\ UNCHANGED <<publishTask, creatorTask, timed>>
    BY <1>0, <1>4 DEF Patches, MarksScheduled, MarksPending, CallFindsNoRow
  <2> QED BY <1>0, <2>1 DEF TimedInv, TimedType, TaskOnTime, SentOnTime, Published
<1>5. CASE CancelsSchedule(c)
  <2>1. intent' = [intent EXCEPT !.st = "R"] /\ UNCHANGED <<publishTask, creatorTask, timed>>
    BY <1>5 DEF CancelsSchedule
  <2>2. intent'.st = "R"
    BY <1>0, <2>1
  <2> QED BY <1>0, <2>1, <2>2 DEF TimedInv, TimedType, TaskOnTime, SentOnTime, Published
<1> QED BY <1>2, <1>3, <1>4, <1>5

(* The tasks: the one that publishes does not begin before it is due.      *)
LEMMA TimedTaskStep ==
    ASSUME DraftsInv, TimedInv,
           PublishTaskStarts \/ PublishTaskMarks \/ PublishTaskCreates \/ CreatorFinalizes
    PROVE  TimedInv'
<1>0. /\ UNCHANGED <<hour, intent>> /\ NoSchedule \in Publications
      /\ NoSchedule.pc = "none" /\ NoTask.pc = "none" /\ hour \in Nat
  BY DEF NoTask, NoSchedule, Publications, DraftsInv, DraftsType, PublishTaskStarts,
         PublishTaskMarks, PublishTaskCreates, CreatorFinalizes
<1>1. CASE PublishTaskStarts
  <2>1. /\ UNCHANGED <<creatorTask, sent>> /\ crossed' \in BOOLEAN /\ (~crossed' => ~crossed)
        /\ publishTask.pc = "due" /\ publishTask.at <= hour /\ publishRun = NoTask
    BY <1>1 DEF PublishTaskStarts
  <2>2. CASE ~StillScheduled(draft.st)
    <3>1. UNCHANGED <<publishRun, timed>> /\ publishTask' = NoSchedule
      BY <1>1, <2>2 DEF PublishTaskStarts
    <3> QED BY <1>0, <2>1, <3>1 DEF TimedInv, TimedType, TaskOnTime, SentOnTime, Published
  <2>3. CASE StillScheduled(draft.st)
    <3>1. /\ publishTask' = [publishTask EXCEPT !.pc = "running"]
          /\ timed' = [timed EXCEPT !.began = hour]
      BY <1>1, <2>3 DEF PublishTaskStarts
    <3>2. /\ TimedType' /\ publishTask'.at = publishTask.at /\ timed'.began = hour
          /\ timed'.told = timed.told /\ timed'.lost = timed.lost /\ timed.told \in Nat
          /\ publishTask.at \in Nat
      BY <1>0, <3>1 DEF TimedInv, TimedType, Publications
    <3>3. ~crossed => timed.lost \/ timed.told <= hour
      BY <1>0, <2>1, <3>2 DEF TimedInv, TaskOnTime
    <3> QED BY <1>0, <2>1, <3>2, <3>3 DEF TimedInv, TaskOnTime, SentOnTime
  <2> QED BY <2>2, <2>3
<1>2. CASE PublishTaskMarks \/ PublishTaskCreates \/ CreatorFinalizes
  <2>1. /\ UNCHANGED <<timed, crossed>> /\ publishTask' \in {publishTask, NoSchedule}
    BY <1>2 DEF PublishTaskMarks, PublishTaskCreates, CreatorFinalizes, PublishTaskEnds
  <2>2. Published' => Published
    <3>1. CASE PublishTaskMarks
      BY <1>0, <3>1 DEF PublishTaskMarks, Published
    <3>2. CASE PublishTaskCreates
      BY <1>0, <3>2 DEF PublishTaskCreates, PublishTaskEnds, Published
    <3>3. CASE CreatorFinalizes
      BY <1>0, <3>3 DEF CreatorFinalizes, Published
    <3> QED BY <1>2, <3>1, <3>2, <3>3
  <2> QED BY <1>0, <2>1, <2>2 DEF TimedInv, TimedType, TaskOnTime, SentOnTime
<1> QED BY <1>1, <1>2

(* The rest: a restart may lose the promise, and then says so.             *)
LEMMA TimedOtherStep ==
    ASSUME DraftsInv, TimedInv, DeletesDraft \/ ServerStops \/ HourPasses
    PROVE  TimedInv'
<1>0. hour \in Nat /\ intent \in [st : DraftStates, content : Nat]
  BY DEF DraftsInv, DraftsType
<1>1. CASE DeletesDraft
  <2>1. /\ intent' = [intent EXCEPT !.st = "gone"] /\ (~crossed' => ~crossed)
        /\ UNCHANGED <<publishTask, publishRun, creatorTask, sent, hour, timed>>
    BY <1>1 DEF DeletesDraft
  <2>2. intent'.st = "gone"
    BY <1>0, <2>1
  <2> QED BY <2>1, <2>2 DEF TimedInv, TimedType, TaskOnTime, SentOnTime, Published
<1>2. CASE ServerStops
  <2> DEFINE l == timed.lost \/ ForgetsTime
  <2>1. /\ publishTask' = IF publishTask.pc = "none" THEN NoSchedule
                          ELSE [publishTask EXCEPT !.pc = "due", !.at = publishTask.saved]
        /\ timed' = [timed EXCEPT !.lost = l] /\ (~crossed' => ~crossed)
        /\ publishRun' = NoTask /\ UNCHANGED <<creatorTask, sent, hour, intent>>
        /\ l \in BOOLEAN
    BY <1>2 DEF ServerStops, TimedInv, TimedType, ForgetsTime
  <2> HIDE DEF l
  <2>2. /\ timed' \in [told : Nat, lost : BOOLEAN, began : Nat]
        /\ timed'.told = timed.told /\ timed'.began = timed.began /\ timed'.lost = l
    BY <2>1 DEF TimedInv, TimedType
  <2>3. publishTask' \in Publications
    BY <2>1 DEF TimedInv, TimedType, Publications, NoSchedule
  <2>4. \/ publishTask'.pc = "none" /\ publishTask.pc = "none"
        \/ publishTask.pc # "none" /\ publishTask'.at = publishTask.saved
    BY <2>1 DEF TimedInv, TimedType, Publications, NoSchedule
  <2>5. ~crossed => TaskOnTime'
    <3>1. /\ publishTask.at \in Nat /\ publishTask.saved \in Nat /\ timed.told \in Nat
          /\ (l <=> timed.lost \/ ForgetsTime)
      BY DEF TimedInv, TimedType, Publications, l
    <3> QED BY <1>0, <2>1, <2>2, <2>4, <3>1 DEF TimedInv, TaskOnTime, ForgetsTime
  <2>6. SentOnTime => SentOnTime'
    BY <2>1, <2>2 DEF SentOnTime, Published, l
  <2> QED BY <2>1, <2>2, <2>3, <2>5, <2>6 DEF TimedInv, TimedType
<1>3. CASE HourPasses
  <2>1. /\ hour' = hour + 1
        /\ UNCHANGED <<publishTask, publishRun, creatorTask, sent, intent, timed, crossed>>
    BY <1>3 DEF HourPasses
  <2>2. timed.told \in Nat
    BY DEF TimedInv, TimedType
  <2> QED BY <1>0, <2>1, <2>2 DEF TimedInv, TimedType, TaskOnTime, SentOnTime, Published
<1> QED BY <1>1, <1>2, <1>3

(* Every step keeps the times.                                             *)
LEMMA TimedStep == DraftsInv /\ TimedInv /\ [DraftsNext]_draftVars => TimedInv'
<1> SUFFICES ASSUME DraftsInv, TimedInv, [DraftsNext]_draftVars PROVE TimedInv'
  OBVIOUS
<1>1. CASE UNCHANGED draftVars
  BY <1>1 DEF draftVars, TimedInv, TimedType, TaskOnTime, SentOnTime, Published
<1>2. ASSUME NEW c \in Calls, NEW does, NEW at, Looks(c, does, at) PROVE TimedInv'
  <2>1. /\ UNCHANGED <<publishTask, publishRun, creatorTask, sent, hour, intent, timed>>
        /\ ~crossed' => ~crossed
    BY <1>2 DEF Looks
  <2> QED BY <2>1 DEF TimedInv, TimedType, TaskOnTime, SentOnTime, Published
<1>3. CASE DraftsNext
  BY <1>2, <1>3, TimedCallStep, TimedTaskStep, TimedOtherStep DEF DraftsNext
<1> QED BY <1>1, <1>3

(* However calls, tasks and restarts interleave, a draft is sent once; and *)
(* when no two of them overlapped, as it was last edited, not after it was *)
(* cancelled or deleted, and not before the hour it was scheduled for      *)
(* unless a restart lost that.                                             *)
THEOREM SentAsMeantCorrect == DraftsSpec => []SentAsMeant
<1>1. DraftsInv /\ TimedInv => SentAsMeant
  <2> SUFFICES ASSUME DraftsInv, TimedInv, ~crossed, sent # <<>>
               PROVE  /\ sent[Len(sent)] = intent.content /\ intent.st \notin {"R", "gone"}
                      /\ intent.st = "S" => timed.lost \/ timed.began >= timed.told
    BY DEF DraftsInv, SentAsMeant
  <2>1. draft.st = "A" /\ sent[Len(sent)] = draft.content /\ Orderly
    BY DEF DraftsInv, Orderly, SentSound
  <2>2. \A c \in Calls : ~InFlight(c)
    BY <2>1 DEF Orderly, CallSound
  <2>3. timed.told \in Nat /\ timed.began \in Nat
    BY DEF TimedInv, TimedType
  <2>4. intent.st = "S" => timed.lost \/ timed.began >= timed.told
    BY <2>3 DEF TimedInv, SentOnTime, Published
  <2> QED BY <2>1, <2>2, <2>4 DEF DraftsInv, Orderly, UserKnows
<1> QED BY <1>1, DraftsInitial, DraftsStep, TimedInitial, TimedStep, PTL DEF DraftsSpec

-----------------------------------------------------------------------------
(***************************************************************************)
(* RtdbStore: a subscription that has its events shows the document.       *)
(***************************************************************************)

ChannelType ==
    /\ cached \in Nat /\ instances \in Nat /\ newest \in Nat
    /\ held \in [Writers -> Nat] /\ channel \in [Readers -> Nat]
    /\ inbox \in [Readers -> Seq(Nat)] /\ view \in [Readers -> Nat]

(* The newest change that was broadcast is the document, unless the one    *)
(* that is the document is still to be broadcast.                          *)
ChangesSound ==
    /\ newest <= stored
    /\ stored = newest \/ \E w \in Writers : step[w] = "broadcast" /\ written[w] = stored
    /\ \A w \in Writers : step[w] = "broadcast" => written[w] <= stored
    /\ \A w \in Writers : step[w] \in Guarded => held[w] # 0

(* The last event a reader has still to receive is the newest change.  One *)
(* that has received all shows it, or what was there when it looked.       *)
ReaderSound(r) ==
    /\ IF step[r] \in {"idle", "guard"} THEN channel[r] = 0 /\ inbox[r] = <<>>
                                        ELSE channel[r] # 0
    /\ r \notin missed /\ inbox[r] # <<>> => inbox[r][Len(inbox[r])] = newest
    /\ r \notin missed /\ inbox[r] = <<>> /\ step[r] \in {"yield", "live"} =>
         newest <= view[r] /\ view[r] <= stored

ChannelInv == StoreInv /\ ChannelType /\ ChangesSound /\ \A r \in Readers : ReaderSound(r)

(* At the start nobody has subscribed.                                     *)
LEMMA ChannelInitial == RtdbInit => ChannelInv
<1> SUFFICES ASSUME RtdbInit PROVE ChannelInv
  OBVIOUS
<1>1. \A a \in Writers \cup Readers : a \in RtdbActors /\ step[a] = "idle"
  BY DEF RtdbInit, RtdbActors
<1>2. <<>> \in Seq(Nat)
  OBVIOUS
<1>3. ChannelType
  BY <1>2 DEF RtdbInit, ChannelType
<1>4. ChangesSound
  BY <1>1 DEF RtdbInit, ChangesSound, Guarded
<1>5. \A r \in Readers : ReaderSound(r)
  BY <1>1 DEF RtdbInit, ReaderSound
<1> QED BY <1>3, <1>4, <1>5, StoreInit DEF ChannelInv

(* An instance has a number.                                               *)
LEMMA InstanceNumbers ==
    ASSUME ChannelInv
    PROVE  /\ CurrentInstance \in Nat /\ CurrentInstance # 0
           /\ OpensInstance => cached' \in Nat /\ instances' \in Nat
  BY DEF ChannelInv, ChannelType, CurrentInstance, OpensInstance

(* A step of another actor that leaves the readers and the document alone. *)
LEMMA ReadersUndisturbed ==
    ASSUME ChannelInv, UNCHANGED readVars, stored' \in Nat, stored <= stored',
           \A r \in Readers : step'[r] = step[r]
    PROVE  \A r \in Readers : ReaderSound(r)'
<1> SUFFICES ASSUME NEW r \in Readers PROVE ReaderSound(r)'
  OBVIOUS
<1>1. /\ stored \in Nat /\ view[r] \in Nat /\ step'[r] = step[r]
      /\ channel'[r] = channel[r] /\ inbox'[r] = inbox[r] /\ view'[r] = view[r]
      /\ newest' = newest /\ missed' = missed /\ ReaderSound(r)
  BY DEF ChannelInv, ChannelType, StoreInv, StoreType, readVars
<1> QED BY <1>1 DEF ReaderSound

(* The steps of a transaction.                                             *)
LEMMA ChannelWriterStep ==
    ASSUME ChannelInv, NEW w \in Writers,
           \/ BeginsTransaction(w) \/ TransactionOpens(w) \/ TakesPermit(w)
           \/ BeginsWrite(w) \/ UpdatesDocument(w) \/ RollsBack(w) \/ CommitsWrite(w)
           \/ BroadcastsChange(w)
    PROVE  ChannelInv'
<1> USE RtdbActorsApart DEF Guarded
<1>0. /\ StoreInv' /\ ChannelType /\ ChangesSound /\ w \in RtdbActors
      /\ \A r \in Readers : r \in RtdbActors /\ r # w /\ ReaderSound(r)
      /\ \A v \in Writers : v \in RtdbActors /\ written[v] \in Nat
      /\ stored \in Nat /\ newest \in Nat
      /\ step \in [RtdbActors -> WriterPlaces \cup ReaderPlaces \cup {"compact"}]
  BY WriterStep DEF ChannelInv, RtdbActors, StoreInv, StoreType, ChannelType
<1>1. CASE BeginsTransaction(w) \/ TakesPermit(w) \/ BeginsWrite(w)
  <2>1. /\ UNCHANGED <<cached, instances, held, written, stored, readVars>>
        /\ \E pc \in {"guard", "begin", "write"} :
             /\ step' = [step EXCEPT ![w] = pc]
             /\ pc = "guard" \/ step[w] \in {"permit", "begin"}
        /\ step[w] \in {"idle", "permit", "begin"}
    BY <1>1 DEF BeginsTransaction, TakesPermit, BeginsWrite, Goes, txVars
  <2>2. ChannelType'
    BY <1>0, <2>1 DEF ChannelType, readVars
  <2>3. ChangesSound'
    BY <1>0, <2>1 DEF ChangesSound, readVars
  <2>4. \A r \in Readers : step'[r] = step[r]
    BY <1>0, <2>1
  <2> QED BY <1>0, <2>1, <2>2, <2>3, <2>4, ReadersUndisturbed DEF ChannelInv
<1>2. CASE TransactionOpens(w)
  <2>1. /\ OpensInstance /\ held' = [held EXCEPT ![w] = CurrentInstance]
        /\ step' = [step EXCEPT ![w] = "permit"] /\ step[w] = "guard"
        /\ UNCHANGED <<written, stored, readVars>>
    BY <1>2 DEF TransactionOpens, Goes
  <2>2. ChannelType'
    BY <1>0, <2>1, InstanceNumbers DEF ChannelType, readVars
  <2>3. ChangesSound'
    BY <1>0, <2>1, InstanceNumbers DEF ChangesSound, ChannelType, readVars
  <2>4. \A r \in Readers : step'[r] = step[r]
    BY <1>0, <2>1
  <2> QED BY <1>0, <2>1, <2>2, <2>3, <2>4, ReadersUndisturbed DEF ChannelInv
<1>3. CASE UpdatesDocument(w)
  <2>1. /\ written' = [written EXCEPT ![w] = stored + 1]
        /\ step' = [step EXCEPT ![w] = "commit"] /\ step[w] = "write"
        /\ UNCHANGED <<cached, instances, held, stored, readVars>>
    BY <1>3 DEF UpdatesDocument, Goes
  <2>2. \A v \in Writers \ {w} : written'[v] = written[v] /\ step'[v] = step[v]
    BY <1>0, <2>1 DEF ChannelInv, StoreInv, StoreType
  <2>3. ChannelType'
    BY <1>0, <2>1 DEF ChannelType, readVars
  <2>4. ChangesSound'
    BY <1>0, <2>1, <2>2 DEF ChangesSound, readVars
  <2>5. \A r \in Readers : step'[r] = step[r]
    BY <1>0, <2>1
  <2> QED BY <1>0, <2>1, <2>3, <2>4, <2>5, ReadersUndisturbed DEF ChannelInv
<1>4. CASE RollsBack(w)
  <2>1. /\ held' = [held EXCEPT ![w] = 0] /\ step[w] \in {"write", "commit"}
        /\ step' = [step EXCEPT ![w] = "idle"]
        /\ UNCHANGED <<cached, instances, written, stored, readVars>>
    BY <1>4 DEF RollsBack, TransactionEnds, Goes
  <2>2. ChannelType'
    BY <1>0, <2>1 DEF ChannelType, readVars
  <2>3. ChangesSound'
    BY <1>0, <2>1 DEF ChangesSound, ChannelType, readVars
  <2>4. \A r \in Readers : step'[r] = step[r]
    BY <1>0, <2>1
  <2> QED BY <1>0, <2>1, <2>2, <2>3, <2>4, ReadersUndisturbed DEF ChannelInv
<1>5. CASE CommitsWrite(w)
  <2>1. /\ step[w] = "commit" /\ step' = [step EXCEPT ![w] = "broadcast"]
        /\ UNCHANGED <<cached, instances, held, written, readVars>>
    BY <1>5 DEF CommitsWrite, Goes
  <2>2. written[w] = stored + 1 /\ stored' = written[w]
    BY <1>0, <1>5 DEF ChannelInv, StoreInv, StoreSound, CommitsWrite, WithHandle
  <2>3. ChannelType'
    BY <1>0, <2>1 DEF ChannelType, readVars
  <2>4. ChangesSound'
    <3>1. \A v \in Writers \ {w} : step'[v] = step[v]
      BY <1>0, <2>1
    <3>2. step'[w] = "broadcast"
      BY <1>0, <2>1
    <3>3. newest' <= stored' /\ written'[w] = stored'
      BY <1>0, <2>1, <2>2 DEF ChangesSound, readVars
    <3>4. ASSUME NEW v \in Writers, step'[v] = "broadcast" PROVE written'[v] <= stored'
      BY <1>0, <2>1, <2>2, <3>1, <3>4 DEF ChangesSound
    <3>5. \A v \in Writers : step'[v] \in Guarded => held'[v] # 0
      BY <1>0, <2>1, <3>1 DEF ChangesSound
    <3> QED BY <3>2, <3>3, <3>4, <3>5 DEF ChangesSound
  <2>5. \A r \in Readers : step'[r] = step[r]
    BY <1>0, <2>1
  <2>6. stored' \in Nat /\ stored <= stored'
    BY <1>0, <2>2
  <2> QED BY <1>0, <2>1, <2>3, <2>4, <2>5, <2>6, ReadersUndisturbed DEF ChannelInv
<1>6. CASE BroadcastsChange(w)
  <2> DEFINE e == written[w]
             n == IF e > newest THEN e ELSE newest
  <2>1. /\ held' = [held EXCEPT ![w] = 0] /\ step[w] = "broadcast"
        /\ step' = [step EXCEPT ![w] = "idle"] /\ newest' = n
        /\ inbox' = [r \in Readers |-> IF channel[r] = held[w]
                                         THEN Received(inbox[r], e) ELSE inbox[r]]
        /\ \A r \in Readers : r \notin missed' /\ channel[r] # 0 =>
             r \notin missed /\ channel[r] = held[w] /\ ~(e < newest)
        /\ \A r \in Readers : r \notin missed' => r \notin missed
        /\ UNCHANGED <<cached, instances, written, stored, channel, view>>
    BY <1>6 DEF BroadcastsChange, TransactionEnds, Goes
  <2>2. e \in Nat /\ e <= stored /\ held[w] # 0 /\ n \in Nat /\ n <= stored
        /\ e <= n /\ newest <= n /\ (~(e < newest) => n = e) /\ (newest = stored => n = stored)
    BY <1>0, <2>1 DEF ChangesSound
  <2> HIDE DEF e, n
  <2>3. \A r \in Readers : Received(inbox[r], e) \in Seq(Nat)
                           /\ Received(inbox[r], e) # <<>>
                           /\ Received(inbox[r], e)[Len(Received(inbox[r], e))] = e
    <3> SUFFICES ASSUME NEW r \in Readers
                 PROVE  Received(inbox[r], e) \in Seq(Nat)
                        /\ Received(inbox[r], e) # <<>>
                        /\ Received(inbox[r], e)[Len(Received(inbox[r], e))] = e
      OBVIOUS
    <3>1. PICK q \in Seq(Nat) : q = inbox[r]
      BY <1>0 DEF ChannelType
    <3>2. CASE Len(q) < BroadcastCapacity
      <4>1. Received(inbox[r], e) = Append(q, e)
        BY <3>1, <3>2 DEF Received
      <4> QED BY <2>2, <4>1
    <3>3. CASE ~(Len(q) < BroadcastCapacity)
      <4>1. Received(inbox[r], e) = Append(Tail(q), e)
        BY <3>1, <3>3 DEF Received
      <4>2. q # <<>>
        BY <3>3, RtdbBounds
      <4>3. Tail(q) \in Seq(Nat)
        BY <4>2
      <4> QED BY <2>2, <4>1, <4>3
    <3> QED BY <3>2, <3>3
  <2>4. ChannelType'
    <3>1. inbox' \in [Readers -> Seq(Nat)]
      BY <1>0, <2>1, <2>3 DEF ChannelType
    <3> QED BY <1>0, <2>1, <2>2, <3>1 DEF ChannelType
  <2>5. ChangesSound'
    <3>1. /\ \A v \in Writers \ {w} : step'[v] = step[v] /\ held'[v] = held[v]
          /\ step'[w] = "idle"
      BY <1>0, <2>1 DEF ChannelType
    <3>2. stored = n \/ \E v \in Writers \ {w} : step[v] = "broadcast" /\ written[v] = stored
      <4>1. CASE stored = newest
        BY <2>2, <4>1
      <4>2. CASE stored # newest
        <5>1. PICK v \in Writers : step[v] = "broadcast" /\ written[v] = stored
          BY <1>0, <4>2 DEF ChangesSound
        <5>2. v = w => n = stored
          BY <1>0, <2>2, <5>1 DEF e, n
        <5> QED BY <5>1, <5>2
      <4> QED BY <4>1, <4>2
    <3> QED BY <1>0, <2>1, <2>2, <3>1, <3>2 DEF ChangesSound
  <2>6. ASSUME NEW r \in Readers PROVE ReaderSound(r)'
    <3>1. /\ step'[r] = step[r] /\ channel'[r] = channel[r] /\ view'[r] = view[r]
          /\ inbox'[r] = IF channel[r] = held[w] THEN Received(inbox[r], e) ELSE inbox[r]
      BY <1>0, <2>1
    <3>2. CASE channel[r] = 0
      <4>1. step[r] \in {"idle", "guard"} /\ inbox'[r] = <<>>
        BY <1>0, <2>2, <3>1, <3>2 DEF ReaderSound
      <4> QED BY <3>1, <3>2, <4>1 DEF ReaderSound
    <3>3. CASE channel[r] # 0
      <4>1. step[r] \notin {"idle", "guard"}
        BY <1>0, <3>3 DEF ReaderSound
      <4>2. r \notin missed' => inbox'[r] = Received(inbox[r], e) /\ n = e
        BY <2>1, <2>2, <3>1, <3>3
      <4> QED BY <2>1, <2>3, <3>1, <3>3, <4>1, <4>2 DEF ReaderSound
    <3> QED BY <3>2, <3>3
  <2> QED BY <1>0, <2>4, <2>5, <2>6 DEF ChannelInv
<1> QED BY <1>1, <1>2, <1>3, <1>4, <1>5, <1>6

(* What only a reader's step changes.                                      *)
LEMMA OneReaderMoves ==
    ASSUME ChannelInv, NEW r \in Readers, StoreInv', ChannelType',
           UNCHANGED <<held, written, stored, newest>>,
           \A a \in RtdbActors \ {r} : step'[a] = step[a],
           \A q \in Readers \ {r} : /\ channel'[q] = channel[q] /\ inbox'[q] = inbox[q]
                                    /\ view'[q] = view[q] /\ (q \in missed' <=> q \in missed),
           ReaderSound(r)'
    PROVE  ChannelInv'
<1>1. /\ ChangesSound /\ \A q \in Readers : ReaderSound(q)
      /\ \A w \in Writers : w \in RtdbActors /\ w # r
      /\ \A q \in Readers : q \in RtdbActors
  BY RtdbActorsApart DEF ChannelInv, RtdbActors
<1>2. \A w \in Writers : step'[w] = step[w]
  BY <1>1
<1>3. ChangesSound'
  BY <1>1, <1>2 DEF ChangesSound
<1>4. ASSUME NEW q \in Readers, q # r PROVE ReaderSound(q)'
  <2>1. step'[q] = step[q]
    BY <1>1, <1>4
  <2> QED BY <1>1, <1>4, <2>1 DEF ReaderSound
<1> QED BY <1>3, <1>4 DEF ChannelInv

(* The steps of a subscription.                                            *)
LEMMA ChannelReaderStep ==
    ASSUME ChannelInv, NEW r \in Readers,
           \/ Subscribes(r) \/ OpensChannel(r) \/ ReadsSnapshot(r) \/ YieldsSnapshot(r)
           \/ ReceivesChange(r) \/ StreamEnds(r) \/ Unsubscribes(r)
    PROVE  ChannelInv'
<1>0. /\ StoreInv' /\ ChannelType /\ ReaderSound(r) /\ r \in RtdbActors
      /\ stored \in Nat /\ newest \in Nat /\ newest <= stored
      /\ step \in [RtdbActors -> WriterPlaces \cup ReaderPlaces \cup {"compact"}]
      /\ UNCHANGED <<held, written, stored, newest>>
  BY ReaderStep
  DEF ChannelInv, RtdbActors, StoreInv, StoreType, ChannelType, ChangesSound, Subscribes,
      OpensChannel, ReadsSnapshot, YieldsSnapshot, ReceivesChange, StreamEnds, Unsubscribes,
      txVars, readVars
<1>1. CASE Subscribes(r)
  <2>1. /\ step[r] = "idle" /\ step' = [step EXCEPT ![r] = "guard"]
        /\ UNCHANGED <<cached, instances, channel, inbox, view, missed>>
    BY <1>1 DEF Subscribes, Goes, readVars
  <2>2. ReaderSound(r)' /\ ChannelType' /\ \A a \in RtdbActors \ {r} : step'[a] = step[a]
    BY <1>0, <2>1 DEF ReaderSound, ChannelType
  <2> QED BY <1>0, <2>1, <2>2, OneReaderMoves
<1>2. CASE OpensChannel(r)
  <2>1. /\ step[r] = "guard" /\ step' = [step EXCEPT ![r] = "query"] /\ OpensInstance
        /\ channel' = [channel EXCEPT ![r] = CurrentInstance]
        /\ UNCHANGED <<inbox, view, missed>>
    BY <1>2 DEF OpensChannel, Goes, Joins, JoinsAt
  <2>2. /\ ChannelType' /\ channel'[r] # 0 /\ step'[r] = "query"
        /\ \A q \in Readers \ {r} : channel'[q] = channel[q]
        /\ \A a \in RtdbActors \ {r} : step'[a] = step[a]
    BY <1>0, <2>1, InstanceNumbers DEF ChannelType
  <2>3. ReaderSound(r)'
    BY <1>0, <2>1, <2>2 DEF ReaderSound
  <2> QED BY <1>0, <2>1, <2>2, <2>3, OneReaderMoves
<1>3. CASE ReadsSnapshot(r)
  <2>1. /\ step[r] = "query" /\ step' = [step EXCEPT ![r] = "yield"] /\ OpensInstance
        /\ view' = [view EXCEPT ![r] = stored]
        /\ UNCHANGED <<channel, inbox, missed>>
    BY <1>3 DEF ReadsSnapshot, Goes
  <2>2. /\ ChannelType' /\ view'[r] = stored /\ step'[r] = "yield"
        /\ \A q \in Readers \ {r} : view'[q] = view[q]
        /\ \A a \in RtdbActors \ {r} : step'[a] = step[a]
    BY <1>0, <2>1, InstanceNumbers DEF ChannelType
  <2>3. ReaderSound(r)'
    BY <1>0, <2>1, <2>2 DEF ReaderSound
  <2> QED BY <1>0, <2>1, <2>2, <2>3, OneReaderMoves
<1>4. CASE YieldsSnapshot(r)
  <2>1. /\ step[r] = "yield" /\ step' = [step EXCEPT ![r] = "live"]
        /\ UNCHANGED <<cached, instances, channel, inbox, view, missed>>
    BY <1>4 DEF YieldsSnapshot, Goes, Joins, JoinsAt
  <2>2. ReaderSound(r)' /\ ChannelType' /\ \A a \in RtdbActors \ {r} : step'[a] = step[a]
    BY <1>0, <2>1 DEF ReaderSound, ChannelType
  <2> QED BY <1>0, <2>1, <2>2, OneReaderMoves
<1>5. CASE ReceivesChange(r)
  <2>1. PICK q \in Seq(Nat) : q = inbox[r]
    BY <1>0 DEF ChannelType
  <2>2. /\ step[r] = "live" /\ q # <<>> /\ view' = [view EXCEPT ![r] = Head(q)]
        /\ inbox' = [inbox EXCEPT ![r] = Tail(q)]
        /\ UNCHANGED <<step, cached, instances, channel, missed>>
    BY <1>5, <2>1 DEF ReceivesChange
  <2>3. /\ Head(q) \in Nat /\ Tail(q) \in Seq(Nat) /\ Len(Tail(q)) = Len(q) - 1
        /\ Tail(q) = <<>> => Head(q) = q[Len(q)]
        /\ Tail(q) # <<>> => Tail(q)[Len(Tail(q))] = q[Len(q)]
    <3>1. Len(q) \in Nat /\ Len(q) # 0 /\ Tail(q) \in Seq(Nat) /\ Len(Tail(q)) = Len(q) - 1
      BY <2>2
    <3>2. Head(q) = q[1] /\ Head(q) \in Nat
      BY <2>2, <3>1
    <3>3. \A i \in 1..Len(Tail(q)) : Tail(q)[i] = q[i + 1]
      BY <2>2, <3>1
    <3>4. Tail(q) = <<>> => Len(q) = 1
      <4>1. PICK t \in Seq(Nat) : t = Tail(q)
        BY <3>1
      <4>2. t = <<>> => Len(t) = 0
        OBVIOUS
      <4> QED BY <3>1, <4>1, <4>2
    <3>5. Tail(q) # <<>> => Len(Tail(q)) \in 1..Len(Tail(q))
      BY <3>1
    <3> QED BY <3>1, <3>2, <3>3, <3>4, <3>5
  <2>4. /\ ChannelType' /\ view'[r] = Head(q) /\ inbox'[r] = Tail(q)
        /\ \A p \in Readers \ {r} : view'[p] = view[p] /\ inbox'[p] = inbox[p]
    BY <1>0, <2>2, <2>3 DEF ChannelType
  <2>5. ReaderSound(r)'
    BY <1>0, <2>1, <2>2, <2>3, <2>4 DEF ReaderSound
  <2> QED BY <1>0, <2>2, <2>4, <2>5, OneReaderMoves
<1>6. CASE StreamEnds(r)
  <2>1. /\ step[r] = "live" /\ step' = [step EXCEPT ![r] = "ended"]
        /\ UNCHANGED <<cached, instances, channel, inbox, view, missed>>
    BY <1>6 DEF StreamEnds, Goes, readVars
  <2>2. ReaderSound(r)' /\ ChannelType' /\ \A a \in RtdbActors \ {r} : step'[a] = step[a]
    BY <1>0, <2>1 DEF ReaderSound, ChannelType
  <2> QED BY <1>0, <2>1, <2>2, OneReaderMoves
<1>7. CASE Unsubscribes(r)
  <2>1. /\ step' = [step EXCEPT ![r] = "idle"]
        /\ channel' = [channel EXCEPT ![r] = 0] /\ inbox' = [inbox EXCEPT ![r] = <<>>]
        /\ view' = [view EXCEPT ![r] = 0] /\ missed' = missed \ {r}
        /\ UNCHANGED <<cached, instances>>
    BY <1>7 DEF Unsubscribes, Goes
  <2>2. <<>> \in Seq(Nat)
    OBVIOUS
  <2>3. /\ ChannelType' /\ step'[r] = "idle" /\ channel'[r] = 0 /\ inbox'[r] = <<>>
        /\ \A a \in RtdbActors \ {r} : step'[a] = step[a]
        /\ \A q \in Readers \ {r} : /\ channel'[q] = channel[q] /\ inbox'[q] = inbox[q]
                                    /\ view'[q] = view[q] /\ (q \in missed' <=> q \in missed)
    BY <1>0, <2>1, <2>2 DEF ChannelType
  <2>4. ReaderSound(r)'
    BY <2>3 DEF ReaderSound
  <2> QED BY <1>0, <2>3, <2>4, OneReaderMoves
<1> QED BY <1>1, <1>2, <1>3, <1>4, <1>5, <1>6, <1>7

(* Every step keeps the invariant.                                         *)
LEMMA ChannelStep == ChannelInv /\ [RtdbNext]_rtdbVars => ChannelInv'
<1> SUFFICES ASSUME ChannelInv, [RtdbNext]_rtdbVars PROVE ChannelInv'
  OBVIOUS
<1>1. CASE UNCHANGED rtdbVars
  <2>1. StoreInv'
    BY StoreStep DEF ChannelInv
  <2> QED BY <1>1, <2>1 DEF rtdbVars, ChannelInv, ChannelType, ChangesSound, ReaderSound
<1>2. CASE CompactionWaits \/ CompactionStarts \/ CompactionEnds \/ EvictsInstance
  <2>1. /\ StoreInv' /\ ChannelType /\ ChangesSound /\ stored \in Nat
        /\ UNCHANGED <<instances, held, written, stored, readVars>>
        /\ cached' \in {cached, 0}
        /\ \A a \in Writers \cup Readers : step'[a] = step[a]
    <3>1. StoreInv' /\ ChannelType /\ ChangesSound /\ stored \in Nat
      BY <1>2, CompactionStep DEF ChannelInv, StoreInv, StoreType
    <3>2. /\ UNCHANGED <<instances, held, written, stored, readVars>>
          /\ cached' \in {cached, 0}
          /\ step' = step \/ \E pc \in {"idle", "guard", "compact"} :
                               step' = [step EXCEPT ![Compactor] = pc]
      BY <1>2 DEF CompactionWaits, CompactionStarts, CompactionEnds, EvictsInstance, Goes,
                  txVars
    <3>3. \A a \in Writers \cup Readers : a \in RtdbActors /\ a # Compactor
      BY RtdbActorsApart DEF RtdbActors
    <3>4. \A a \in Writers \cup Readers : step'[a] = step[a]
      BY <3>2, <3>3 DEF ChannelInv, StoreInv, StoreType
    <3> QED BY <3>1, <3>2, <3>4
  <2>2. ChannelType'
    BY <2>1 DEF ChannelType, readVars
  <2>3. ChangesSound'
    BY <2>1 DEF ChangesSound, readVars
  <2> QED BY <2>1, <2>2, <2>3, ReadersUndisturbed DEF ChannelInv
<1>3. CASE RtdbNext
  BY <1>2, <1>3, ChannelWriterStep, ChannelReaderStep DEF RtdbNext, RtdbProgress
<1> QED BY <1>1, <1>3

(* A subscription that has received all its events shows the document, if  *)
(* none was lost and no two were broadcast out of order.                   *)
THEOREM SubscribersAgreeCorrect == RtdbSpec => []SubscribersAgree
<1>1. ChannelInv => SubscribersAgree
  <2> SUFFICES ASSUME ChannelInv, NEW r \in Readers, r \notin missed, step[r] = "live",
                      inbox[r] = <<>>, \A w \in Writers : step[w] # "broadcast"
               PROVE  view[r] = stored
    BY DEF SubscribersAgree
  <2>1. stored \in Nat /\ view[r] \in Nat /\ stored = newest
        /\ newest <= view[r] /\ view[r] <= stored
    BY DEF ChannelInv, ChannelType, StoreInv, StoreType, ChangesSound, ReaderSound
  <2> QED BY <2>1
<1> QED BY <1>1, ChannelInitial, ChannelStep, PTL DEF RtdbSpec

(***************************************************************************)
(* Sites: the entry serves what the tables hold.                           *)
(***************************************************************************)

SitePlaces == {"rest", "rebuild", "site", "docs", "insert", "profile", "owner", "cold",
               "config", "nav", "publish", "served", "swap"}
SitePaths == MountPaths \cup {"", "/"}
Containers == Int \X (SitePaths \cup {"explicit"})

(* A container is mounted at the path it was built for.                    *)
SiteMounts == {m \in [path : SitePaths, file : Containers] : m.path = m.file[2]}
SiteRows == [mount : SitePaths, live : SiteMounts, previous : SiteMounts]
Entries == [there : BOOLEAN, owner : Int, nav : Containers, mounts : SUBSET SiteMounts]
SiteRequests == {c \in [pc : SitePlaces, doc : SiteDocs \cup {0}, container : Containers,
                     mount : SitePaths, owner : Int, nav : Int, read : Entries] :
                c.container[2] = c.mount}

SitesType ==
    /\ ownerName \in Int /\ siteNav \in Int
    /\ docRow \in [SiteDocs -> SiteRows]
    /\ entry \in Entries
    /\ callAt \in [Leaders -> SiteRequests]
    /\ generations \in Nat

(* A tenant without a site has nothing published, and nobody publishes.    *)
NoSiteSound ==
    siteNav = NoRecord =>
      /\ entry = NoEntry
      /\ \A d \in SiteDocs : docRow[d].live = NoMount /\ docRow[d].previous = NoMount
      /\ \A l \in Leaders : callAt[l].read = NoEntry /\ callAt[l].pc \notin {"publish", "served", "swap"}

(* The fields of the entry that a request is on its way to write.          *)
Refreshing(l) ==
    CASE callAt[l].pc \in {"rebuild", "site", "docs", "insert"} -> DOMAIN NoEntry
      [] callAt[l].pc \in {"profile", "owner", "cold"} -> {"owner"}
      [] callAt[l].pc \in {"config", "nav"} -> {"nav"}
      [] OTHER -> {}

(* A field that differs from the tables, and was not written from a row    *)
(* read before the row was changed, is on its way to be written.           *)
Refreshed == \A f \in Differing(entry) \ stale : \E l \in Leaders : f \in Refreshing(l)

SitesInv == SitesType /\ NoSiteSound /\ (Contested \/ Refreshed)

(* The fields of an entry.                                                 *)
LEMMA SiteFields == DOMAIN NoEntry = {"there", "owner", "nav", "mounts"}
  BY DEF NoEntry

(* The values the tables and the requests begin with.                      *)
LEMMA SiteShapes ==
    /\ NoContainer \in Containers /\ NoMount \in SiteMounts /\ NoDoc \in SiteRows
    /\ NoEntry \in Entries /\ AtRest \in SiteRequests /\ Root \in SiteMounts
    /\ Root # NoMount
<1>1. NoContainer \in Containers /\ NoContainer[2] = ""
  <2>1. 0 \in Int /\ "" \in SitePaths \cup {"explicit"}
    BY DEF SitePaths
  <2>2. <<0, "">> \in Int \X (SitePaths \cup {"explicit"})
    BY <2>1
  <2> QED BY <2>2 DEF NoContainer, Containers
<1>2. NoMount \in SiteMounts
  BY <1>1 DEF NoMount, SiteMounts, SitePaths
<1>3. NoDoc \in SiteRows
  BY <1>2 DEF NoDoc, SiteRows, SitePaths
<1>4. NoEntry \in Entries
  <2>1. FALSE \in BOOLEAN /\ 0 \in Int /\ {} \in SUBSET SiteMounts
    OBVIOUS
  <2> QED BY <1>1, <2>1 DEF NoEntry, Entries
<1>5. AtRest \in SiteRequests
  <2>1. "rest" \in SitePlaces /\ "" \in SitePaths /\ 0 \in Int /\ 0 \in SiteDocs \cup {0}
    BY DEF SitePlaces, SitePaths
  <2>2. AtRest \in [pc : SitePlaces, doc : SiteDocs \cup {0}, container : Containers,
                    mount : SitePaths, owner : Int, nav : Int, read : Entries]
    BY <1>1, <1>4, <2>1 DEF AtRest
  <2>3. AtRest.container[2] = AtRest.mount
    BY <1>1 DEF AtRest
  <2> QED BY <2>2, <2>3 DEF SiteRequests
<1>6. Root.file \in Containers /\ Root.file[2] = "/" /\ Root.path = "/"
  <2>1. 1 \in Int /\ "/" \in SitePaths \cup {"explicit"}
    BY DEF SitePaths
  <2>2. <<1, "/">> \in Int \X (SitePaths \cup {"explicit"})
    BY <2>1
  <2>3. Root.file = <<1, "/">> /\ Root.path = "/"
    BY DEF Root
  <2> QED BY <2>2, <2>3 DEF Containers
<1>7. Root \in SiteMounts
  BY <1>6 DEF Root, SiteMounts, SitePaths
<1>8. Root # NoMount
  <2>1. NoMount.path = ""
    BY DEF NoMount
  <2> QED BY <1>6, <2>1
<1> QED BY <1>1, <1>2, <1>3, <1>4, <1>5, <1>7, <1>8

(* The mounts of rows are well mounted, and an entry built from them is    *)
(* an entry.                                                               *)
LEMMA MountsShape == SitesType => MountsFromDocs \subseteq SiteMounts
  BY DEF SitesType, MountsFromDocs, SiteRows

(* The nav of an entry is a container, whichever way it is resolved.       *)
LEMMA NavShape ==
    ASSUME NEW mounts \in SUBSET SiteMounts, NEW nav \in Int
    PROVE  ResolveNav(nav, mounts) \in Containers
<1>1. DerivedNav(mounts) \in Containers
  <2>1. CASE \E m \in mounts : m.path = "/"
    <3> DEFINE top == CHOOSE m \in mounts : m.path = "/"
    <3>1. top \in mounts
      BY <2>1
    <3>2. top.file \in Containers
      BY <3>1 DEF SiteMounts
    <3> QED BY <2>1, <3>2 DEF DerivedNav
  <2>2. CASE ~\E m \in mounts : m.path = "/"
    BY <2>2, SiteShapes DEF DerivedNav
  <2> QED BY <2>1, <2>2
<1>2. <<nav, "explicit">> \in Containers
  BY DEF Containers
<1> QED BY <1>1, <1>2 DEF ResolveNav

(* What a rebuild inserts is an entry.                                     *)
LEMMA BuiltShape ==
    ASSUME NEW mounts \in SUBSET SiteMounts, NEW nav \in Int, NEW owner \in Int
    PROVE  BuildEntry(owner, nav, mounts) \in Entries
  BY NavShape, SiteShapes DEF BuildEntry, Entries

(* Where no path is contested, every live generation is mounted.           *)
LEMMA Uncontested ==
    ~Contested => MountsFromDocs = {docRow[d].live :
                                      d \in {x \in SiteDocs : docRow[x].live # NoMount}}
  BY DEF Contested, MountsFromDocs

-----------------------------------------------------------------------------
(* At the start the entry is what a rebuild would insert.                  *)
LEMMA SitesInitial == SitesInit => SitesInv
<1> SUFFICES ASSUME SitesInit PROVE SitesInv
  OBVIOUS
<1>1. callAt = [l \in Leaders |-> AtRest] /\ ownerName = 0 /\ stale = {}
  BY DEF SitesInit
<1>2. CASE siteNav = NoRecord
  <2>1. docRow = [d \in SiteDocs |-> NoDoc] /\ entry = NoEntry /\ generations = 0
    BY <1>2 DEF SitesInit, NoRecord
  <2>2. SitesType
    BY <1>1, <1>2, <2>1, SiteShapes DEF SitesType, NoRecord
  <2>3. NoSiteSound
    BY <1>1, <2>1 DEF NoSiteSound, NoDoc, AtRest
  <2>4. Current = NoEntry
    BY <1>2 DEF Current, BuildEntry
  <2>5. Refreshed
    BY <2>1, <2>4 DEF Refreshed, Differing
  <2> QED BY <2>2, <2>3, <2>5 DEF SitesInv
<1>3. CASE siteNav # NoRecord
  <2> DEFINE row == [NoDoc EXCEPT !.mount = "/", !.live = Root]
  <2>1. /\ docRow = [d \in SiteDocs |-> IF d = 1 THEN row ELSE NoDoc]
        /\ entry = [there |-> TRUE, owner |-> 0, nav |-> Root.file, mounts |-> {Root}]
        /\ generations = 1 /\ siteNav = 0
    BY <1>3 DEF SitesInit
  <2>2. row \in SiteRows /\ row.live = Root
    BY SiteShapes DEF SiteRows, SitePaths
  <2>3. entry \in Entries
    <3>1. Root.file \in Containers /\ {Root} \subseteq SiteMounts
      BY SiteShapes DEF SiteMounts
    <3> QED BY <2>1, <3>1 DEF Entries
  <2>4. \A d \in SiteDocs : docRow[d].live = IF d = 1 THEN Root ELSE NoMount
    BY <2>1, <2>2 DEF NoDoc
  <2>5. SitesType
    BY <1>1, <2>1, <2>2, <2>3, SiteShapes DEF SitesType
  <2>6. NoSiteSound
    BY <1>3 DEF NoSiteSound
  <2>7. MountsFromDocs = {Root}
    <3>1. ~Contested
      <4>1. Root.path # NoMount.path
        BY DEF Root, NoMount
      <4> QED BY <2>4, <4>1 DEF Contested
    <3> QED BY <2>4, <3>1, Uncontested, SiteShapes, SitesAssumption
  <2>8. Current = entry
    <3>1. DerivedNav({Root}) = Root.file
      BY DEF DerivedNav, Root
    <3>2. ResolveNav(0, {Root}) = Root.file
      BY <3>1 DEF ResolveNav
    <3>3. BuildEntry(0, 0, {Root}) = entry
      <4>1. 0 # NoRecord /\ {Root} # {}
        BY DEF NoRecord
      <4> QED BY <2>1, <3>2, <4>1 DEF BuildEntry
    <3> QED BY <1>1, <2>1, <2>7, <3>3 DEF Current
  <2>9. Refreshed
    BY <2>8 DEF Refreshed, Differing
  <2> QED BY <2>5, <2>6, <2>9 DEF SitesInv
<1> QED BY <1>2, <1>3
-----------------------------------------------------------------------------
(* A request that moves on.                                                *)
LEMMA RequestMoves ==
    ASSUME SitesType, NEW l \in Leaders, NEW c \in SiteRequests,
           callAt' = [callAt EXCEPT ![l] = c]
    PROVE  /\ callAt' \in [Leaders -> SiteRequests]
           /\ callAt'[l] = c /\ \A k \in Leaders \ {l} : callAt'[k] = callAt[k]
  BY DEF SitesType

(* What the entry is to hold depends on the rows only, and on no row but   *)
(* the live generations when no path is contested.                         *)
LEMMA SameTables ==
    ASSUME UNCHANGED <<ownerName, siteNav, docRow>>
    PROVE  Current' = Current /\ MountsFromDocs' = MountsFromDocs /\ Contested' = Contested
  BY DEF Current, MountsFromDocs, Contested, Precedes

(* A step that touches neither the tables nor the entry, and after which   *)
(* the request is on its way to the fields it was on its way to.           *)
LEMMA RequestGoesOn ==
    ASSUME SitesInv, NEW l \in Leaders, NEW c \in SiteRequests,
           UNCHANGED <<ownerName, siteNav, docRow, entry, stale>>, generations' \in Nat,
           callAt' = [callAt EXCEPT ![l] = c],
           siteNav = NoRecord => c.read = NoEntry /\ c.pc \notin {"publish", "served", "swap"},
           Refreshing(l) \subseteq Refreshing(l)'
    PROVE  SitesInv'
<1>1. /\ callAt' \in [Leaders -> SiteRequests]
      /\ callAt'[l] = c /\ \A k \in Leaders \ {l} : callAt'[k] = callAt[k]
  BY RequestMoves DEF SitesInv
<1>2. SitesType'
  BY <1>1 DEF SitesInv, SitesType
<1>3. NoSiteSound'
  BY <1>1 DEF SitesInv, NoSiteSound
<1>4. Current' = Current /\ Contested' = Contested
  BY SameTables
<1>5. \A k \in Leaders : Refreshing(k) \subseteq Refreshing(k)'
  BY <1>1 DEF Refreshing
<1>6. Differing(entry)' = Differing(entry)
  BY <1>4 DEF Differing
<1>7. Refreshed => Refreshed'
  BY <1>5, <1>6 DEF Refreshed
<1> QED BY <1>2, <1>3, <1>4, <1>7 DEF SitesInv

(* A request that writes fields of the entry, each as the tables have it   *)
(* or marked as stale, and is done.                                        *)
LEMMA EntryWritten ==
    ASSUME SitesInv, NEW l \in Leaders, NEW F \in SUBSET DOMAIN NoEntry,
           UNCHANGED <<ownerName, siteNav, docRow, generations>>, Answers(l),
           entry' \in Entries, siteNav = NoRecord => entry' = NoEntry,
           Refreshing(l) \subseteq F,
           \A f \in DOMAIN NoEntry \ F :
             entry'[f] = entry[f] /\ (f \in stale' <=> f \in stale),
           \A f \in F : entry'[f] = Current[f] \/ f \in stale'
    PROVE  SitesInv'
<1>1. /\ callAt' \in [Leaders -> SiteRequests]
      /\ callAt'[l] = AtRest /\ \A k \in Leaders \ {l} : callAt'[k] = callAt[k]
  BY RequestMoves, SiteShapes DEF SitesInv, Answers
<1>2. SitesType'
  BY <1>1 DEF SitesInv, SitesType
<1>3. NoSiteSound'
  <2>1. AtRest.pc = "rest" /\ AtRest.read = NoEntry
    BY DEF AtRest
  <2> QED BY <1>1, <2>1 DEF SitesInv, NoSiteSound
<1>4. Current' = Current /\ Contested' = Contested
  BY SameTables
<1>5. ASSUME Refreshed, NEW f \in Differing(entry)', f \notin stale'
      PROVE  \E k \in Leaders : f \in Refreshing(k)'
  <2>1. f \in DOMAIN NoEntry /\ entry'[f] # Current[f]
    BY <1>4, <1>5 DEF Differing
  <2>2. f \notin F
    BY <1>5, <2>1
  <2>3. f \in Differing(entry) \ stale
    BY <1>5, <2>1, <2>2 DEF Differing
  <2>4. PICK k \in Leaders : f \in Refreshing(k)
    BY <1>5, <2>3 DEF Refreshed
  <2>5. k # l
    BY <2>2, <2>4
  <2>6. Refreshing(k)' = Refreshing(k)
    BY <1>1, <2>5 DEF Refreshing
  <2> QED BY <2>4, <2>6
<1>6. Refreshed => Refreshed'
  BY <1>5 DEF Refreshed
<1> QED BY <1>2, <1>3, <1>4, <1>6 DEF SitesInv

(* A request that writes the tables, and is on its way to the fields that  *)
(* depend on what it has written.                                          *)
LEMMA TablesWritten ==
    ASSUME SitesInv, NEW l \in Leaders, NEW c \in SiteRequests,
           UNCHANGED <<entry, stale>>, callAt' = [callAt EXCEPT ![l] = c],
           ownerName' \in Int, siteNav' \in Int, docRow' \in [SiteDocs -> SiteRows],
           generations' \in Nat, Refreshing(l) = {},
           siteNav' = NoRecord =>
             /\ siteNav = NoRecord /\ c.read = NoEntry /\ c.pc \notin {"publish", "served", "swap"}
             /\ \A d \in SiteDocs : docRow'[d].live = NoMount /\ docRow'[d].previous = NoMount,
           \/ Refreshing(l)' = DOMAIN NoEntry
           \/ /\ Contested' = Contested
              /\ ~Contested => \A f \in DOMAIN NoEntry \ Refreshing(l)' :
                                 Current'[f] = Current[f]
    PROVE  SitesInv'
<1>1. /\ callAt' \in [Leaders -> SiteRequests]
      /\ callAt'[l] = c /\ \A k \in Leaders \ {l} : callAt'[k] = callAt[k]
  BY RequestMoves DEF SitesInv
<1>2. SitesType'
  BY <1>1 DEF SitesInv, SitesType
<1>3. NoSiteSound'
  BY <1>1 DEF SitesInv, NoSiteSound
<1>4. CASE Refreshing(l)' = DOMAIN NoEntry
  <2>1. Refreshed'
    BY <1>4 DEF Refreshed, Differing
  <2> QED BY <1>2, <1>3, <2>1 DEF SitesInv
<1>5. CASE Refreshing(l)' # DOMAIN NoEntry /\ ~Contested
  <2>1. Refreshed
    BY <1>5 DEF SitesInv
  <2>2. ASSUME NEW f \in Differing(entry)', f \notin stale', f \notin Refreshing(l)'
        PROVE  \E k \in Leaders : f \in Refreshing(k)'
    <3>1. f \in Differing(entry) \ stale
      BY <1>5, <2>2 DEF Differing
    <3>2. PICK k \in Leaders : f \in Refreshing(k)
      BY <2>1, <3>1 DEF Refreshed
    <3>3. k # l
      BY <3>2
    <3>4. Refreshing(k)' = Refreshing(k)
      BY <1>1, <3>3 DEF Refreshing
    <3> QED BY <3>2, <3>4
  <2>3. Refreshed'
    BY <2>2 DEF Refreshed
  <2> QED BY <1>2, <1>3, <2>3 DEF SitesInv
<1>6. CASE Refreshing(l)' # DOMAIN NoEntry /\ Contested
  BY <1>2, <1>3, <1>6 DEF SitesInv
<1> QED BY <1>4, <1>5, <1>6

-----------------------------------------------------------------------------
(* The refreshes.                                                          *)
LEMMA RefreshStep ==
    ASSUME SitesInv, NEW l \in Leaders,
           \/ ReadsTenant(l) \/ ReadsSite(l) \/ ListsDocs(l) \/ InsertsEntry(l)
           \/ ReadsOwner(l) \/ PatchesOwner(l) \/ FindsSite(l) \/ ReadsNav(l) \/ PatchesNav(l)
    PROVE  SitesInv'
<1>0. /\ callAt[l] \in SiteRequests /\ callAt[l].read \in Entries /\ entry \in Entries
      /\ callAt[l].owner \in Int /\ callAt[l].nav \in Int
      /\ ownerName \in Int /\ siteNav \in Int /\ generations \in Nat
      /\ callAt \in [Leaders -> SiteRequests]
      /\ siteNav = NoRecord => /\ entry = NoEntry /\ callAt[l].read = NoEntry
                               /\ MountsFromDocs = {} /\ Current = NoEntry
  BY DEF SitesInv, SitesType, SiteRequests, NoSiteSound, MountsFromDocs, Current, BuildEntry
<1>10. {"site", "docs", "insert", "owner", "cold", "nav", "rebuild"} \subseteq SitePlaces
  BY DEF SitePlaces
<1>1. CASE ReadsTenant(l)
  <2> DEFINE c == [callAt[l] EXCEPT !.pc = "site", !.owner = ownerName]
  <2>1. /\ c \in SiteRequests /\ c.pc = "site" /\ c.read = callAt[l].read
    BY <1>0, <1>10 DEF SiteRequests
  <2>2. callAt' = [callAt EXCEPT ![l] = c] /\ callAt[l].pc = "rebuild"
        /\ UNCHANGED <<ownerName, siteNav, docRow, entry, stale, generations>>
    BY <1>0, <1>1 DEF ReadsTenant, KeepsTables, KeepsEntry, Call
  <2> HIDE DEF c
  <2>3. Refreshing(l)' = DOMAIN NoEntry /\ Refreshing(l) = DOMAIN NoEntry
    BY <1>0, <2>1, <2>2 DEF Refreshing
  <2> QED BY <1>0, <2>1, <2>2, <2>3, RequestGoesOn
<1>2. CASE ReadsSite(l)
  <2> DEFINE c == [callAt[l] EXCEPT !.pc = "docs", !.nav = siteNav]
  <2>1. /\ c \in SiteRequests /\ c.pc = "docs" /\ c.read = callAt[l].read
    BY <1>0, <1>10 DEF SiteRequests
  <2>2. callAt' = [callAt EXCEPT ![l] = c] /\ callAt[l].pc = "site"
        /\ UNCHANGED <<ownerName, siteNav, docRow, entry, stale, generations>>
    BY <1>0, <1>2 DEF ReadsSite, KeepsTables, KeepsEntry, Call
  <2> HIDE DEF c
  <2>3. Refreshing(l)' = DOMAIN NoEntry /\ Refreshing(l) = DOMAIN NoEntry
    BY <1>0, <2>1, <2>2 DEF Refreshing
  <2> QED BY <1>0, <2>1, <2>2, <2>3, RequestGoesOn
<1>3. CASE ListsDocs(l)
  <2> DEFINE built == BuildEntry(callAt[l].owner, callAt[l].nav, MountsFromDocs)
             c == [callAt[l] EXCEPT !.pc = "insert", !.read = built]
  <2>0. built \in Entries /\ (siteNav = NoRecord => built = NoEntry)
    <3>1. built \in Entries
      BY <1>0, MountsShape, BuiltShape DEF SitesInv
    <3>2. siteNav = NoRecord => built = NoEntry
      BY <1>0 DEF BuildEntry
    <3> QED BY <3>1, <3>2
  <2>2. callAt' = [callAt EXCEPT ![l] = c] /\ callAt[l].pc = "docs"
        /\ UNCHANGED <<ownerName, siteNav, docRow, entry, stale, generations>>
    BY <1>0, <1>3 DEF ListsDocs, KeepsTables, KeepsEntry, Call
  <2> HIDE DEF built
  <2>1. /\ c \in SiteRequests /\ c.pc = "insert" /\ c.read = built
    BY <1>0, <2>0, <1>10 DEF SiteRequests
  <2> HIDE DEF c
  <2>3. Refreshing(l)' = DOMAIN NoEntry /\ Refreshing(l) = DOMAIN NoEntry
    BY <1>0, <2>1, <2>2 DEF Refreshing
  <2> QED BY <1>0, <2>0, <2>1, <2>2, <2>3, RequestGoesOn
<1>4. CASE InsertsEntry(l)
  <2>1. /\ entry' = callAt[l].read /\ stale' = Differing(entry') /\ Answers(l)
        /\ UNCHANGED <<ownerName, siteNav, docRow, generations>>
    BY <1>4 DEF InsertsEntry, KeepsTables
  <2>2. \A f \in DOMAIN NoEntry : entry'[f] = Current[f] \/ f \in stale'
    BY <2>1, SameTables DEF Differing
  <2>3. Refreshing(l) = DOMAIN NoEntry
    BY <1>4 DEF Refreshing, InsertsEntry, Call
  <2> QED BY <1>0, <2>1, <2>2, <2>3, EntryWritten
<1>5. CASE ReadsOwner(l)
  <2> DEFINE c == [callAt[l] EXCEPT !.pc = "owner", !.owner = ownerName, !.read = entry]
  <2>1. /\ c \in SiteRequests /\ c.pc = "owner" /\ c.read = entry
    BY <1>0, <1>10 DEF SiteRequests
  <2>2. callAt' = [callAt EXCEPT ![l] = c] /\ callAt[l].pc = "profile"
        /\ UNCHANGED <<ownerName, siteNav, docRow, entry, stale, generations>>
    BY <1>0, <1>5 DEF ReadsOwner, KeepsTables, KeepsEntry, Call
  <2> HIDE DEF c
  <2>3. Refreshing(l)' = {"owner"} /\ Refreshing(l) = {"owner"}
    BY <1>0, <2>1, <2>2 DEF Refreshing
  <2> QED BY <1>0, <2>1, <2>2, <2>3, RequestGoesOn
<1>6. CASE PatchesOwner(l)
  <2>0. callAt[l].pc = "owner" /\ Refreshing(l) = {"owner"}
        /\ UNCHANGED <<ownerName, siteNav, docRow, generations>>
    BY <1>6 DEF PatchesOwner, Call, KeepsTables, Refreshing
  <2>1. CASE entry.there
    <3> DEFINE patched == [entry EXCEPT !.owner = callAt[l].owner]
    <3>1. /\ entry' = patched /\ Answers(l)
          /\ stale' = (stale \ {"owner"}) \cup (Differing(entry') \cap {"owner"})
      BY <1>6, <2>1 DEF PatchesOwner, LiveEntry
    <3>2. patched \in Entries /\ \A f \in DOMAIN NoEntry \ {"owner"} : patched[f] = entry[f]
      BY <1>0, SiteFields DEF Entries
    <3>3. siteNav # NoRecord
      BY <1>0, <2>1 DEF NoEntry
    <3> HIDE DEF patched
    <3>4. /\ \A f \in DOMAIN NoEntry \ {"owner"} :
               entry'[f] = entry[f] /\ (f \in stale' <=> f \in stale)
          /\ \A f \in {"owner"} : entry'[f] = Current[f] \/ f \in stale'
          /\ {"owner"} \in SUBSET DOMAIN NoEntry /\ entry' \in Entries
      BY <2>0, <3>1, <3>2, SiteFields, SameTables DEF Differing
    <3> QED BY <2>0, <3>1, <3>3, <3>4, EntryWritten
  <2>2. CASE ~entry.there
    <3> DEFINE c == [callAt[l] EXCEPT !.pc = "cold"]
    <3>1. /\ c \in SiteRequests /\ c.pc = "cold" /\ c.read = callAt[l].read
      BY <1>0, <1>10 DEF SiteRequests
    <3>2. callAt' = [callAt EXCEPT ![l] = c] /\ UNCHANGED <<entry, stale>>
      BY <1>0, <1>6, <2>2 DEF PatchesOwner, CallTo, KeepsEntry
    <3> HIDE DEF c
    <3>3. Refreshing(l)' = {"owner"}
      BY <1>0, <3>1, <3>2 DEF Refreshing
    <3> QED BY <1>0, <2>0, <3>1, <3>2, <3>3, RequestGoesOn
  <2> QED BY <2>1, <2>2
<1>7. CASE FindsSite(l)
  <2>0. callAt[l].pc = "cold" /\ Refreshing(l) = {"owner"}
        /\ UNCHANGED <<ownerName, siteNav, docRow, generations, entry, stale>>
    BY <1>7 DEF FindsSite, Call, KeepsTables, KeepsEntry, Refreshing
  <2>1. CASE siteNav = NoRecord
    <3>1. Answers(l)
      BY <1>7, <2>1 DEF FindsSite
    <3>2. \A f \in {"owner"} : entry'[f] = Current[f]
      BY <1>0, <2>0, <2>1
    <3>3. {"owner"} \in SUBSET DOMAIN NoEntry
      BY SiteFields
    <3> QED BY <1>0, <2>0, <3>1, <3>2, <3>3, EntryWritten
  <2>2. CASE siteNav # NoRecord
    <3> DEFINE c == [callAt[l] EXCEPT !.pc = "rebuild"]
    <3>1. /\ c \in SiteRequests /\ c.pc = "rebuild" /\ c.read = callAt[l].read
      BY <1>0, <1>10 DEF SiteRequests
    <3>2. callAt' = [callAt EXCEPT ![l] = c]
      BY <1>0, <1>7, <2>2 DEF FindsSite, CallTo
    <3> HIDE DEF c
    <3>3. Refreshing(l)' = DOMAIN NoEntry
      BY <1>0, <3>1, <3>2 DEF Refreshing
    <3> QED BY <1>0, <2>0, <2>2, <3>1, <3>2, <3>3, SiteFields, RequestGoesOn
  <2> QED BY <2>1, <2>2
<1>8. CASE ReadsNav(l)
  <2> DEFINE c == [callAt[l] EXCEPT !.pc = "nav", !.nav = siteNav]
  <2>1. /\ c \in SiteRequests /\ c.pc = "nav" /\ c.read = callAt[l].read
    BY <1>0, <1>10 DEF SiteRequests
  <2>2. callAt' = [callAt EXCEPT ![l] = c] /\ callAt[l].pc = "config"
        /\ UNCHANGED <<ownerName, siteNav, docRow, entry, stale, generations>>
    BY <1>0, <1>8 DEF ReadsNav, KeepsTables, KeepsEntry, Call
  <2> HIDE DEF c
  <2>3. Refreshing(l)' = {"nav"} /\ Refreshing(l) = {"nav"}
    BY <1>0, <2>1, <2>2 DEF Refreshing
  <2> QED BY <1>0, <2>1, <2>2, <2>3, RequestGoesOn
<1>9. CASE PatchesNav(l)
  <2>0. callAt[l].pc = "nav" /\ Refreshing(l) = {"nav"}
        /\ UNCHANGED <<ownerName, siteNav, docRow, generations>>
    BY <1>9 DEF PatchesNav, Call, KeepsTables, Refreshing
  <2>1. CASE entry.there
    <3> DEFINE nav == ResolveNav(callAt[l].nav, entry.mounts)
               patched == [entry EXCEPT !.nav = nav]
    <3>1. /\ entry' = patched /\ Answers(l)
          /\ stale' = (stale \ {"nav"}) \cup (Differing(entry') \cap {"nav"})
      BY <1>9, <2>1 DEF PatchesNav
    <3>2. nav \in Containers
      BY <1>0, NavShape DEF Entries
    <3> HIDE DEF nav
    <3>3. patched \in Entries /\ \A f \in DOMAIN NoEntry \ {"nav"} : patched[f] = entry[f]
      BY <1>0, <3>2, SiteFields DEF Entries
    <3>4. siteNav # NoRecord
      BY <1>0, <2>1 DEF NoEntry
    <3> HIDE DEF patched
    <3>5. /\ \A f \in DOMAIN NoEntry \ {"nav"} :
               entry'[f] = entry[f] /\ (f \in stale' <=> f \in stale)
          /\ \A f \in {"nav"} : entry'[f] = Current[f] \/ f \in stale'
          /\ {"nav"} \in SUBSET DOMAIN NoEntry /\ entry' \in Entries
      BY <2>0, <3>1, <3>3, SiteFields, SameTables DEF Differing
    <3> QED BY <2>0, <3>1, <3>4, <3>5, EntryWritten
  <2>2. CASE ~entry.there
    <3> DEFINE c == [callAt[l] EXCEPT !.pc = "rebuild"]
    <3>1. /\ c \in SiteRequests /\ c.pc = "rebuild" /\ c.read = callAt[l].read
      BY <1>0, <1>10 DEF SiteRequests
    <3>2. callAt' = [callAt EXCEPT ![l] = c] /\ UNCHANGED <<entry, stale>>
      BY <1>0, <1>9, <2>2 DEF PatchesNav, CallTo, KeepsEntry
    <3> HIDE DEF c
    <3>3. Refreshing(l)' = DOMAIN NoEntry
      BY <1>0, <3>1, <3>2 DEF Refreshing
    <3> QED BY <1>0, <2>0, <3>1, <3>2, <3>3, SiteFields, RequestGoesOn
  <2> QED BY <2>1, <2>2
<1> QED BY <1>1, <1>2, <1>3, <1>4, <1>5, <1>6, <1>7, <1>8, <1>9

-----------------------------------------------------------------------------
(* The owner's requests, and the publication of a document.                *)
LEMMA BeginsShape ==
    ASSUME SitesType, NEW l \in Leaders, NEW c, Begins(l, c)
    PROVE  callAt' = [callAt EXCEPT ![l] = c] /\ Refreshing(l) = {}
  BY DEF Begins, Call, Refreshing

(* A request that begins at a place.                                       *)
LEMMA BeginsAt ==
    ASSUME SitesType, NEW l \in Leaders, NEW pc \in SitePlaces,
           Begins(l, [AtRest EXCEPT !.pc = pc])
    PROVE  \E c \in SiteRequests :
             /\ c.pc = pc /\ c.read = NoEntry
             /\ callAt' = [callAt EXCEPT ![l] = c] /\ Refreshing(l) = {} /\ callAt'[l] = c
<1> DEFINE c == [AtRest EXCEPT !.pc = pc]
<1>1. AtRest.read = NoEntry
  BY DEF AtRest
<1>2. c \in SiteRequests /\ c.pc = pc /\ c.read = NoEntry
  BY <1>1, SiteShapes DEF SiteRequests
<1>3. callAt' = [callAt EXCEPT ![l] = c] /\ Refreshing(l) = {}
  BY BeginsShape
<1> HIDE DEF c
<1>4. callAt'[l] = c
  BY <1>2, <1>3 DEF SitesType
<1> QED BY <1>2, <1>3, <1>4

(* Each request of the owner keeps the invariant as it begins.             *)
LEMMA OwnerStep ==
    ASSUME SitesInv, NEW l \in Leaders, SiteCall(l)
    PROVE  SitesInv'
<1>0. /\ SitesType /\ entry \in Entries /\ ownerName \in Int /\ siteNav \in Int
      /\ generations \in Nat /\ docRow \in [SiteDocs -> SiteRows]
      /\ callAt \in [Leaders -> SiteRequests]
  BY DEF SitesInv, SitesType
<1>10. {"rest", "rebuild", "config", "profile", "publish"} \subseteq SitePlaces
  BY DEF SitePlaces
<1>1. ASSUME NEW nav \in 0..1, EditsNav(l, nav) PROVE SitesInv'
  <2>1. PICK c \in SiteRequests :
             /\ c.pc = "config" /\ c.read = NoEntry
             /\ callAt' = [callAt EXCEPT ![l] = c] /\ Refreshing(l) = {} /\ callAt'[l] = c
    BY <1>0, <1>1, <1>10, BeginsAt DEF EditsNav
  <2>2. /\ siteNav' = nav /\ siteNav' # NoRecord
        /\ UNCHANGED <<ownerName, docRow, generations, entry, stale>>
    BY <1>1 DEF EditsNav, KeepsEntry, NoRecord
  <2>3. Refreshing(l)' = {"nav"}
    BY <2>1 DEF Refreshing
  <2>4. Contested' = Contested /\ MountsFromDocs' = MountsFromDocs
    BY <2>2 DEF Contested, MountsFromDocs, Precedes
  <2>5. siteNav = NoRecord => MountsFromDocs = {}
    BY DEF SitesInv, NoSiteSound, MountsFromDocs
  <2>6. \A f \in DOMAIN NoEntry \ {"nav"} : Current'[f] = Current[f]
    <3>1. CASE MountsFromDocs = {}
      BY <2>4, <3>1 DEF Current, BuildEntry
    <3>2. CASE MountsFromDocs # {}
      <4>1. siteNav # NoRecord
        BY <2>5, <3>2
      <4>2. /\ Current = [there |-> TRUE, owner |-> ownerName,
                          nav |-> ResolveNav(siteNav, MountsFromDocs),
                          mounts |-> MountsFromDocs]
            /\ Current' = [there |-> TRUE, owner |-> ownerName,
                           nav |-> ResolveNav(nav, MountsFromDocs),
                           mounts |-> MountsFromDocs]
        BY <2>2, <2>4, <3>2, <4>1 DEF Current, BuildEntry, ResolveNav, DerivedNav
      <4>3. Current'.there = Current.there /\ Current'.mounts = Current.mounts
            /\ Current'.owner = Current.owner
        BY <4>2
      <4> QED BY <4>3, SiteFields
    <3> QED BY <3>1, <3>2
  <2>7. ~Contested => \A f \in DOMAIN NoEntry \ Refreshing(l)' : Current'[f] = Current[f]
    BY <2>3, <2>6
  <2>8. nav \in Int
    OBVIOUS
  <2> QED BY <1>0, <2>1, <2>2, <2>4, <2>7, <2>8, TablesWritten
<1>2. CASE RenamesOwner(l)
  <2>1. PICK c \in SiteRequests :
             /\ c.pc = "profile" /\ c.read = NoEntry
             /\ callAt' = [callAt EXCEPT ![l] = c] /\ Refreshing(l) = {} /\ callAt'[l] = c
    BY <1>0, <1>2, <1>10, BeginsAt DEF RenamesOwner
  <2>2. /\ ownerName' = ownerName + 1
        /\ UNCHANGED <<siteNav, docRow, generations, entry, stale>>
    BY <1>2 DEF RenamesOwner, KeepsEntry
  <2>3. Refreshing(l)' = {"owner"}
    BY <2>1 DEF Refreshing
  <2>4. Contested' = Contested /\ MountsFromDocs' = MountsFromDocs
    BY <2>2 DEF Contested, MountsFromDocs, Precedes
  <2>5. siteNav' = NoRecord =>
          \A d \in SiteDocs : docRow'[d].live = NoMount /\ docRow'[d].previous = NoMount
    BY <2>2 DEF SitesInv, NoSiteSound
  <2>6. \A f \in DOMAIN NoEntry \ {"owner"} : Current'[f] = Current[f]
    <3>1. CASE MountsFromDocs = {} \/ siteNav = NoRecord
      BY <2>2, <2>4, <3>1 DEF Current, BuildEntry
    <3>2. CASE MountsFromDocs # {} /\ siteNav # NoRecord
      <4> DEFINE nav == ResolveNav(siteNav, MountsFromDocs)
      <4>1. /\ Current = [there |-> TRUE, owner |-> ownerName, nav |-> nav,
                          mounts |-> MountsFromDocs]
            /\ Current' = [there |-> TRUE, owner |-> ownerName', nav |-> nav,
                           mounts |-> MountsFromDocs]
        BY <2>2, <2>4, <3>2 DEF Current, BuildEntry, ResolveNav, DerivedNav
      <4>3. Current'.there = Current.there /\ Current'.mounts = Current.mounts
            /\ Current'.nav = Current.nav
        BY <4>1
      <4> QED BY <4>3, SiteFields
    <3> QED BY <3>1, <3>2
  <2>7. ~Contested => \A f \in DOMAIN NoEntry \ Refreshing(l)' : Current'[f] = Current[f]
    BY <2>3, <2>6
  <2>8. ownerName' \in Int
    BY <1>0, <2>2
  <2> QED BY <1>0, <2>1, <2>2, <2>4, <2>5, <2>7, <2>8, TablesWritten
<1>3. ASSUME NEW d \in SiteDocs, UnmountsDoc(l, d) \/ RollsBackDoc(l, d) PROVE SitesInv'
  <2>1. PICK c \in SiteRequests :
             /\ c.pc = "rebuild" /\ c.read = NoEntry
             /\ callAt' = [callAt EXCEPT ![l] = c] /\ Refreshing(l) = {} /\ callAt'[l] = c
    BY <1>0, <1>3, <1>10, BeginsAt DEF UnmountsDoc, RollsBackDoc
  <2>2. PICK row \in {NoDoc, RolledBack(docRow[d])} :
          /\ docRow' = [docRow EXCEPT ![d] = row]
          /\ UNCHANGED <<ownerName, siteNav, generations, entry, stale>>
    BY <1>3 DEF UnmountsDoc, RollsBackDoc, KeepsEntry
  <2>3. /\ row \in SiteRows
        /\ row.live = NoMount \/ row.live = docRow[d].previous
        /\ row.previous = NoMount \/ row.previous = docRow[d].live
    <3>1. CASE row = NoDoc
      BY <3>1, SiteShapes DEF NoDoc
    <3>2. CASE row = RolledBack(docRow[d])
      BY <1>0, <3>2 DEF RolledBack, SiteRows
    <3> QED BY <2>2, <3>1, <3>2
  <2>4. docRow' \in [SiteDocs -> SiteRows]
    BY <1>0, <2>2, <2>3
  <2>5. siteNav' = NoRecord =>
          \A e \in SiteDocs : docRow'[e].live = NoMount /\ docRow'[e].previous = NoMount
    BY <1>0, <2>2, <2>3 DEF SitesInv, NoSiteSound
  <2>6. Refreshing(l)' = DOMAIN NoEntry
    BY <2>1 DEF Refreshing
  <2> QED BY <1>0, <2>1, <2>2, <2>4, <2>5, <2>6, TablesWritten
<1>4. ASSUME NEW d \in SiteDocs, NEW path \in MountPaths, MountsDoc(l, d, path) PROVE SitesInv'
  <2>1. /\ callAt' = [callAt EXCEPT ![l] = AtRest] /\ Refreshing(l) = {}
        /\ docRow' = [docRow EXCEPT ![d].mount = path]
        /\ UNCHANGED <<ownerName, siteNav, generations, entry, stale>>
    BY <1>0, <1>4, BeginsShape DEF MountsDoc, KeepsEntry
  <2>2. /\ docRow' \in [SiteDocs -> SiteRows]
        /\ \A e \in SiteDocs : /\ docRow'[e].live = docRow[e].live
                               /\ docRow'[e].previous = docRow[e].previous
    BY <1>0, <2>1 DEF SiteRows, SitePaths
  <2>3. Contested' = Contested
    BY <2>2 DEF Contested
  <2>4. ~Contested => MountsFromDocs' = MountsFromDocs
    <3>1. SUFFICES ASSUME ~Contested PROVE MountsFromDocs' = MountsFromDocs
      OBVIOUS
    <3>2. MountsFromDocs = {docRow[e].live : e \in {x \in SiteDocs : docRow[x].live # NoMount}}
      BY <3>1, Uncontested
    <3>3. MountsFromDocs' = {docRow'[e].live :
                               e \in {x \in SiteDocs : docRow'[x].live # NoMount}}
      BY <2>3, <3>1 DEF Contested, MountsFromDocs
    <3> QED BY <2>2, <3>2, <3>3
  <2>5. ~Contested => Current' = Current
    BY <2>1, <2>4 DEF Current, BuildEntry, ResolveNav, DerivedNav
  <2>6. siteNav' = NoRecord =>
          \A e \in SiteDocs : docRow'[e].live = NoMount /\ docRow'[e].previous = NoMount
    BY <2>1, <2>2 DEF SitesInv, NoSiteSound
  <2>7. AtRest \in SiteRequests /\ AtRest.read = NoEntry /\ AtRest.pc = "rest"
    BY SiteShapes DEF AtRest
  <2> QED BY <1>0, <2>1, <2>2, <2>3, <2>5, <2>6, <2>7, TablesWritten
<1>5. ASSUME NEW d \in SiteDocs, NEW declared \in MountPaths, BeginsPublish(l, d, declared)
      PROVE  SitesInv'
  <2> DEFINE c == [AtRest EXCEPT !.pc = "publish", !.doc = d, !.mount = docRow[d].mount,
                                 !.container = <<generations + 1, declared>>]
  <2>1. /\ callAt' = [callAt EXCEPT ![l] = c] /\ Refreshing(l) = {}
        /\ UNCHANGED <<ownerName, siteNav, docRow, entry, stale>>
        /\ generations' = generations + 1 /\ siteNav # NoRecord
        /\ docRow[d].mount = declared
    BY <1>0, <1>5, BeginsShape DEF BeginsPublish, KeepsTables, KeepsEntry, DeclaredAs
  <2>2. c \in SiteRequests
    <3>1. generations + 1 \in Int
      BY <1>0
    <3>2. declared \in SitePaths
      BY DEF SitePaths
    <3>3. <<generations + 1, declared>> \in Int \X (SitePaths \cup {"explicit"})
      BY <3>1, <3>2
    <3>4. docRow[d].mount \in SitePaths /\ "publish" \in SitePlaces
      BY <1>0, <1>10 DEF SiteRows
    <3>5. <<generations + 1, declared>> \in Containers
      BY <3>3 DEF Containers
    <3> QED BY <2>1, <3>2, <3>4, <3>5, SiteShapes DEF SiteRequests
  <2>3. generations' \in Nat /\ Refreshing(l) \subseteq Refreshing(l)'
    BY <1>0, <2>1
  <2> HIDE DEF c
  <2> QED BY <1>0, <2>1, <2>2, <2>3, RequestGoesOn
<1> QED BY <1>1, <1>2, <1>3, <1>4, <1>5 DEF SiteCall

(* The steps of a publication that has begun.                              *)
LEMMA PublishStep ==
    ASSUME SitesInv, NEW l \in Leaders,
           ChecksMount(l) \/ ChecksServed(l) \/ SwapsGeneration(l)
    PROVE  SitesInv'
<1>0. /\ SitesType /\ entry \in Entries /\ ownerName \in Int /\ siteNav \in Int
      /\ generations \in Nat /\ docRow \in [SiteDocs -> SiteRows]
      /\ callAt \in [Leaders -> SiteRequests] /\ callAt[l] \in SiteRequests
      /\ callAt[l].pc \in {"publish", "served", "swap"} => siteNav # NoRecord
      /\ callAt[l].pc \in {"publish", "served", "swap"} => Refreshing(l) = {}
  BY DEF SitesInv, SitesType, NoSiteSound, Refreshing
<1>1. AtRest \in SiteRequests
  BY SiteShapes
<1>2. ASSUME callAt[l].pc \in {"publish", "served", "swap"}, Answers(l),
             UNCHANGED <<ownerName, siteNav, docRow, generations, entry, stale>>
      PROVE  SitesInv'
  BY <1>0, <1>1, <1>2, RequestGoesOn DEF Answers
<1>3. \A pc \in {"served", "swap", "rebuild"} :
        LET c == [callAt[l] EXCEPT !.pc = pc] IN c \in SiteRequests /\ c.pc = pc
  <2>1. {"served", "swap", "rebuild"} \subseteq SitePlaces
    BY DEF SitePlaces
  <2> QED BY <1>0, <2>1 DEF SiteRequests
<1>4. CASE ChecksMount(l) \/ ChecksServed(l)
  <2>1. callAt[l].pc \in {"publish", "served"}
        /\ UNCHANGED <<ownerName, siteNav, docRow, generations, entry, stale>>
    BY <1>4 DEF ChecksMount, ChecksServed, Call, KeepsTables, KeepsEntry
  <2>2. ASSUME NEW pc \in {"served", "swap"}, CallTo(l, pc) PROVE SitesInv'
    <3> DEFINE c == [callAt[l] EXCEPT !.pc = pc]
    <3>1. c \in SiteRequests /\ c.pc = pc
      BY <1>3
    <3>2. callAt' = [callAt EXCEPT ![l] = c]
      BY <1>0, <2>2 DEF CallTo
    <3> HIDE DEF c
    <3> QED BY <1>0, <2>1, <3>1, <3>2, RequestGoesOn
  <2> QED BY <1>2, <1>4, <2>1, <2>2 DEF ChecksMount, ChecksServed
<1>5. CASE SwapsGeneration(l)
  <2> DEFINE d == callAt[l].doc
  <2>1. callAt[l].pc = "swap"
        /\ UNCHANGED <<ownerName, siteNav, generations, entry, stale>>
    BY <1>5 DEF SwapsGeneration, Call, KeepsEntry
  <2>2. CASE Mounted(d, callAt[l].mount)
    <3>1. UNCHANGED docRow /\ Answers(l)
      BY <1>5, <2>2 DEF SwapsGeneration
    <3> QED BY <1>2, <2>1, <3>1
  <2>3. CASE ~Mounted(d, callAt[l].mount)
    <3> DEFINE row == [mount |-> callAt[l].mount,
                       live |-> [path |-> callAt[l].mount, file |-> callAt[l].container],
                       previous |-> docRow[d].live]
               c == [callAt[l] EXCEPT !.pc = "rebuild"]
    <3>1. c \in SiteRequests /\ c.pc = "rebuild"
      BY <1>3
    <3>2. callAt' = [callAt EXCEPT ![l] = c]
      BY <1>0, <1>5, <2>3 DEF SwapsGeneration, CallTo
    <3>3. docRow' = [docRow EXCEPT ![d] = row]
      BY <1>5, <2>3 DEF SwapsGeneration
    <3>4. d \in SiteDocs => row \in SiteRows
      <4>1. [path |-> callAt[l].mount, file |-> callAt[l].container] \in SiteMounts
        BY <1>0 DEF SiteRequests, SiteMounts
      <4> QED BY <1>0, <4>1 DEF SiteRequests, SiteRows
    <3> HIDE DEF c, row
    <3>5. docRow' \in [SiteDocs -> SiteRows]
      BY <1>0, <3>3, <3>4
    <3>6. Refreshing(l)' = DOMAIN NoEntry
      BY <1>0, <3>1, <3>2 DEF Refreshing
    <3> QED BY <1>0, <2>1, <3>1, <3>2, <3>5, <3>6, TablesWritten
  <2> QED BY <2>2, <2>3
<1> QED BY <1>4, <1>5

(* Every step keeps the invariant.                                         *)
LEMMA SitesStep == SitesInv /\ [SitesNext]_siteVars => SitesInv'
<1> SUFFICES ASSUME SitesInv, [SitesNext]_siteVars PROVE SitesInv'
  OBVIOUS
<1>1. CASE UNCHANGED siteVars
  <2>1. UNCHANGED <<ownerName, siteNav, docRow, entry, callAt, generations, stale>>
    BY <1>1 DEF siteVars
  <2>2. Current' = Current /\ Contested' = Contested
    BY <2>1, SameTables
  <2>3. SitesType' /\ NoSiteSound'
    BY <2>1 DEF SitesInv, SitesType, NoSiteSound
  <2>4. Refreshed' <=> Refreshed
    BY <2>1, <2>2 DEF Refreshed, Differing, Refreshing
  <2> QED BY <2>2, <2>3, <2>4 DEF SitesInv
<1>2. CASE SitesNext
  BY <1>2, OwnerStep, PublishStep, RefreshStep DEF SitesNext
<1> QED BY <1>1, <1>2

(* When no request runs, the entry serves what the tables hold, with the   *)
(* exceptions SiteServed names, each container at its own path.            *)
THEOREM SiteServedCorrect == SitesSpec => []SiteServed
<1>1. SitesInv => SiteServed
  <2> SUFFICES ASSUME SitesInv PROVE SiteServed
    OBVIOUS
  <2>1. ASSUME \A l \in Leaders : Call(l, "rest"), ~Contested
        PROVE  Differing(entry) \subseteq stale
    <3>1. Refreshed
      BY <2>1 DEF SitesInv
    <3>2. \A l \in Leaders : Refreshing(l) = {}
      BY <2>1 DEF Call, Refreshing
    <3> QED BY <3>1, <3>2 DEF Refreshed
  <2>2. \A m \in entry.mounts : m.path = m.file[2]
    BY DEF SitesInv, SitesType, Entries, SiteMounts
  <2> QED BY <2>1, <2>2 DEF SiteServed
<1> QED BY <1>1, SitesInitial, SitesStep, PTL DEF SitesSpec

(***************************************************************************)
(* Presence: a client's roster is that of the room.                        *)
(***************************************************************************)

(* The members of a room with the states they have published, and the      *)
(* roster of those who show one.                                           *)
Members == UNION {[S -> Nat] : S \in SUBSET Watchers}
Rosters == UNION {[S -> Nat \ {Unpublished}] : S \in SUBSET Watchers}
Events == [action : {"sync"}, roster : Rosters]
            \cup [action : {"upsert"}, conn : Watchers, state : Nat \ {Unpublished}]
            \cup [action : {"leave"}, conn : Watchers]

(* The state that members, a roster or an event gives to a connection.     *)
Shown(f, d) == IF d \in DOMAIN f THEN f[d] ELSE Unpublished
Mentions(e, d) == e.action = "sync" \/ e.conn = d
Says(e, d) == CASE e.action = "sync"   -> Shown(e.roster, d)
                [] e.action = "upsert" -> e.state
                [] e.action = "leave"  -> Unpublished

(* A client with this roster and these events on their way to it will      *)
(* show d with this state: the last event about d says so, or the roster   *)
(* does when there is none.                                                *)
Informed(events, roster, d, state) ==
    /\ (\A i \in 1..Len(events) : ~Mentions(events[i], d)) => Shown(roster, d) = state
    /\ \A i \in 1..Len(events) :
         /\ Mentions(events[i], d)
         /\ \A j \in 1..Len(events) : j > i => ~Mentions(events[j], d)
         => Says(events[i], d) = state

PresenceType ==
    /\ roomHere \in 0..MaxRooms /\ roomsMade \in 0..MaxRooms /\ published \in Nat
    /\ roomHere <= roomsMade
    /\ membersOf \in [1..MaxRooms -> Members]
    /\ registryHeld \in SUBSET Watchers
    /\ eventsTo \in [Watchers -> Seq(Events)]
    /\ watcherAt \in [Watchers -> {"away", "joins", "refused", "in", "gone"}]
    /\ roomFound \in [Watchers -> 0..MaxRooms]
    /\ rosterOf \in [Watchers -> Rosters]
    /\ lagging \in [Watchers -> BOOLEAN]

(* Who joins holds the registry, so that the room it has found stays the   *)
(* one of the document until it is in; only that room has members.         *)
RoomSound ==
    /\ \A c \in Watchers : watcherAt[c] = "joins" =>
         registryHeld = {c} /\ roomHere # 0 /\ roomFound[c] = roomHere
    /\ \A c \in Watchers : watcherAt[c] = "in" => roomHere # 0
    /\ \A c \in Watchers : \A r \in 1..MaxRooms :
         c \in DOMAIN membersOf[r] <=> watcherAt[c] = "in" /\ r = roomHere

(* Nobody is told of itself, and who has lost no event is informed of      *)
(* every other connection.                                                 *)
EventsSound(c) ==
    /\ c \notin DOMAIN rosterOf[c]
    /\ \A i \in 1..Len(eventsTo[c]) :
         IF eventsTo[c][i].action = "sync" THEN c \notin DOMAIN eventsTo[c][i].roster
                                           ELSE eventsTo[c][i].conn # c
    /\ watcherAt[c] = "in" /\ ~lagging[c] =>
         \A d \in Watchers \ {c} :
           Informed(eventsTo[c], rosterOf[c], d, Shown(membersOf[roomHere], d))

PresenceInv == PresenceType /\ RoomSound /\ \A c \in Watchers : EventsSound(c)

-----------------------------------------------------------------------------
(* A room begins with no members, and a roster with nobody on it.          *)
LEMMA EmptyMembers == <<>> \in Members /\ <<>> \in Rosters /\ DOMAIN <<>> = {}
<1>1. <<>> \in [{} -> Nat] /\ <<>> \in [{} -> Nat \ {Unpublished}] /\ DOMAIN <<>> = {}
  OBVIOUS
<1> QED BY <1>1 DEF Members, Rosters

(* Members and rosters as functions on sets of connections.                *)
LEMMA MembersShape ==
    /\ \A f \in Members : DOMAIN f \subseteq Watchers /\ f \in [DOMAIN f -> Nat]
    /\ \A f \in Rosters : DOMAIN f \subseteq Watchers /\ f \in [DOMAIN f -> Nat \ {Unpublished}]
    /\ \A S \in SUBSET Watchers : \A f \in [S -> Nat] : f \in Members
    /\ \A S \in SUBSET Watchers : \A f \in [S -> Nat \ {Unpublished}] : f \in Rosters
  BY DEF Members, Rosters

(* Members stay members, and a roster a roster.                            *)
LEMMA UpsertedShape ==
    ASSUME NEW c \in Watchers
    PROVE  /\ \A f \in Members, s \in Nat : Upserted(f, c, s) \in Members
           /\ \A f \in Rosters, s \in Nat \ {Unpublished} : Upserted(f, c, s) \in Rosters
           /\ \A f \in Members : Without(f, c) \in Members
           /\ \A f \in Rosters : Without(f, c) \in Rosters
<1>1. ASSUME NEW f \in Members, NEW s \in Nat PROVE Upserted(f, c, s) \in Members
  <2>1. /\ Upserted(f, c, s) \in [DOMAIN f \cup {c} -> Nat]
        /\ DOMAIN f \cup {c} \in SUBSET Watchers
    BY <1>1, MembersShape DEF Upserted
  <2> QED BY <2>1, MembersShape
<1>2. ASSUME NEW f \in Rosters, NEW s \in Nat \ {Unpublished}
      PROVE  Upserted(f, c, s) \in Rosters
  <2>1. /\ Upserted(f, c, s) \in [DOMAIN f \cup {c} -> Nat \ {Unpublished}]
        /\ DOMAIN f \cup {c} \in SUBSET Watchers
    BY <1>2, MembersShape DEF Upserted
  <2> QED BY <2>1, MembersShape
<1>3. ASSUME NEW f \in Members PROVE Without(f, c) \in Members
  <2>1. Without(f, c) \in [DOMAIN f \ {c} -> Nat] /\ DOMAIN f \ {c} \in SUBSET Watchers
    BY <1>3, MembersShape DEF Without
  <2> QED BY <2>1, MembersShape
<1>4. ASSUME NEW f \in Rosters PROVE Without(f, c) \in Rosters
  <2>1. /\ Without(f, c) \in [DOMAIN f \ {c} -> Nat \ {Unpublished}]
        /\ DOMAIN f \ {c} \in SUBSET Watchers
    BY <1>4, MembersShape DEF Without
  <2> QED BY <2>1, MembersShape
<1> QED BY <1>1, <1>2, <1>3, <1>4

(* Who is put on a roster is shown with that state, ...                    *)
LEMMA UpsertedShown ==
    ASSUME NEW f, NEW c, NEW s
    PROVE  /\ \A d : Shown(Upserted(f, c, s), d) = IF d = c THEN s ELSE Shown(f, d)
           /\ DOMAIN Upserted(f, c, s) = DOMAIN f \cup {c}
  BY DEF Shown, Upserted

(* ... and who is taken off it is not shown.                               *)
LEMMA WithoutShown ==
    ASSUME NEW f, NEW c
    PROVE  /\ \A d : Shown(Without(f, c), d) = IF d = c THEN Unpublished ELSE Shown(f, d)
           /\ DOMAIN Without(f, c) = DOMAIN f \ {c}
  BY DEF Shown, Without

(* The roster of a room shows what its members have published.             *)
LEMMA RosterShape ==
    ASSUME PresenceType, NEW r \in 1..MaxRooms
    PROVE  /\ Roster(r) \in Rosters
           /\ DOMAIN Roster(r) \subseteq DOMAIN membersOf[r]
           /\ \A d : Shown(Roster(r), d) = Shown(membersOf[r], d)
<1> DEFINE seen == {c \in DOMAIN membersOf[r] : membersOf[r][c] # Unpublished}
<1>1. membersOf[r] \in [DOMAIN membersOf[r] -> Nat] /\ DOMAIN membersOf[r] \subseteq Watchers
  BY MembersShape DEF PresenceType
<1>2. Roster(r) = [c \in seen |-> membersOf[r][c]]
  BY DEF Roster
<1>3. Roster(r) \in [seen -> Nat \ {Unpublished}] /\ seen \in SUBSET Watchers
  BY <1>1, <1>2
<1>4. \A d : Shown(Roster(r), d) = Shown(membersOf[r], d)
  BY <1>2 DEF Shown
<1> QED BY <1>2, <1>3, <1>4, MembersShape

(* What a client makes of an event.                                        *)
LEMMA AppliedShown ==
    ASSUME NEW e \in Events, NEW roster \in Rosters, NEW d
    PROVE  /\ Applied(roster, e) \in Rosters
           /\ Shown(Applied(roster, e), d) =
                IF Mentions(e, d) THEN Says(e, d) ELSE Shown(roster, d)
           /\ e.action # "sync" =>
                DOMAIN Applied(roster, e) \subseteq DOMAIN roster \cup {e.conn}
           /\ e.action = "sync" => DOMAIN Applied(roster, e) = DOMAIN e.roster
<1>1. CASE e \in [action : {"sync"}, roster : Rosters]
  <2>1. e.action = "sync" /\ e.roster \in Rosters
    BY <1>1
  <2> QED BY <2>1 DEF Applied, Mentions, Says
<1>2. CASE e \in [action : {"upsert"}, conn : Watchers, state : Nat \ {Unpublished}]
  <2>1. e.action = "upsert" /\ e.conn \in Watchers /\ e.state \in Nat \ {Unpublished}
    BY <1>2
  <2>2. Applied(roster, e) = Upserted(roster, e.conn, e.state)
    BY <2>1 DEF Applied
  <2>3. Applied(roster, e) \in Rosters
    BY <2>1, <2>2, UpsertedShape
  <2>4. /\ Shown(Applied(roster, e), d) = IF d = e.conn THEN e.state ELSE Shown(roster, d)
        /\ DOMAIN Applied(roster, e) = DOMAIN roster \cup {e.conn}
    BY <2>2 DEF Shown, Upserted
  <2> QED BY <2>1, <2>3, <2>4 DEF Mentions, Says
<1>3. CASE e \in [action : {"leave"}, conn : Watchers]
  <2>1. e.action = "leave" /\ e.conn \in Watchers
    BY <1>3
  <2>2. Applied(roster, e) = Without(roster, e.conn)
    BY <2>1 DEF Applied
  <2>3. Applied(roster, e) \in Rosters
    BY <2>1, <2>2, UpsertedShape
  <2>4. /\ Shown(Applied(roster, e), d) = IF d = e.conn THEN Unpublished ELSE Shown(roster, d)
        /\ DOMAIN Applied(roster, e) = DOMAIN roster \ {e.conn}
    BY <2>2 DEF Shown, Without
  <2> QED BY <2>1, <2>3, <2>4 DEF Mentions, Says
<1> QED BY <1>1, <1>2, <1>3 DEF Events

(* An event that is sent, and an event that is applied.                    *)
LEMMA InformedOfOther ==
    ASSUME NEW events \in Seq(Events), NEW e \in Events, NEW roster, NEW d, NEW state,
           ~Mentions(e, d), Informed(events, roster, d, state)
    PROVE  Informed(Append(events, e), roster, d, state)
<1> DEFINE n == Len(events)
           all == Append(events, e)
<1>1. n \in Nat /\ Len(all) = n + 1 /\ all[n + 1] = e /\ \A i \in 1..n : all[i] = events[i]
  OBVIOUS
<1> HIDE DEF all
<1> QED BY <1>1 DEF Informed

(* The last event about a connection decides what is shown of it.          *)
LEMMA InformedOfIt ==
    ASSUME NEW events \in Seq(Events), NEW e \in Events, NEW roster, NEW d, NEW state,
           Mentions(e, d), Says(e, d) = state
    PROVE  Informed(Append(events, e), roster, d, state)
<1> DEFINE n == Len(events)
           all == Append(events, e)
<1>1. n \in Nat /\ Len(all) = n + 1 /\ all[n + 1] = e /\ \A i \in 1..n : all[i] = events[i]
  OBVIOUS
<1> HIDE DEF all
<1>2. n + 1 \in 1..Len(all) /\ \A i \in 1..Len(all) : i = n + 1 \/ n + 1 > i
  BY <1>1
<1> QED BY <1>1, <1>2 DEF Informed

(* Applying the first event changes nothing about what will be shown.      *)
LEMMA InformedByEvent ==
    ASSUME NEW events \in Seq(Events), events # <<>>, NEW roster \in Rosters, NEW d, NEW state,
           Informed(events, roster, d, state)
    PROVE  Informed(Tail(events), Applied(roster, Head(events)), d, state)
<1> DEFINE n == Len(events)
           rest == Tail(events)
           e == Head(events)
           roster2 == Applied(roster, e)
<1>1. n \in Nat \ {0} /\ Len(rest) = n - 1 /\ e = events[1] /\ e \in Events
      /\ \A i \in 1..(n - 1) : rest[i] = events[i + 1]
  OBVIOUS
<1>2. Shown(roster2, d) = IF Mentions(e, d) THEN Says(e, d) ELSE Shown(roster, d)
  BY <1>1, AppliedShown
<1> HIDE DEF rest, e, roster2
<1>3. ASSUME \A i \in 1..Len(rest) : ~Mentions(rest[i], d)
      PROVE  Shown(roster2, d) = state
  <2>1. \A j \in 1..n : j > 1 => ~Mentions(events[j], d)
    <3> TAKE j \in 1..n
    <3> HAVE j > 1
    <3>1. j - 1 \in 1..Len(rest) /\ j - 1 \in 1..(n - 1) /\ (j - 1) + 1 = j
      BY <1>1
    <3>2. rest[j - 1] = events[j]
      BY <1>1, <3>1
    <3> QED BY <1>3, <3>1, <3>2
  <2>2. CASE Mentions(e, d)
    <3>1. 1 \in 1..n
      BY <1>1
    <3>2. Says(events[1], d) = state
      BY <1>1, <2>1, <2>2, <3>1 DEF Informed
    <3> QED BY <1>1, <1>2, <2>2, <3>2
  <2>3. CASE ~Mentions(e, d)
    <3>1. \A j \in 1..n : ~Mentions(events[j], d)
      BY <1>1, <2>1, <2>3
    <3> QED BY <1>2, <2>3, <3>1 DEF Informed
  <2> QED BY <2>2, <2>3
<1>4. ASSUME NEW i \in 1..Len(rest), Mentions(rest[i], d),
             \A j \in 1..Len(rest) : j > i => ~Mentions(rest[j], d)
      PROVE  Says(rest[i], d) = state
  <2>1. i + 1 \in 1..n /\ i \in 1..(n - 1)
    BY <1>1
  <2>2. \A j \in 1..n : j > i + 1 => ~Mentions(events[j], d)
    <3> TAKE j \in 1..n
    <3> HAVE j > i + 1
    <3>1. j - 1 \in 1..Len(rest) /\ j - 1 \in 1..(n - 1) /\ (j - 1) + 1 = j /\ j - 1 > i
      BY <1>1
    <3>2. rest[j - 1] = events[j]
      BY <1>1, <3>1
    <3> QED BY <1>4, <3>1, <3>2
  <2>3. rest[i] = events[i + 1]
    BY <1>1, <2>1
  <2> QED BY <1>4, <2>1, <2>2, <2>3 DEF Informed
<1>5. Informed(rest, roster2, d, state)
  BY <1>3, <1>4 DEF Informed
<1> QED BY <1>5 DEF rest, roster2, e

-----------------------------------------------------------------------------
(* At the start nobody is in a room.                                       *)
LEMMA PresenceInitial == PresenceInit => PresenceInv
<1> SUFFICES ASSUME PresenceInit PROVE PresenceInv
  OBVIOUS
<1>1. PresenceType
  BY EmptyMembers, PresenceAssumption DEF PresenceInit, PresenceType, Nobody
<1>2. RoomSound
  BY EmptyMembers DEF PresenceInit, RoomSound
<1>3. ASSUME NEW c \in Watchers PROVE EventsSound(c)
  <2>1. /\ rosterOf[c] = <<>> /\ eventsTo[c] = <<>> /\ watcherAt[c] = "away" /\ Len(<<>>) = 0
    BY DEF PresenceInit
  <2> QED BY <2>1, EmptyMembers DEF EventsSound
<1> QED BY <1>1, <1>2, <1>3 DEF PresenceInv

(* Who receives nothing stays as it is if the others' states are as they   *)
(* were.                                                                   *)
LEMMA Untold ==
    ASSUME NEW x \in Watchers, EventsSound(x),
           eventsTo'[x] = eventsTo[x], rosterOf'[x] = rosterOf[x], lagging'[x] = lagging[x],
           watcherAt'[x] = "in" =>
             /\ watcherAt[x] = "in"
             /\ \A d \in Watchers \ {x} :
                  Shown(membersOf'[roomHere'], d) = Shown(membersOf[roomHere], d)
    PROVE  EventsSound(x)'
  BY DEF EventsSound, Informed

(* A state that the others are told.                                       *)
LEMMA Told ==
    ASSUME PresenceInv, NEW c \in Watchers, NEW event \in Events, NEW state,
           roomHere # 0, c \in DOMAIN membersOf[roomHere],
           event.action # "sync", event.conn = c, Says(event, c) = state,
           Broadcast(membersOf[roomHere], event, c), rosterOf' = rosterOf,
           \A x \in Watchers : watcherAt'[x] = "in" =>
             /\ watcherAt[x] = "in"
             /\ \A d \in Watchers : Shown(membersOf'[roomHere'], d) =
                  IF d = c THEN state ELSE Shown(membersOf[roomHere], d)
    PROVE  /\ eventsTo' \in [Watchers -> Seq(Events)] /\ lagging' \in [Watchers -> BOOLEAN]
           /\ \A x \in Watchers : EventsSound(x)'
<1> DEFINE others == DOMAIN membersOf[roomHere] \ {c}
           fits == {x \in others : Len(eventsTo[x]) < QueueDepth}
<1>0. /\ eventsTo \in [Watchers -> Seq(Events)] /\ lagging \in [Watchers -> BOOLEAN]
      /\ roomHere \in 1..MaxRooms
  BY DEF PresenceInv, PresenceType
<1>1. /\ eventsTo' = [x \in Watchers |->
              IF x \in fits THEN Append(eventsTo[x], event) ELSE eventsTo[x]]
      /\ lagging' = [x \in Watchers |-> lagging[x] \/ x \in others \ fits]
  BY DEF Broadcast
<1>2. /\ \A x \in Watchers : x \in fits => eventsTo'[x] = Append(eventsTo[x], event)
      /\ \A x \in Watchers : x \notin fits => eventsTo'[x] = eventsTo[x]
      /\ \A x \in Watchers : lagging'[x] <=> lagging[x] \/ x \in others \ fits
  BY <1>1
<1>3. eventsTo' \in [Watchers -> Seq(Events)] /\ lagging' \in [Watchers -> BOOLEAN]
  <2>1. \A x \in Watchers : Append(eventsTo[x], event) \in Seq(Events)
    BY <1>0
  <2> QED BY <1>0, <1>1, <2>1
<1>4. c \notin fits /\ fits \subseteq others /\ others = DOMAIN membersOf[roomHere] \ {c}
  OBVIOUS
<1> HIDE DEF others, fits
<1>5. ASSUME NEW x \in Watchers, x \in fits PROVE EventsSound(x)'
  <2>1. /\ eventsTo'[x] = Append(eventsTo[x], event) /\ rosterOf'[x] = rosterOf[x] /\ x # c
        /\ EventsSound(x) /\ eventsTo[x] \in Seq(Events) /\ lagging'[x] = lagging[x]
    <3>1. x # c /\ eventsTo'[x] = Append(eventsTo[x], event) /\ (lagging'[x] <=> lagging[x])
      BY <1>2, <1>4, <1>5
    <3>2. lagging'[x] \in BOOLEAN /\ lagging[x] \in BOOLEAN
      BY <1>0, <1>3
    <3> QED BY <1>0, <3>1, <3>2 DEF PresenceInv
  <2>2. \A i \in 1..Len(eventsTo'[x]) :
          \/ i \in 1..Len(eventsTo[x]) /\ eventsTo'[x][i] = eventsTo[x][i]
          \/ eventsTo'[x][i] = event
    BY <2>1
  <2>3. ASSUME watcherAt'[x] = "in", ~lagging'[x], NEW d \in Watchers \ {x}
        PROVE  Informed(eventsTo'[x], rosterOf'[x], d, Shown(membersOf'[roomHere'], d))
    <3>1. CASE d = c
      <4>1. Mentions(event, d) /\ Says(event, d) = Shown(membersOf'[roomHere'], d)
        BY <2>3, <3>1 DEF Mentions
      <4> QED BY <2>1, <4>1, InformedOfIt
    <3>2. CASE d # c
      <4>1. /\ ~Mentions(event, d)
            /\ Shown(membersOf'[roomHere'], d) = Shown(membersOf[roomHere], d)
        BY <2>3, <3>2 DEF Mentions
      <4>2. Informed(eventsTo[x], rosterOf[x], d, Shown(membersOf[roomHere], d))
        BY <2>1, <2>3 DEF EventsSound
      <4> QED BY <2>1, <4>1, <4>2, InformedOfOther
    <3> QED BY <3>1, <3>2
  <2>4. \A i \in 1..Len(eventsTo'[x]) :
         IF eventsTo'[x][i].action = "sync" THEN x \notin DOMAIN eventsTo'[x][i].roster
                                            ELSE eventsTo'[x][i].conn # x
    BY <2>1, <2>2 DEF EventsSound
  <2>5. x \notin DOMAIN rosterOf'[x]
    BY <2>1 DEF EventsSound
  <2> QED BY <2>3, <2>4, <2>5 DEF EventsSound
<1>6. ASSUME NEW x \in Watchers, x \notin fits PROVE EventsSound(x)'
  <2>1. /\ eventsTo'[x] = eventsTo[x] /\ rosterOf'[x] = rosterOf[x] /\ EventsSound(x)
        /\ (lagging'[x] <=> lagging[x] \/ x \in others)
    BY <1>2, <1>6 DEF PresenceInv
  <2>2. CASE x = c
    <3>1. lagging'[x] = lagging[x]
      BY <1>0, <1>3, <1>4, <2>1, <2>2
    <3> QED BY <2>1, <2>2, <3>1, Untold
  <2>3. CASE x # c
    <3>1. watcherAt'[x] = "in" => lagging'[x]
      <4>1. watcherAt[x] = "in" => x \in DOMAIN membersOf[roomHere]
        BY <1>0 DEF PresenceInv, RoomSound
      <4> QED BY <1>4, <2>1, <2>3, <4>1
    <3> QED BY <2>1, <3>1 DEF EventsSound
  <2> QED BY <2>2, <2>3
<1> QED BY <1>3, <1>5, <1>6

-----------------------------------------------------------------------------
(* join, up to the room.                                                   *)
LEMMA FindsStep ==
    ASSUME PresenceInv, NEW c \in Watchers, FindsRoom(c)
    PROVE  PresenceInv'
<1>0. PresenceType /\ RoomSound /\ \A x \in Watchers : EventsSound(x)
  BY DEF PresenceInv
<1>1. /\ watcherAt[c] = "away" /\ registryHeld = {} /\ registryHeld' = {c}
      /\ watcherAt' = [watcherAt EXCEPT ![c] = "joins"]
      /\ roomFound' = [roomFound EXCEPT ![c] = roomHere']
      /\ UNCHANGED <<membersOf, eventsTo, rosterOf, lagging, published>>
  BY DEF FindsRoom, Nobody, HeldBy
<1>2. /\ roomHere' \in 1..MaxRooms /\ roomsMade' \in 0..MaxRooms /\ roomHere' <= roomsMade'
      /\ roomHere # 0 => roomHere' = roomHere
  BY <1>0, PresenceAssumption DEF FindsRoom, PresenceType
<1>3. PresenceType'
  BY <1>0, <1>1, <1>2 DEF PresenceType
<1>4. /\ \A x \in Watchers : watcherAt'[x] = IF x = c THEN "joins" ELSE watcherAt[x]
      /\ \A x \in Watchers : watcherAt[x] # "joins"
      /\ roomFound'[c] = roomHere'
  BY <1>0, <1>1 DEF PresenceType, RoomSound
<1>5. RoomSound'
  <2>1. \A x \in Watchers : \A r \in 1..MaxRooms :
          x \in DOMAIN membersOf'[r] <=> watcherAt'[x] = "in" /\ r = roomHere'
    BY <1>0, <1>1, <1>2, <1>4 DEF RoomSound
  <2> QED BY <1>1, <1>2, <1>4, <2>1 DEF RoomSound
<1>6. ASSUME NEW x \in Watchers PROVE EventsSound(x)'
  <2>1. watcherAt'[x] = "in" => watcherAt[x] = "in" /\ roomHere' = roomHere
    BY <1>0, <1>2, <1>4 DEF RoomSound
  <2> QED BY <1>0, <1>1, <2>1, Untold
<1> QED BY <1>3, <1>5, <1>6 DEF PresenceInv

(* join, with the roster as the first event, or a refusal.                 *)
LEMMA EntersStep ==
    ASSUME PresenceInv, NEW c \in Watchers, EntersRoom(c)
    PROVE  PresenceInv'
<1>0. PresenceType /\ RoomSound /\ \A x \in Watchers : EventsSound(x)
  BY DEF PresenceInv
<1>1. /\ watcherAt[c] = "joins" /\ registryHeld = {c} /\ registryHeld' = {}
      /\ roomFound[c] = roomHere /\ roomHere \in 1..MaxRooms
      /\ UNCHANGED <<roomHere, roomsMade, roomFound, rosterOf, lagging, published>>
      /\ \A x \in Watchers \ {c} : watcherAt[x] # "joins"
      /\ c \notin DOMAIN membersOf[roomHere]
  <2>1. /\ watcherAt[c] = "joins" /\ registryHeld' = registryHeld \ {c}
        /\ UNCHANGED <<roomHere, roomsMade, roomFound, rosterOf, lagging, published>>
    BY DEF EntersRoom
  <2>2. registryHeld = {c} /\ roomHere # 0 /\ roomFound[c] = roomHere
    BY <1>0, <2>1 DEF RoomSound
  <2>3. roomHere \in 1..MaxRooms
    BY <1>0, <2>2, PresenceAssumption DEF PresenceType
  <2>4. \A x \in Watchers \ {c} : watcherAt[x] # "joins"
    BY <1>0, <2>2 DEF RoomSound
  <2>5. c \notin DOMAIN membersOf[roomHere]
    BY <1>0, <2>1, <2>3 DEF RoomSound
  <2> QED BY <2>1, <2>2, <2>3, <2>4, <2>5
<1>2. CASE watcherAt' = [watcherAt EXCEPT ![c] = "refused"] /\ UNCHANGED <<membersOf, eventsTo>>
  <2>1. PresenceType'
    BY <1>0, <1>1, <1>2 DEF PresenceType
  <2>2. \A x \in Watchers : watcherAt'[x] = IF x = c THEN "refused" ELSE watcherAt[x]
    BY <1>0, <1>2 DEF PresenceType
  <2>3. RoomSound'
    BY <1>0, <1>1, <1>2, <2>2 DEF RoomSound
  <2>4. ASSUME NEW x \in Watchers PROVE EventsSound(x)'
    BY <1>0, <1>1, <1>2, <2>2, Untold
  <2> QED BY <2>1, <2>3, <2>4 DEF PresenceInv
<1>3. CASE /\ membersOf' = [membersOf EXCEPT ![roomHere] = Upserted(@, c, Unpublished)]
           /\ eventsTo' = [eventsTo EXCEPT ![c] =
                             <<[action |-> "sync", roster |-> Roster(roomHere)]>>]
           /\ watcherAt' = [watcherAt EXCEPT ![c] = "in"]
  <2> DEFINE first == [action |-> "sync", roster |-> Roster(roomHere)]
  <2>1. /\ first \in Events /\ first.action = "sync" /\ first.roster = Roster(roomHere)
        /\ c \notin DOMAIN Roster(roomHere)
        /\ \A d : Shown(Roster(roomHere), d) = Shown(membersOf[roomHere], d)
    <3>1. /\ Roster(roomHere) \in Rosters /\ c \notin DOMAIN Roster(roomHere)
          /\ \A d : Shown(Roster(roomHere), d) = Shown(membersOf[roomHere], d)
      BY <1>0, <1>1, RosterShape
    <3> QED BY <3>1 DEF Events
  <2> HIDE DEF first
  <2>2. /\ eventsTo' = [eventsTo EXCEPT ![c] = <<first>>]
        /\ <<first>> \in Seq(Events) /\ Len(<<first>>) = 1 /\ <<first>>[1] = first
    BY <1>3, <2>1 DEF first
  <2>3. Upserted(membersOf[roomHere], c, Unpublished) \in Members
    BY <1>0, <1>1, UpsertedShape DEF PresenceType, Unpublished
  <2>4. PresenceType'
    BY <1>0, <1>1, <1>3, <2>2, <2>3 DEF PresenceType
  <2>5. /\ \A x \in Watchers : watcherAt'[x] = IF x = c THEN "in" ELSE watcherAt[x]
        /\ eventsTo'[c] = <<first>> /\ \A x \in Watchers \ {c} : eventsTo'[x] = eventsTo[x]
        /\ \A r \in 1..MaxRooms \ {roomHere} : membersOf'[r] = membersOf[r]
        /\ membersOf'[roomHere] = Upserted(membersOf[roomHere], c, Unpublished)
    BY <1>0, <1>1, <1>3, <2>2 DEF PresenceType
  <2>6. /\ DOMAIN membersOf'[roomHere] = DOMAIN membersOf[roomHere] \cup {c}
        /\ \A d : Shown(membersOf'[roomHere], d) =
                    IF d = c THEN Unpublished ELSE Shown(membersOf[roomHere], d)
    BY <2>5 DEF Shown, Upserted
  <2>7. RoomSound'
    BY <1>0, <1>1, <2>5, <2>6 DEF RoomSound
  <2>8. \A d : Shown(membersOf'[roomHere'], d) = Shown(membersOf[roomHere], d)
    BY <1>1, <2>6 DEF Shown
  <2>9. EventsSound(c)'
    <3>1. \A d \in Watchers : Informed(<<first>>, rosterOf[c], d, Shown(membersOf[roomHere], d))
      BY <2>1, <2>2 DEF Informed, Mentions, Says
    <3> QED BY <1>0, <1>1, <2>1, <2>2, <2>5, <2>8, <3>1 DEF EventsSound
  <2>10. ASSUME NEW x \in Watchers \ {c} PROVE EventsSound(x)'
    BY <1>0, <1>1, <2>5, <2>8, Untold
  <2> QED BY <2>4, <2>7, <2>9, <2>10 DEF PresenceInv
<1> QED BY <1>1, <1>2, <1>3 DEF EntersRoom

(* publish, of a state or of a clear.                                      *)
LEMMA PublishesStep ==
    ASSUME PresenceInv, NEW c \in Watchers, NEW state \in Nat, Publishes(c, state),
           published' \in Nat
    PROVE  PresenceInv'
<1>0. PresenceType /\ RoomSound /\ \A x \in Watchers : EventsSound(x)
  BY DEF PresenceInv
<1> DEFINE event == IF state = Unpublished THEN [action |-> "leave", conn |-> c]
                    ELSE [action |-> "upsert", conn |-> c, state |-> state]
<1>1. /\ registryHeld = {} /\ roomHere \in 1..MaxRooms /\ c \in DOMAIN membersOf[roomHere]
      /\ membersOf' = [membersOf EXCEPT ![roomHere][c] = state]
      /\ Broadcast(membersOf[roomHere], event, c)
      /\ UNCHANGED <<roomHere, roomsMade, registryHeld, watcherAt, roomFound, rosterOf>>
  BY <1>0 DEF Publishes, Nobody, PresenceType
<1>2. event \in Events /\ event.action # "sync" /\ event.conn = c /\ Says(event, c) = state
  BY DEF Events, Says
<1> HIDE DEF event
<1>3. membersOf[roomHere] \in [DOMAIN membersOf[roomHere] -> Nat]
      /\ DOMAIN membersOf[roomHere] \in SUBSET Watchers
  BY <1>0, <1>1, MembersShape DEF PresenceType
<1> DEFINE members == [membersOf[roomHere] EXCEPT ![c] = state]
<1>4. /\ members \in [DOMAIN membersOf[roomHere] -> Nat]
      /\ \A d : Shown(members, d) = IF d = c THEN state ELSE Shown(membersOf[roomHere], d)
  BY <1>1, <1>3 DEF Shown
<1>5. members \in Members /\ DOMAIN members = DOMAIN membersOf[roomHere]
  BY <1>3, <1>4, MembersShape
<1>6. membersOf' = [membersOf EXCEPT ![roomHere] = members]
  BY <1>0, <1>1 DEF PresenceType
<1> HIDE DEF members
<1>7. /\ membersOf' \in [1..MaxRooms -> Members] /\ membersOf'[roomHere'] = members
      /\ \A r \in 1..MaxRooms : DOMAIN membersOf'[r] = DOMAIN membersOf[r]
  BY <1>0, <1>1, <1>5, <1>6 DEF PresenceType
<1>8. \A x \in Watchers : watcherAt'[x] = "in" =>
             /\ watcherAt[x] = "in"
             /\ \A d \in Watchers : Shown(membersOf'[roomHere'], d) =
                  IF d = c THEN state ELSE Shown(membersOf[roomHere], d)
  BY <1>1, <1>4, <1>7
<1>9. /\ eventsTo' \in [Watchers -> Seq(Events)] /\ lagging' \in [Watchers -> BOOLEAN]
      /\ \A x \in Watchers : EventsSound(x)'
  <2>1. roomHere # 0 /\ rosterOf' = rosterOf
    BY <1>1
  <2> QED BY <1>1, <1>2, <1>8, <2>1, Told
<1>10. PresenceType'
  BY <1>0, <1>1, <1>7, <1>9 DEF PresenceType
<1>11. RoomSound'
  BY <1>0, <1>1, <1>7 DEF RoomSound
<1> QED BY <1>9, <1>10, <1>11 DEF PresenceInv

(* leave, after which an empty room is gone.                               *)
LEMMA LeavesStep ==
    ASSUME PresenceInv, NEW c \in Watchers, LeavesRoom(c)
    PROVE  PresenceInv'
<1>0. PresenceType /\ RoomSound /\ \A x \in Watchers : EventsSound(x)
  BY DEF PresenceInv
<1> DEFINE left == Without(membersOf[roomHere], c)
<1>1. /\ watcherAt[c] = "in" /\ registryHeld = {} /\ roomHere \in 1..MaxRooms
      /\ membersOf' = [membersOf EXCEPT ![roomHere] = left]
      /\ roomHere' = IF left = <<>> THEN 0 ELSE roomHere
      /\ watcherAt' = [watcherAt EXCEPT ![c] = "gone"]
      /\ UNCHANGED <<roomsMade, registryHeld, roomFound, rosterOf, published>>
      /\ c \in DOMAIN membersOf[roomHere]
  BY <1>0 DEF LeavesRoom, Nobody, PresenceType, RoomSound
<1>2. /\ left \in Members /\ DOMAIN left = DOMAIN membersOf[roomHere] \ {c}
      /\ \A d : Shown(left, d) = IF d = c THEN Unpublished ELSE Shown(membersOf[roomHere], d)
  BY <1>0, <1>1, UpsertedShape, WithoutShown DEF PresenceType
<1>3. left = <<>> => DOMAIN left = {}
  BY EmptyMembers
<1> HIDE DEF left
<1>4. /\ membersOf' \in [1..MaxRooms -> Members] /\ membersOf'[roomHere] = left
      /\ \A r \in 1..MaxRooms \ {roomHere} : membersOf'[r] = membersOf[r]
      /\ \A x \in Watchers : watcherAt'[x] = IF x = c THEN "gone" ELSE watcherAt[x]
  BY <1>0, <1>1, <1>2 DEF PresenceType
<1>5. ASSUME NEW x \in Watchers, watcherAt'[x] = "in"
      PROVE  watcherAt[x] = "in" /\ roomHere' = roomHere
  <2>1. x # c /\ watcherAt[x] = "in"
    BY <1>4, <1>5
  <2>2. x \in DOMAIN left
    BY <1>0, <1>1, <1>2, <2>1 DEF RoomSound
  <2> QED BY <1>1, <1>3, <2>1, <2>2
<1>6. RoomSound'
  <2>1. \A x \in Watchers : watcherAt'[x] # "joins"
    BY <1>0, <1>1, <1>4 DEF RoomSound
  <2>2. \A x \in Watchers : watcherAt'[x] = "in" => roomHere' # 0
    BY <1>1, <1>5
  <2>3. ASSUME NEW x \in Watchers, NEW r \in 1..MaxRooms
        PROVE  x \in DOMAIN membersOf'[r] <=> watcherAt'[x] = "in" /\ r = roomHere'
    <3>1. x \in DOMAIN membersOf'[r] <=> x # c /\ x \in DOMAIN membersOf[r]
      BY <1>0, <1>1, <1>2, <1>4 DEF RoomSound
    <3>2. x \in DOMAIN membersOf[r] <=> watcherAt[x] = "in" /\ r = roomHere
      BY <1>0 DEF RoomSound
    <3> QED BY <1>4, <1>5, <3>1, <3>2
  <2> QED BY <2>1, <2>2, <2>3 DEF RoomSound
<1>7. /\ eventsTo' \in [Watchers -> Seq(Events)] /\ lagging' \in [Watchers -> BOOLEAN]
      /\ \A x \in Watchers : EventsSound(x)'
  <2>1. \A x \in Watchers : watcherAt'[x] = "in" =>
             /\ watcherAt[x] = "in"
             /\ \A d \in Watchers : Shown(membersOf'[roomHere'], d) =
                  IF d = c THEN Unpublished ELSE Shown(membersOf[roomHere], d)
    BY <1>2, <1>4, <1>5
  <2>2. CASE c \in DOMAIN Roster(roomHere)
    <3> DEFINE event == [action |-> "leave", conn |-> c]
    <3>1. Broadcast(membersOf[roomHere], event, c)
      BY <2>2 DEF LeavesRoom
    <3>2. /\ event \in Events /\ event.action # "sync" /\ event.conn = c
          /\ Says(event, c) = Unpublished
      BY DEF Events, Says
    <3> HIDE DEF event
    <3> QED BY <1>1, <2>1, <3>1, <3>2, Told
  <2>3. CASE c \notin DOMAIN Roster(roomHere)
    <3>1. UNCHANGED <<eventsTo, lagging>>
      BY <2>3 DEF LeavesRoom
    <3>2. Shown(membersOf[roomHere], c) = Unpublished
      BY <1>0, <1>1, <2>3, RosterShape DEF Shown
    <3>3. ASSUME NEW x \in Watchers PROVE EventsSound(x)'
      BY <1>0, <1>1, <2>1, <3>1, <3>2, Untold
    <3> QED BY <1>0, <3>1, <3>3 DEF PresenceType
  <2> QED BY <2>2, <2>3
<1>8. PresenceType'
  <2>1. roomHere' \in 0..MaxRooms /\ roomHere' <= roomsMade'
    BY <1>0, <1>1, PresenceAssumption DEF PresenceType
  <2> QED BY <1>0, <1>1, <1>4, <1>7, <2>1 DEF PresenceType
<1> QED BY <1>6, <1>7, <1>8 DEF PresenceInv

(* The client applies an event.                                            *)
LEMMA AppliesStep ==
    ASSUME PresenceInv, NEW c \in Watchers, AppliesEvent(c)
    PROVE  PresenceInv'
<1>0. PresenceType /\ RoomSound /\ \A x \in Watchers : EventsSound(x)
  BY DEF PresenceInv
<1> DEFINE events == eventsTo[c]
           rest == Tail(eventsTo[c])
           e == Head(eventsTo[c])
           roster == Applied(rosterOf[c], Head(eventsTo[c]))
<1>1. /\ events \in Seq(Events) /\ events # <<>> /\ rosterOf[c] \in Rosters
      /\ eventsTo' = [eventsTo EXCEPT ![c] = rest]
      /\ rosterOf' = [rosterOf EXCEPT ![c] = roster]
      /\ UNCHANGED <<roomHere, roomsMade, membersOf, registryHeld, watcherAt, roomFound,
                     lagging, published>>
  BY <1>0 DEF AppliesEvent, PresenceType
<1>2. /\ e \in Events /\ rest \in Seq(Events) /\ e = events[1] /\ 1 \in 1..Len(events)
      /\ \A i \in 1..Len(rest) : i + 1 \in 1..Len(events) /\ rest[i] = events[i + 1]
  BY <1>1
<1>3. /\ roster \in Rosters
      /\ e.action # "sync" => DOMAIN roster \subseteq DOMAIN rosterOf[c] \cup {e.conn}
      /\ e.action = "sync" => DOMAIN roster = DOMAIN e.roster
  BY <1>1, <1>2, AppliedShown
<1>4. \A d, state : Informed(events, rosterOf[c], d, state) => Informed(rest, roster, d, state)
  BY <1>1, InformedByEvent
<1> HIDE DEF events, rest, e, roster
<1>5. /\ eventsTo'[c] = rest /\ rosterOf'[c] = roster
      /\ \A x \in Watchers \ {c} : eventsTo'[x] = eventsTo[x] /\ rosterOf'[x] = rosterOf[x]
  BY <1>0, <1>1 DEF PresenceType
<1>6. PresenceType'
  BY <1>0, <1>1, <1>2, <1>3 DEF PresenceType
<1>7. RoomSound'
  BY <1>0, <1>1 DEF RoomSound
<1>8. EventsSound(c)'
  <2>1. /\ c \notin DOMAIN rosterOf[c]
        /\ \A i \in 1..Len(events) :
             IF events[i].action = "sync" THEN c \notin DOMAIN events[i].roster
                                          ELSE events[i].conn # c
    BY <1>0 DEF EventsSound, events
  <2>2. c \notin DOMAIN roster
    BY <1>2, <1>3, <2>1
  <2>3. \A i \in 1..Len(rest) :
             IF rest[i].action = "sync" THEN c \notin DOMAIN rest[i].roster
                                        ELSE rest[i].conn # c
    BY <1>2, <2>1
  <2>4. ASSUME watcherAt'[c] = "in", ~lagging'[c], NEW d \in Watchers \ {c}
        PROVE  Informed(rest, roster, d, Shown(membersOf'[roomHere'], d))
    BY <1>0, <1>1, <1>4, <2>4 DEF EventsSound, events
  <2> QED BY <1>5, <2>2, <2>3, <2>4 DEF EventsSound
<1>9. ASSUME NEW x \in Watchers \ {c} PROVE EventsSound(x)'
  BY <1>0, <1>1, <1>5, Untold
<1> QED BY <1>6, <1>7, <1>8, <1>9 DEF PresenceInv

(* Every step keeps the invariant.                                         *)
LEMMA PresenceStep == PresenceInv /\ [PresenceNext]_presenceVars => PresenceInv'
<1> SUFFICES ASSUME PresenceInv, [PresenceNext]_presenceVars PROVE PresenceInv'
  OBVIOUS
<1>1. CASE UNCHANGED presenceVars
  <2>1. /\ roomHere' = roomHere /\ roomsMade' = roomsMade /\ membersOf' = membersOf
        /\ registryHeld' = registryHeld /\ eventsTo' = eventsTo /\ watcherAt' = watcherAt
        /\ roomFound' = roomFound /\ rosterOf' = rosterOf /\ lagging' = lagging
        /\ published' = published
    BY <1>1 DEF presenceVars
  <2>2. PresenceType'
    BY <2>1 DEF PresenceInv, PresenceType
  <2>3. RoomSound'
    BY <2>1 DEF PresenceInv, RoomSound
  <2>4. ASSUME NEW c \in Watchers PROVE EventsSound(c)'
    <3>1. EventsSound(c)
      BY DEF PresenceInv
    <3>2. EventsSound(c)' <=> EventsSound(c)
      BY <2>1 DEF EventsSound
    <3> QED BY <3>1, <3>2
  <2> QED BY <2>2, <2>3, <2>4 DEF PresenceInv
<1>2. ASSUME NEW c \in Watchers, PublishesState(c) \/ ClearsState(c) PROVE PresenceInv'
  <2>1. published \in Nat
    BY DEF PresenceInv, PresenceType
  <2>2. CASE PublishesState(c)
    BY <2>1, <2>2, PublishesStep DEF PublishesState
  <2>3. CASE ClearsState(c)
    BY <2>1, <2>3, PublishesStep DEF ClearsState, Unpublished
  <2> QED BY <1>2, <2>2, <2>3
<1>3. CASE PresenceNext
  BY <1>2, <1>3, FindsStep, EntersStep, LeavesStep, AppliesStep DEF PresenceNext
<1> QED BY <1>1, <1>3

(* Who has joined is in the room the registry names, and a client that has *)
(* applied all its events, none of them dropped, shows the others' states. *)
THEOREM RosterAgreesCorrect == PresenceSpec => []RosterAgrees
<1>1. PresenceInv => RosterAgrees
  <2> SUFFICES ASSUME PresenceInv, NEW c \in Watchers
               PROVE  /\ \A r \in 1..MaxRooms :
                           c \in DOMAIN membersOf[r] <=> Present(c) /\ r = roomHere
                      /\ Present(c) /\ eventsTo[c] = <<>> /\ ~lagging[c]
                           => rosterOf[c] = Without(Roster(roomHere), c)
    BY DEF RosterAgrees
  <2>1. \A r \in 1..MaxRooms : c \in DOMAIN membersOf[r] <=> Present(c) /\ r = roomHere
    BY DEF PresenceInv, RoomSound, Present
  <2>2. ASSUME Present(c), eventsTo[c] = <<>>, ~lagging[c]
        PROVE  rosterOf[c] = Without(Roster(roomHere), c)
    <3> DEFINE all == Roster(roomHere)
               mine == rosterOf[c]
               theirs == Without(all, c)
    <3>1. roomHere \in 1..MaxRooms /\ PresenceType /\ c \notin DOMAIN mine /\ mine \in Rosters
      BY <2>2 DEF PresenceInv, PresenceType, RoomSound, EventsSound, Present
    <3>2. all \in Rosters /\ \A d : Shown(all, d) = Shown(membersOf[roomHere], d)
      BY <3>1, RosterShape
    <3>3. /\ theirs \in Rosters
          /\ \A d : Shown(theirs, d) = IF d = c THEN Unpublished ELSE Shown(all, d)
      BY <3>2, UpsertedShape, WithoutShown
    <3>4. \A d \in Watchers \ {c} : Shown(mine, d) = Shown(membersOf[roomHere], d)
      <4>1. Len(eventsTo[c]) = 0
        BY <2>2
      <4> QED BY <2>2, <4>1 DEF PresenceInv, EventsSound, Present, Informed
    <3>5. \A d \in Watchers : Shown(mine, d) = Shown(theirs, d)
      BY <3>1, <3>2, <3>3, <3>4 DEF Shown
    <3> HIDE DEF all, mine, theirs
    <3>6. /\ DOMAIN mine \subseteq Watchers /\ mine \in [DOMAIN mine -> Nat \ {Unpublished}]
          /\ DOMAIN theirs \subseteq Watchers
          /\ theirs \in [DOMAIN theirs -> Nat \ {Unpublished}]
      BY <3>1, <3>3, MembersShape
    <3>7. DOMAIN mine = DOMAIN theirs /\ \A d \in DOMAIN mine : mine[d] = theirs[d]
      BY <3>5, <3>6 DEF Shown
    <3>8. mine = theirs
      BY <3>6, <3>7
    <3> QED BY <3>8 DEF mine, theirs, all
  <2> QED BY <2>1, <2>2
<1> QED BY <1>1, PresenceInitial, PresenceStep, PTL DEF PresenceSpec
-----------------------------------------------------------------------------
(***************************************************************************)
(* DavSync: a client that follows a collection misses no change.           *)
(***************************************************************************)

(* A row of the table, and the rows a transaction may leave in it.  A      *)
(* resource's live row is the last it has, by its place and by its second; *)
(* an address book keeps one row of a resource.                            *)
DavRow == [uid : Uids, etag : Nat, deleted : BOOLEAN, updated : Nat]

TableSound(table, upto) ==
    /\ table \in Seq(DavRow)
    /\ \A i \in DOMAIN table : table[i].updated \in 1..upto
    /\ \A i, j \in DOMAIN table :
         table[i].uid = table[j].uid /\ i # j =>
           /\ ~revives
           /\ ~table[i].deleted =>
                table[j].deleted /\ j < i /\ table[j].updated <= table[i].updated

(* What a transaction changes or adds bears its second.                    *)
Stamped(old, new, at) ==
    /\ DOMAIN old \subseteq DOMAIN new
    /\ \A i \in DOMAIN new :
         \/ i \in DOMAIN old /\ new[i] = old[i]
         \/ new[i].updated = at /\ (i \in DOMAIN old => new[i].uid = old[i].uid)

EditorStates == [pc : {"idle", "put", "commit", "commit put", "overrides"},
                 uid : Uids \cup {""}]
ClientStates == [pc : {"idle", "list"}, copy : [Uids -> Nat], token : Int, floor : Nat,
                 complete : BOOLEAN]

DavType ==
    /\ revives \in BOOLEAN
    /\ second \in Nat /\ second # 0 /\ touched \in Nat /\ touched <= second /\ writes \in Nat
    /\ writer.touched \in Nat
    /\ editorAt \in [Editors -> EditorStates]
    /\ \A w \in Editors : editorAt[w].pc = "put" => editorAt[w].uid \in Uids
    /\ client \in ClientStates
    /\ client.floor <= touched /\ client.token <= touched

WriterSound ==
    /\ TableSound(rows, touched)
    /\ writer # NoWriter =>
         /\ writer.touched \in 1..second /\ touched <= writer.touched
         /\ TableSound(writer.rows, writer.touched)
         /\ Stamped(rows, writer.rows, writer.touched)
    /\ \A w \in Editors :
         editorAt[w].pc \in {"commit", "commit put"} => writer # NoWriter /\ writer.who = w

(* The client has what is in the table of every resource no row of which   *)
(* the next answer lists.                                                  *)
CopySound ==
    /\ \A u \in Uids :
         (\A i \in RowsOf(u) : rows[i].updated < client.token) => client.copy[u] = LiveEtag(u)
    /\ client.token = NoToken => \A u \in Uids : client.copy[u] = Absent
    /\ client.complete => client.copy = shown

DavInv == DavType /\ WriterSound /\ CopySound

(* A bounded set of numbers has a largest one.                             *)
LEMMA Largest ==
    ASSUME NEW N \in Nat, NEW S \in SUBSET (0..N), S # {}
    PROVE  \E m \in S : \A x \in S : x <= m
<1> DEFINE short == {k \in Nat : \E x \in S : k = N - x}
           Less == OpToRel(<, Nat)
<1>1. short \subseteq Nat /\ short # {}
  <2>1. PICK x \in S : TRUE
    OBVIOUS
  <2>2. x \in 0..N
    OBVIOUS
  <2>3. N - x \in short
    BY <2>2
  <2> QED BY <2>3
<1>2. PICK n \in short : \A k \in short : <<k, n>> \notin Less
  <2>1. IsWellFoundedOn(Less, Nat)
    BY NatLessThanWellFounded
  <2> HIDE DEF short, Less
  <2>2. \E n \in short : \A k \in short : ~(<<k, n>> \in Less)
    BY <1>1, <2>1, WFMin, Zenon
  <2> QED BY <2>2
<1>3. \A k \in short : ~(k < n)
  BY <1>2 DEF OpToRel
<1>4. PICK m \in S : n = N - m
  OBVIOUS
<1>5. ASSUME NEW x \in S PROVE x <= m
  <2>1. x \in 0..N /\ m \in 0..N
    OBVIOUS
  <2>2. N - x \in short
    BY <2>1
  <2>3. ~(N - x < n)
    BY <1>3, <2>2
  <2> QED BY <1>4, <2>1, <2>3
<1> QED BY <1>5

(* A row written over another of its resource, the live one or, in an      *)
(* address book, the only one.                                             *)
LEMMA RowReplaced ==
    ASSUME NEW table, NEW t \in Nat, TableSound(table, t),
           NEW s \in Nat, t <= s, s # 0,
           NEW k \in DOMAIN table, revives \/ ~table[k].deleted,
           NEW row \in DavRow, row.uid = table[k].uid, row.updated = s
    PROVE  /\ TableSound([table EXCEPT ![k] = row], s)
           /\ Stamped(table, [table EXCEPT ![k] = row], s)
<1> DEFINE new == [table EXCEPT ![k] = row]
<1>1. /\ new \in Seq(DavRow) /\ DOMAIN new = DOMAIN table
      /\ \A i \in DOMAIN new : new[i] = IF i = k THEN row ELSE table[i]
  BY DEF TableSound
<1> HIDE DEF new
<1>2. \A i \in DOMAIN new : new[i].updated \in 1..s
  BY <1>1 DEF TableSound
<1>3. ASSUME NEW i \in DOMAIN new, NEW j \in DOMAIN new, new[i].uid = new[j].uid, i # j
      PROVE  /\ ~revives
             /\ ~new[i].deleted =>
                  new[j].deleted /\ j < i /\ new[j].updated <= new[i].updated
  <2>1. i \in DOMAIN table /\ j \in DOMAIN table /\ table[i].uid = table[j].uid
    BY <1>1, <1>3
  <2>2. ~revives
    BY <1>3, <2>1 DEF TableSound
  <2>3. ~table[i].deleted =>
          table[j].deleted /\ j < i /\ table[j].updated <= table[i].updated
    BY <1>3, <2>1 DEF TableSound
  <2>4. CASE i = k
    <3>1. table[j].updated <= s
      BY <2>1 DEF TableSound
    <3> QED BY <1>1, <1>3, <2>2, <2>3, <2>4, <3>1
  <2>5. CASE i # k
    BY <1>1, <2>1, <2>2, <2>3, <2>5
  <2> QED BY <2>4, <2>5
<1>4. TableSound(new, s)
  BY <1>1, <1>2, <1>3 DEF TableSound
<1>5. Stamped(table, new, s)
  BY <1>1 DEF Stamped
<1> QED BY <1>4, <1>5 DEF new

(* A row added beside the deleted ones of its resource.                    *)
LEMMA RowAdded ==
    ASSUME NEW table, NEW t \in Nat, TableSound(table, t),
           NEW s \in Nat, t <= s, s # 0,
           NEW row \in DavRow, row.updated = s,
           \A i \in DOMAIN table : table[i].uid = row.uid => ~revives /\ table[i].deleted
    PROVE  /\ TableSound(Append(table, row), s)
           /\ Stamped(table, Append(table, row), s)
<1> DEFINE new == Append(table, row)
           n == Len(table) + 1
<1>1. /\ new \in Seq(DavRow) /\ DOMAIN new = DOMAIN table \cup {n} /\ n \notin DOMAIN table
      /\ \A i \in DOMAIN table : new[i] = table[i] /\ i < n
      /\ new[n] = row
  BY DEF TableSound
<1> HIDE DEF new, n
<1>2. \A i \in DOMAIN new : new[i].updated \in 1..s
  BY <1>1 DEF TableSound
<1>3. ASSUME NEW i \in DOMAIN new, NEW j \in DOMAIN new, new[i].uid = new[j].uid, i # j
      PROVE  /\ ~revives
             /\ ~new[i].deleted =>
                  new[j].deleted /\ j < i /\ new[j].updated <= new[i].updated
  <2>1. CASE i = n
    <3>1. j \in DOMAIN table /\ new[j] = table[j] /\ table[j].updated \in 1..t
      BY <1>1, <1>3, <2>1 DEF TableSound
    <3> QED BY <1>1, <1>3, <2>1, <3>1
  <2>2. CASE j = n
    BY <1>1, <1>3, <2>2
  <2>3. CASE i # n /\ j # n
    BY <1>1, <1>3, <2>3 DEF TableSound
  <2> QED BY <2>1, <2>2, <2>3
<1>4. TableSound(new, s)
  BY <1>1, <1>2, <1>3 DEF TableSound
<1>5. Stamped(table, new, s)
  BY <1>1 DEF Stamped
<1> QED BY <1>4, <1>5 DEF new

(* What a PUT does to the table: the resource's row is written over, or a  *)
(* row is added.                                                           *)
LEMMA RowPut ==
    ASSUME DavType, NEW table, NEW t \in Nat, TableSound(table, t), t <= second,
           NEW u \in Uids, NEW etag \in Nat
    PROVE  /\ TableSound(RowUpserted(table, u, etag), second)
           /\ Stamped(table, RowUpserted(table, u, etag), second)
<1> DEFINE row == [uid |-> u, etag |-> etag, deleted |-> FALSE, updated |-> second]
           at == {i \in DOMAIN table : table[i].uid = u /\ (revives \/ ~table[i].deleted)}
           k == CHOOSE i \in at : TRUE
<1>0. second \in Nat /\ second # 0 /\ FALSE \in BOOLEAN /\ revives \in BOOLEAN
  BY DEF DavType
<1>1. row \in DavRow /\ row.uid = u /\ row.updated = second
  BY <1>0 DEF DavRow
<1>2. RowUpserted(table, u, etag) =
        IF at = {} THEN Append(table, row) ELSE [table EXCEPT ![k] = row]
  BY DEF RowUpserted
<1>3. \A i \in DOMAIN table : table[i].deleted \in BOOLEAN
  <2>1. \A i \in DOMAIN table : table[i] \in DavRow
    BY DEF TableSound
  <2> QED BY <2>1 DEF DavRow
<1>4. CASE at = {}
  <2>1. \A i \in DOMAIN table : table[i].uid = u => ~revives /\ table[i].deleted
    BY <1>0, <1>3, <1>4
  <2> HIDE DEF row, at
  <2> QED BY <1>0, <1>1, <1>2, <1>4, <2>1, RowAdded
<1>5. CASE at # {}
  <2>1. k \in at
    BY <1>5
  <2>2. k \in DOMAIN table /\ table[k].uid = u /\ (revives \/ ~table[k].deleted)
    BY <2>1
  <2> HIDE DEF row, at, k
  <2> QED BY <1>0, <1>1, <1>2, <1>5, <2>2, RowReplaced
<1> QED BY <1>4, <1>5

(* A transaction may write two rows: both bear its second.                 *)
LEMMA StampedTwice ==
    ASSUME NEW a, NEW b, NEW c, NEW s, Stamped(a, b, s), Stamped(b, c, s)
    PROVE  Stamped(a, c, s)
<1>1. DOMAIN a \subseteq DOMAIN c
  BY DEF Stamped
<1>2. ASSUME NEW i \in DOMAIN c
      PROVE  \/ i \in DOMAIN a /\ c[i] = a[i]
             \/ c[i].updated = s /\ (i \in DOMAIN a => c[i].uid = a[i].uid)
  BY DEF Stamped
<1> QED BY <1>1, <1>2 DEF Stamped

(* The page: the first rows of an answer, all of them if it is not full.   *)
LEMMA PageShape ==
    ASSUME rows \in Seq(DavRow), NEW matches \in SUBSET DOMAIN rows, NEW limit \in Nat
    PROVE  /\ PageOf(matches, limit) \subseteq matches
           /\ Cardinality(matches) < limit => PageOf(matches, limit) = matches
           /\ \A i \in PageOf(matches, limit), j \in matches :
                Before(j, i) => j \in PageOf(matches, limit)
<1> DEFINE earlier(i) == {j \in matches : Before(j, i)}
<1>1. IsFiniteSet(matches)
  <2>1. DOMAIN rows = 1..Len(rows) /\ Len(rows) \in Nat
    OBVIOUS
  <2>2. IsFiniteSet(1..Len(rows))
    BY <2>1, FS_Interval
  <2> QED BY <2>1, <2>2, FS_Subset
<1>2. \A i : /\ IsFiniteSet(earlier(i)) /\ Cardinality(earlier(i)) \in Nat
             /\ Cardinality(earlier(i)) <= Cardinality(matches)
  <2> TAKE i
  <2>1. earlier(i) \in SUBSET matches
    OBVIOUS
  <2> HIDE DEF earlier
  <2>2. IsFiniteSet(earlier(i)) /\ Cardinality(earlier(i)) <= Cardinality(matches)
    BY <1>1, <2>1, FS_Subset
  <2> QED BY <2>2, FS_CardinalityType
<1>3. Cardinality(matches) \in Nat
  BY <1>1, FS_CardinalityType
<1>4. PageOf(matches, limit) = {i \in matches : Cardinality(earlier(i)) < limit}
  BY DEF PageOf
<1>5. ASSUME Cardinality(matches) < limit PROVE PageOf(matches, limit) = matches
  <2> HIDE DEF earlier
  <2> QED BY <1>2, <1>3, <1>4, <1>5
<1>6. ASSUME NEW i \in PageOf(matches, limit), NEW j \in matches, Before(j, i)
      PROVE  j \in PageOf(matches, limit)
  <2>1. earlier(j) \in SUBSET earlier(i)
    <3>1. \A k \in matches : rows[k].updated \in Nat /\ k \in Nat
      <4>1. \A k \in matches : rows[k] \in DavRow /\ k \in 1..Len(rows)
        OBVIOUS
      <4> QED BY <4>1 DEF DavRow
    <3>2. i \in matches
      BY <1>4, <1>6
    <3> QED BY <1>6, <3>1, <3>2 DEF Before
  <2> HIDE DEF earlier
  <2>2. Cardinality(earlier(j)) <= Cardinality(earlier(i))
    BY <1>2, <2>1, FS_Subset
  <2>3. i \in matches /\ Cardinality(earlier(i)) < limit
    BY <1>4, <1>6
  <2>4. Cardinality(earlier(j)) < limit
    BY <1>2, <2>2, <2>3
  <2> QED BY <1>4, <1>6, <2>4
<1> QED BY <1>4, <1>5, <1>6

(* The latest second on a page is one of its rows'.                        *)
LEMMA LatestShape ==
    ASSUME touched \in Nat, TableSound(rows, touched), NEW page \in SUBSET DOMAIN rows
    PROVE  /\ LatestOf(page) \in 0..touched
           /\ page # {} =>
                \E k \in page : /\ rows[k].updated = LatestOf(page)
                                /\ \A j \in page : rows[j].updated <= rows[k].updated
<1>1. CASE page = {}
  BY <1>1 DEF LatestOf
<1>2. CASE page # {}
  <2> DEFINE seconds == {rows[i].updated : i \in page}
             top(k) == \A j \in page : rows[j].updated <= rows[k].updated
  <2>1. seconds \in SUBSET (0..touched) /\ seconds # {}
    BY <1>2 DEF TableSound
  <2>2. PICK m \in seconds : \A x \in seconds : x <= m
    <3> HIDE DEF seconds
    <3> QED BY <2>1, Largest
  <2>3. \E k \in page : top(k)
    BY <2>2
  <2>4. LatestOf(page) = rows[CHOOSE k \in page : top(k)].updated
    BY <1>2 DEF LatestOf
  <2>5. PICK k \in page : top(k) /\ LatestOf(page) = rows[k].updated
    <3> HIDE DEF top
    <3> QED BY <2>3, <2>4
  <2>6. rows[k].updated \in 1..touched
    BY DEF TableSound
  <2> QED BY <1>2, <2>5, <2>6
<1> QED BY <1>1, <1>2

(* Of the rows of a resource on a page one is the last.                    *)
LEMMA LastExists ==
    ASSUME touched \in Nat, TableSound(rows, touched), NEW page \in SUBSET DOMAIN rows,
           NEW u, NEW first \in page, rows[first].uid = u
    PROVE  \E i \in page : rows[i].uid = u /\ IsLast(i, page)
<1> DEFINE mine == {i \in page : rows[i].uid = u}
           seconds == {rows[i].updated : i \in mine}
<1>0. \A i \in page : rows[i].updated \in 1..touched /\ i \in 1..Len(rows)
  BY DEF TableSound
<1>1. seconds \in SUBSET (0..touched) /\ seconds # {}
  <2>1. 1..touched \subseteq 0..touched
    OBVIOUS
  <2>2. \A x \in seconds : x \in 1..touched
    BY <1>0
  <2>3. rows[first].updated \in seconds
    OBVIOUS
  <2> QED BY <2>1, <2>2, <2>3
<1>2. PICK m \in seconds : \A x \in seconds : x <= m
  <2> HIDE DEF seconds
  <2> QED BY <1>1, Largest
<1> DEFINE latest == {i \in mine : rows[i].updated = m}
<1>3. latest \in SUBSET (0..Len(rows)) /\ latest # {} /\ Len(rows) \in Nat
  BY <1>0, <1>2 DEF TableSound
<1>4. PICK k \in latest : \A x \in latest : x <= k
  <2> HIDE DEF latest
  <2> QED BY <1>3, Largest
<1>5. k \in page /\ rows[k].uid = u /\ rows[k].updated = m
  BY <1>4
<1>6. ASSUME NEW j \in page \ {k}, rows[j].uid = u PROVE Before(j, k)
  <2>1. rows[j].updated <= m
    BY <1>2, <1>6
  <2>2. rows[j].updated = m => j <= k
    BY <1>4, <1>6
  <2> QED BY <1>0, <1>5, <1>6, <2>1, <2>2 DEF Before
<1>7. IsLast(k, page)
  BY <1>5, <1>6 DEF IsLast
<1> QED BY <1>5, <1>7

(* A resource whose rows are all on the page, those the answer lists, is   *)
(* in the client's copy afterwards as it is in the table.                  *)
LEMMA CopyListed ==
    ASSUME DavInv, NEW page \in SUBSET Matches, NEW u \in Uids,
           \A i \in Matches : rows[i].uid = u => i \in page
    PROVE  Merged(client.copy, page)[u] = LiveEtag(u)
<1>0. /\ touched \in Nat /\ TableSound(rows, touched) /\ page \in SUBSET DOMAIN rows
      /\ client.token \in Int
  BY DEF DavInv, DavType, ClientStates, WriterSound, Matches
<1>1. CASE \A i \in page : rows[i].uid # u
  <2>1. Merged(client.copy, page)[u] = client.copy[u]
    BY <1>1 DEF Merged
  <2>2. \A i \in RowsOf(u) : i \notin Matches
    BY <1>1 DEF RowsOf
  <2>3. CASE client.token = NoToken
    <3>1. Live(u) = {}
      BY <2>2, <2>3 DEF Live, RowsOf, Matches
    <3> QED BY <2>1, <2>3, <3>1 DEF LiveEtag, DavInv, CopySound
  <2>4. CASE client.token # NoToken
    <3>1. \A i \in RowsOf(u) : rows[i].updated < client.token
      <4>1. \A i \in RowsOf(u) : ~(rows[i].updated >= client.token)
        BY <2>2, <2>4 DEF Matches, FromToken, RowsOf
      <4>2. \A i \in RowsOf(u) : rows[i].updated \in 1..touched
        BY <1>0 DEF RowsOf, TableSound
      <4> QED BY <1>0, <4>1, <4>2
    <3> QED BY <2>1, <3>1 DEF DavInv, CopySound
  <2> QED BY <2>3, <2>4
<1>2. CASE ~(\A i \in page : rows[i].uid # u)
  <2> DEFINE isMine(i) == rows[i].uid = u /\ IsLast(i, page)
             i == CHOOSE x \in page : isMine(x)
  <2>1. i \in page /\ isMine(i)
    <3>1. \E x \in page : isMine(x)
      BY <1>0, <1>2, LastExists
    <3> HIDE DEF isMine
    <3> QED BY <3>1
  <2>2. Merged(client.copy, page)[u] = IF rows[i].deleted THEN Absent ELSE rows[i].etag
    BY <1>2 DEF Merged
  <2> HIDE DEF i
  <2>3. CASE Live(u) = {}
    <3>1. rows[i].deleted
      BY <1>0, <2>1, <2>3 DEF Live
    <3> QED BY <2>2, <2>3, <3>1 DEF LiveEtag
  <2>4. CASE Live(u) # {}
    <3>1. PICK l : l \in Live(u) /\ LiveEtag(u) = rows[l].etag
      BY <2>4 DEF LiveEtag
    <3>2. l \in DOMAIN rows /\ rows[l].uid = u /\ ~rows[l].deleted
      BY <3>1 DEF Live
    <3>3. SUFFICES ASSUME i # l PROVE FALSE
      BY <2>2, <3>1, <3>2
    <3>4. /\ i \in DOMAIN rows /\ rows[i].uid = u /\ i \in Matches
      BY <1>0, <2>1
    <3>5. rows[i].deleted /\ i < l /\ rows[i].updated <= rows[l].updated
      BY <1>0, <3>2, <3>3, <3>4 DEF TableSound
    <3>6. /\ rows[i].updated \in 1..touched /\ rows[l].updated \in 1..touched
          /\ i \in Nat /\ l \in Nat
      BY <1>0, <3>2, <3>4 DEF TableSound
    <3>7. l \in Matches
      <4>1. client.token # NoToken => rows[l].updated >= client.token
        <5>1. client.token # NoToken => rows[i].updated >= client.token
          BY <3>4 DEF Matches, FromToken
        <5> QED BY <1>0, <3>5, <3>6, <5>1
      <4> QED BY <3>2, <4>1 DEF Matches, FromToken
    <3>8. Before(l, i)
      BY <2>1, <3>2, <3>3, <3>4, <3>7 DEF IsLast
    <3> QED BY <3>5, <3>6, <3>8 DEF Before
  <2> QED BY <2>3, <2>4
<1> QED BY <1>1, <1>2

(* Nothing is in the table, and no request has begun.                      *)
LEMMA DavInitial == DavInit => DavInv
<1> SUFFICES ASSUME DavInit PROVE DavInv
  OBVIOUS
<1>1. /\ NoWriter.touched = 0 /\ NoToken = -1 /\ Absent = 0 /\ FALSE \in BOOLEAN
      /\ EditorIdle \in EditorStates
      /\ EditorIdle.pc = "idle" /\ NoToken \in Int
  BY DEF NoWriter, NoToken, Absent, EditorIdle, EditorStates
<1>2. DOMAIN rows = {} /\ rows \in Seq(DavRow)
  BY DEF DavInit
<1>3. client \in ClientStates
  BY <1>1 DEF DavInit, ClientStates
<1>4. DavType
  BY <1>1, <1>3 DEF DavInit, DavType
<1>5. WriterSound
  BY <1>1, <1>2 DEF DavInit, WriterSound, TableSound
<1>6. CopySound
  BY <1>1, <1>2 DEF DavInit, CopySound, LiveEtag, Live
<1> QED BY <1>4, <1>5, <1>6 DEF DavInv

(* What the client's copy is held against stays the same when neither the  *)
(* table nor the client does anything.                                     *)
LEMMA CopyStays ==
    ASSUME CopySound, UNCHANGED <<rows, client, shown>>
    PROVE  CopySound'
BY DEF CopySound, RowsOf, LiveEtag, Live

(* The numbers of a state.                                                 *)
LEMMA DavNumbers ==
    ASSUME DavType
    PROVE  /\ second \in Nat /\ second # 0 /\ touched \in Nat /\ touched <= second
           /\ writes \in Nat /\ client.token \in Int /\ client.floor \in Nat
           /\ client.floor <= touched /\ client.token <= touched
<1>1. client.token \in Int /\ client.floor \in Nat
  BY DEF DavType, ClientStates
<1> QED BY <1>1 DEF DavType

(* The transaction that opens bears the present second.                    *)
LEMMA OpensNow ==
    ASSUME DavType, NEW w, NEW next, Opens(w, next)
    PROVE  /\ writer'.who = w /\ writer'.rows = next /\ writer'.touched = second
           /\ writer'.touched \in Nat /\ writer'.touched \in 1..second'
           /\ touched' <= writer'.touched /\ writer' # NoWriter /\ writes' \in Nat
<1>1. /\ writer' = [who |-> w, rows |-> next, touched |-> second]
      /\ writes' = writes + 1 /\ second' = second /\ touched' = touched
  BY DEF Opens
<1>2. writer'.who = w /\ writer'.rows = next /\ writer'.touched = second
  BY <1>1
<1>3. NoWriter.touched = 0
  BY DEF NoWriter
<1>4. writer' # NoWriter
  BY <1>2, <1>3, DavNumbers
<1> QED BY <1>1, <1>2, <1>4, DavNumbers

(* A transaction opens.                                                    *)
LEMMA OpensStep ==
    ASSUME DavInv, NEW w \in Editors, NEW next, Opens(w, next),
           TableSound(next, second), Stamped(rows, next, second),
           NEW pc \in {"commit", "commit put"},
           editorAt' = [editorAt EXCEPT ![w].pc = pc]
    PROVE  DavInv'
<1>0. DavType /\ WriterSound /\ CopySound
  BY DEF DavInv
<1>1. /\ writer = NoWriter /\ writer' = [who |-> w, rows |-> next, touched |-> second]
      /\ writes' = writes + 1
      /\ UNCHANGED <<revives, second, rows, touched, client, shown>>
  BY DEF Opens
<1>2. /\ editorAt'[w].pc = pc /\ editorAt'[w] \in EditorStates
      /\ \A x \in Editors \ {w} : editorAt'[x] = editorAt[x]
      /\ editorAt' \in [Editors -> EditorStates]
  <2>1. editorAt[w] \in EditorStates /\ editorAt \in [Editors -> EditorStates]
    BY <1>0 DEF DavType
  <2>2. /\ [editorAt[w] EXCEPT !.pc = pc] \in EditorStates
        /\ [editorAt[w] EXCEPT !.pc = pc].pc = pc
    BY <2>1 DEF EditorStates
  <2> QED BY <2>1, <2>2
<1>3. /\ writer'.who = w /\ writer'.rows = next /\ writer'.touched = second
      /\ writer'.touched \in Nat /\ writer'.touched \in 1..second'
      /\ touched' <= writer'.touched /\ writer' # NoWriter /\ writes' \in Nat
  BY <1>0, OpensNow
<1>4. DavType'
  <2>1. \A x \in Editors : editorAt'[x].pc = "put" => editorAt'[x].uid \in Uids
    BY <1>0, <1>2 DEF DavType
  <2> QED BY <1>0, <1>1, <1>2, <1>3, <2>1 DEF DavType
<1>5. WriterSound'
  <2>1. TableSound(rows, touched)'
    BY <1>0, <1>1 DEF WriterSound, TableSound
  <2>2. TableSound(writer'.rows, writer'.touched)
    BY <1>3
  <2>3. TableSound(writer.rows, writer.touched)'
    BY <1>1, <2>2 DEF TableSound
  <2>4. Stamped(rows, writer.rows, writer.touched)'
    BY <1>1, <1>3 DEF Stamped
  <2>5. \A x \in Editors : editorAt'[x].pc \in {"commit", "commit put"} => x = w
    BY <1>0, <1>1, <1>2 DEF WriterSound
  <2>6. \A x \in Editors : editorAt'[x].pc \in {"commit", "commit put"} => writer'.who = x
    BY <1>3, <2>5
  <2> QED BY <1>3, <2>1, <2>3, <2>4, <2>6 DEF WriterSound
<1>6. CopySound'
  BY <1>0, <1>1, CopyStays
<1> QED BY <1>4, <1>5, <1>6 DEF DavInv

(* put_resource has judged its preconditions.                              *)
LEMMA LooksUpStep ==
    ASSUME DavInv, NEW w \in Editors, NEW u \in Uids, NEW header, LooksUp(w, u, header)
    PROVE  DavInv'
<1>0. DavType /\ WriterSound /\ CopySound
  BY DEF DavInv
<1> DEFINE at == [EditorIdle EXCEPT !.pc = "put", !.uid = u]
<1>1. /\ editorAt' = [editorAt EXCEPT ![w] = at]
      /\ UNCHANGED <<revives, second, rows, touched, writer, writes, client, shown>>
  BY DEF LooksUp
<1>2. /\ at.pc = "put" /\ at.uid = u
      /\ at \in EditorStates
  BY DEF EditorIdle, EditorStates
<1> HIDE DEF at
<1>3. editorAt'[w] = at /\ \A x \in Editors \ {w} : editorAt'[x] = editorAt[x]
  BY <1>0, <1>1 DEF DavType
<1>4. DavType'
  BY <1>0, <1>1, <1>2, <1>3 DEF DavType
<1>5. WriterSound'
  BY <1>0, <1>1, <1>2, <1>3 DEF WriterSound, TableSound, Stamped
<1> QED BY <1>0, <1>1, <1>4, <1>5, CopyStays DEF DavInv

(* A transaction commits: what it did not change is as it was, and what it *)
(* changed bears a second the client's token has not passed.               *)
LEMMA CommitsStep ==
    ASSUME DavInv, NEW w \in Editors, Commits(w)
    PROVE  DavInv'
<1>0. DavType /\ WriterSound /\ CopySound
  BY DEF DavInv
<1>1. PICK next \in {"idle", "overrides"} :
        editorAt' = [editorAt EXCEPT ![w] = [EditorIdle EXCEPT !.pc = next]]
  BY DEF Commits
<1>2. /\ editorAt[w].pc \in {"commit", "commit put"}
      /\ rows' = writer.rows /\ touched' = writer.touched /\ writer' = NoWriter
      /\ UNCHANGED <<revives, second, writes, client, shown>>
  BY DEF Commits
<1>3. /\ writer # NoWriter /\ writer.who = w
      /\ writer.touched \in 1..second /\ touched <= writer.touched
      /\ TableSound(writer.rows, writer.touched)
      /\ Stamped(rows, writer.rows, writer.touched)
  BY <1>0, <1>2 DEF WriterSound
<1> DEFINE at == [EditorIdle EXCEPT !.pc = next]
<1>4. /\ at.pc = next
      /\ at \in EditorStates
  BY DEF EditorIdle, EditorStates
<1> HIDE DEF at
<1>5. editorAt'[w] = at /\ \A x \in Editors \ {w} : editorAt'[x] = editorAt[x]
  BY <1>0, <1>1 DEF DavType, at
<1>6. DavType'
  <2>1. /\ editorAt' \in [Editors -> EditorStates]
        /\ \A x \in Editors : editorAt'[x].pc = "put" => editorAt'[x].uid \in Uids
    BY <1>0, <1>1, <1>4, <1>5 DEF DavType, at
  <2>2. /\ client.floor <= touched' /\ client.token <= touched'
        /\ touched' \in Nat /\ touched' <= second /\ NoWriter.touched \in Nat
    <3>1. NoWriter.touched \in Nat
      BY DEF NoWriter
    <3>2. touched' = writer.touched
      BY <1>2
    <3> QED BY <1>0, <1>3, <3>1, <3>2, DavNumbers
  <2> QED BY <1>0, <1>2, <2>1, <2>2 DEF DavType
<1>7. WriterSound'
  <2>1. TableSound(rows, touched)'
    BY <1>2, <1>3 DEF TableSound
  <2>2. \A x \in Editors : ~(editorAt'[x].pc \in {"commit", "commit put"})
    BY <1>0, <1>3, <1>4, <1>5 DEF WriterSound
  <2> QED BY <1>2, <2>1, <2>2 DEF WriterSound
<1>8. CopySound'
  <2>1. ASSUME NEW u \in Uids, \A i \in RowsOf(u)' : rows'[i].updated < client.token
        PROVE  client.copy[u] = LiveEtag(u)'
    <3>1. \A i \in RowsOf(u)' : rows'[i].updated # writer.touched
      <4>1. \A i \in RowsOf(u)' : i \in DOMAIN writer.rows /\ rows'[i] = writer.rows[i]
        BY <1>2 DEF RowsOf
      <4>2. \A i \in DOMAIN writer.rows : writer.rows[i].updated \in Nat
        BY <1>0, <1>3, DavNumbers DEF TableSound
      <4> QED BY <1>0, <1>3, <2>1, <4>1, <4>2, DavNumbers
    <3>2. \A i \in RowsOf(u)' : i \in RowsOf(u) /\ rows'[i] = rows[i]
      BY <1>2, <1>3, <3>1 DEF RowsOf, Stamped
    <3>3. \A i \in RowsOf(u) : i \in RowsOf(u)' /\ rows'[i] = rows[i]
      <4> SUFFICES ASSUME NEW i \in RowsOf(u) PROVE i \in RowsOf(u)'
        BY <3>2
      <4> QED BY <1>2, <1>3 DEF RowsOf, Stamped
    <3>4. client.copy[u] = LiveEtag(u)
      BY <1>0, <2>1, <3>3 DEF CopySound
    <3>5. Live(u)' = Live(u) /\ \A i \in Live(u) : rows'[i] = rows[i]
      <4>1. \A i : i \in Live(u)' <=> i \in RowsOf(u)' /\ ~rows'[i].deleted
        BY DEF Live, RowsOf
      <4>2. \A i : i \in Live(u) <=> i \in RowsOf(u) /\ ~rows[i].deleted
        BY DEF Live, RowsOf
      <4> QED BY <3>2, <3>3, <4>1, <4>2
    <3> QED BY <3>4, <3>5 DEF LiveEtag
  <2> QED BY <1>0, <1>2, <2>1 DEF CopySound
<1> QED BY <1>6, <1>7, <1>8 DEF DavInv

(* sync-collection reads the collection's row.                             *)
LEMMA ReadsStep == ASSUME DavInv, ReadsCollection PROVE DavInv'
<1>0. DavType /\ WriterSound /\ CopySound
  BY DEF DavInv
<1>1. /\ client' = [client EXCEPT !.pc = "list", !.floor = touched]
      /\ UNCHANGED <<revives, second, rows, touched, writer, writes, editorAt, shown>>
  BY DEF ReadsCollection
<1>2. touched \in Nat
  BY <1>0 DEF DavType
<1>3. /\ client' \in ClientStates
      /\ client'.copy = client.copy /\ client'.token = client.token
      /\ client'.floor = touched /\ client'.complete = client.complete
  BY <1>0, <1>1, <1>2 DEF DavType, ClientStates
<1>4. DavType'
  BY <1>0, <1>1, <1>2, <1>3 DEF DavType
<1>5. WriterSound'
  BY <1>0, <1>1 DEF WriterSound, TableSound, Stamped
<1>6. CopySound'
  BY <1>0, <1>1, <1>3 DEF CopySound, RowsOf, LiveEtag, Live
<1> QED BY <1>4, <1>5, <1>6 DEF DavInv

(* It lists a page and the client takes it over.                           *)
LEMMA ListsStep == ASSUME DavInv, ListsChanges PROVE DavInv'
<1>0. DavType /\ WriterSound /\ CopySound
  BY DEF DavInv
<1>1. PICK limit \in 1..MAX_SYNC_PAGE :
        client' = [client EXCEPT
                     !.pc = "idle", !.complete = ~(Cardinality(Matches) >= limit),
                     !.copy = Merged(client.copy, PageOf(Matches, limit)),
                     !.token = TokenOf(PageOf(Matches, limit), Cardinality(Matches) >= limit)]
  BY DEF ListsChanges
<1>2. /\ shown' = [u \in Uids |-> LiveEtag(u)]
      /\ UNCHANGED <<revives, second, rows, touched, writer, writes, editorAt>>
  BY DEF ListsChanges
<1> DEFINE full == Cardinality(Matches) >= limit
           page == PageOf(Matches, limit)
           copy == Merged(client.copy, page)
           token == TokenOf(page, full)
<1>3. /\ touched \in Nat /\ TableSound(rows, touched) /\ rows \in Seq(DavRow)
      /\ Matches \in SUBSET DOMAIN rows /\ limit \in Nat /\ Cardinality(Matches) \in Nat
  <2>1. rows \in Seq(DavRow) /\ Matches \in SUBSET DOMAIN rows
    BY <1>0 DEF WriterSound, TableSound, Matches
  <2>2. IsFiniteSet(1..Len(rows)) /\ DOMAIN rows = 1..Len(rows)
    BY <2>1, FS_Interval
  <2>3. Cardinality(Matches) \in Nat
    BY <2>1, <2>2, FS_Subset, FS_CardinalityType
  <2>4. limit \in Nat
    BY DavAssumption
  <2>5. touched \in Nat /\ TableSound(rows, touched)
    BY <1>0, DavNumbers DEF WriterSound
  <2> QED BY <2>1, <2>3, <2>4, <2>5
<1>4. /\ page \in SUBSET Matches
      /\ ~full => page = Matches
      /\ \A i \in page, j \in Matches : Before(j, i) => j \in page
  BY <1>3, PageShape
<1>5. page \in SUBSET DOMAIN rows
  BY <1>3, <1>4
<1> HIDE DEF page
<1>6. LatestOf(page) \in 0..touched /\ client.floor \in 0..touched
  BY <1>0, <1>3, <1>5, LatestShape, DavNumbers
<1>7. /\ token \in 0..touched
      /\ full => token = LatestOf(page)
  BY <1>6 DEF TokenOf
<1>8. ASSUME NEW u \in Uids, ~full \/ \A i \in RowsOf(u) : rows[i].updated < token
      PROVE  copy[u] = LiveEtag(u)
  <2>1. \A i \in Matches : rows[i].uid = u => i \in page
    <3> SUFFICES ASSUME full, NEW i \in Matches, rows[i].uid = u PROVE i \in page
      BY <1>4
    <3>1. rows[i].updated < LatestOf(page)
      BY <1>3, <1>7, <1>8 DEF RowsOf
    <3>2. rows[i].updated \in 1..touched
      BY <1>3 DEF TableSound
    <3>3. page # {}
      BY <3>1, <3>2 DEF LatestOf
    <3>4. PICK k \in page : rows[k].updated = LatestOf(page)
      BY <1>3, <1>5, <3>3, LatestShape
    <3>5. Before(i, k)
      BY <3>1, <3>4 DEF Before
    <3> QED BY <1>4, <3>5
  <2> HIDE DEF copy
  <2> QED BY <1>4, <2>1, CopyListed DEF copy
<1>9. copy \in [Uids -> Nat]
  <2>1. \A u \in Uids : copy[u] \in Nat
    <3> SUFFICES ASSUME NEW u \in Uids PROVE copy[u] \in Nat
      OBVIOUS
    <3>1. CASE \A i \in page : rows[i].uid # u
      BY <1>0, <3>1 DEF Merged, DavType, ClientStates
    <3>2. CASE ~(\A i \in page : rows[i].uid # u)
      <4> DEFINE isMine(i) == rows[i].uid = u /\ IsLast(i, page)
                 i == CHOOSE x \in page : isMine(x)
      <4>1. i \in page
        <5>1. \E x \in page : isMine(x)
          BY <1>3, <1>5, <3>2, LastExists
        <5> HIDE DEF isMine
        <5> QED BY <5>1
      <4>2. copy[u] = IF rows[i].deleted THEN Absent ELSE rows[i].etag
        BY <3>2 DEF Merged
      <4> HIDE DEF i
      <4>3. rows[i] \in DavRow
        BY <1>3, <1>5, <4>1
      <4> QED BY <4>2, <4>3 DEF DavRow, Absent
    <3> QED BY <3>1, <3>2
  <2> QED BY <2>1 DEF Merged
<1> HIDE DEF copy, token
<1>10. (~full) \in BOOLEAN /\ token \in Int
  BY <1>7
<1> HIDE DEF full
<1>11. /\ client' \in ClientStates
       /\ client'.copy = copy /\ client'.token = token
       /\ client'.floor = client.floor /\ client'.complete = ~full
  <2>1. client' = [client EXCEPT !.pc = "idle", !.complete = ~full,
                                 !.copy = copy, !.token = token]
    BY <1>1 DEF full, page, copy, token
  <2> QED BY <1>0, <1>9, <1>10, <2>1 DEF DavType, ClientStates
<1>12. DavType'
  BY <1>0, <1>2, <1>7, <1>11 DEF DavType
<1>13. WriterSound'
  BY <1>0, <1>2 DEF WriterSound, TableSound, Stamped
<1>14. \A u \in Uids : LiveEtag(u)' = LiveEtag(u) /\ RowsOf(u)' = RowsOf(u)
  BY <1>2 DEF LiveEtag, Live, RowsOf
<1>15. CopySound'
  <2>1. ASSUME NEW u \in Uids, \A i \in RowsOf(u)' : rows'[i].updated < client'.token
        PROVE  client'.copy[u] = LiveEtag(u)'
    BY <1>2, <1>8, <1>11, <1>14, <2>1
  <2>2. client'.token # NoToken
    BY <1>7, <1>11 DEF NoToken
  <2>3. ~full => copy = shown'
    BY <1>2, <1>8, <1>9
  <2> QED BY <1>11, <2>1, <2>2, <2>3 DEF CopySound
<1> QED BY <1>12, <1>13, <1>15 DEF DavInv

(* Every step keeps the invariant.                                         *)
LEMMA DavStep == DavInv /\ [DavNext]_davVars => DavInv'
<1> SUFFICES ASSUME DavInv, [DavNext]_davVars PROVE DavInv'
  OBVIOUS
<1>0. /\ DavType /\ WriterSound /\ CopySound
      /\ touched \in Nat /\ second \in Nat /\ touched <= second /\ second # 0
      /\ writes \in Nat /\ writes + 1 \in Nat /\ TableSound(rows, touched)
  <2>1. DavType /\ WriterSound /\ CopySound
    BY DEF DavInv
  <2>2. TableSound(rows, touched)
    BY <2>1 DEF WriterSound
  <2>3. /\ touched \in Nat /\ second \in Nat /\ touched <= second /\ second # 0
        /\ writes \in Nat
    BY <2>1, DavNumbers
  <2> QED BY <2>1, <2>2, <2>3
<1>1. CASE UNCHANGED davVars
  <2>1. CopySound'
    BY <1>0, <1>1, CopyStays DEF davVars
  <2>2. DavType' /\ WriterSound'
    BY <1>0, <1>1 DEF davVars, DavType, WriterSound, TableSound, Stamped
  <2> QED BY <2>1, <2>2 DEF DavInv
<1>2. ASSUME NEW w \in Editors, PutsResource(w) PROVE DavInv'
  <2>1. editorAt[w].uid \in Uids
    BY <1>0, <1>2 DEF PutsResource, DavType
  <2>2. /\ TableSound(RowUpserted(rows, editorAt[w].uid, writes + 1), second)
        /\ Stamped(rows, RowUpserted(rows, editorAt[w].uid, writes + 1), second)
    BY <1>0, <2>1, RowPut
  <2> QED BY <1>2, <2>2, OpensStep DEF PutsResource
<1>3. ASSUME NEW w \in Editors, NEW u \in Uids, NEW tail \in Uids, SplitsSeries(w, u, tail)
      PROVE  DavInv'
  <2> DEFINE head == RowUpserted(rows, u, writes + 1)
             both == RowUpserted(head, tail, writes + 1)
  <2>1. TableSound(head, second) /\ Stamped(rows, head, second)
    BY <1>0, RowPut
  <2> HIDE DEF head
  <2>2. TableSound(both, second) /\ Stamped(head, both, second)
    BY <1>0, <2>1, RowPut
  <2> HIDE DEF both
  <2>3. Stamped(rows, both, second)
    BY <2>1, <2>2, StampedTwice
  <2>4. Opens(w, both) /\ editorAt' = [editorAt EXCEPT ![w].pc = "commit"]
    BY <1>3 DEF SplitsSeries, head, both
  <2> QED BY <2>2, <2>3, <2>4, OpensStep
<1>4. ASSUME NEW w \in Editors, WritesOverride(w) PROVE DavInv'
  <2>1. TableSound(rows, second)
    BY <1>0 DEF TableSound
  <2>2. Stamped(rows, rows, second)
    BY DEF Stamped
  <2> QED BY <1>4, <2>1, <2>2, OpensStep DEF WritesOverride
<1>5. ASSUME NEW w \in Editors, NEW u \in Uids, DeletesResource(w, u) PROVE DavInv'
  <2> DEFINE i == CHOOSE x \in Live(u) : TRUE
             row == [rows[i] EXCEPT !.deleted = TRUE, !.updated = second]
             next == [rows EXCEPT ![i].deleted = TRUE, ![i].updated = second]
  <2>1. Opens(w, next) /\ editorAt' = [editorAt EXCEPT ![w].pc = "commit"]
    BY <1>5 DEF DeletesResource
  <2>2. i \in DOMAIN rows /\ ~rows[i].deleted
    <3>1. i \in Live(u)
      BY <1>5 DEF DeletesResource
    <3> QED BY <3>1 DEF Live
  <2> HIDE DEF i
  <2>3. rows[i] \in DavRow /\ TRUE \in BOOLEAN
    BY <1>0, <2>2 DEF TableSound
  <2>4. row \in DavRow /\ row.uid = rows[i].uid /\ row.updated = second
    BY <1>0, <2>3 DEF DavRow
  <2>5. next = [rows EXCEPT ![i] = row]
    BY <1>0, <2>2, <2>3 DEF TableSound, DavRow
  <2> HIDE DEF row, next
  <2>6. TableSound(next, second) /\ Stamped(rows, next, second)
    BY <1>0, <2>2, <2>4, <2>5, RowReplaced
  <2> QED BY <2>1, <2>6, OpensStep
<1>6. CASE SecondPasses
  <2>1. /\ second' = second + 1
        /\ UNCHANGED <<revives, rows, touched, writer, writes, editorAt, client, shown>>
    BY <1>6 DEF SecondPasses
  <2>2. DavType'
    BY <1>0, <2>1 DEF DavType
  <2>3. writer # NoWriter => writer.touched \in 1..second'
    <3>1. second' = second + 1
      BY <2>1
    <3>2. writer # NoWriter => writer.touched \in 1..second
      BY <1>0 DEF WriterSound
    <3> QED BY <1>0, <3>1, <3>2
  <2>4. WriterSound'
    BY <1>0, <2>1, <2>3 DEF WriterSound, TableSound, Stamped
  <2> QED BY <1>0, <2>1, <2>2, <2>4, CopyStays DEF DavInv
<1>7. CASE DavNext
  BY <1>2, <1>3, <1>4, <1>5, <1>6, <1>7, LooksUpStep, CommitsStep, ReadsStep, ListsStep
     DEF DavNext
<1> QED BY <1>1, <1>7

(* Every answer that is not a full page leaves the client with what the    *)
(* collection held when it was listed: a change the token's second leaves  *)
(* in doubt is listed again, and one that commits later bears a later one. *)
THEOREM SyncCompleteCorrect == DavSpec => []SyncComplete
<1>1. DavInv => SyncComplete
  BY DEF DavInv, CopySound, SyncComplete
<1> QED BY <1>1, DavInitial, DavStep, PTL DEF DavSpec

-----------------------------------------------------------------------------
(***************************************************************************)
(* The types of the parts: what each invariant above leaves open.          *)
(***************************************************************************)

(* Presence: what is on the way to a client fits its channel.              *)
ChannelsFit == \A c \in Watchers : Len(eventsTo[c]) <= QueueDepth

(* Reading from a channel, and writing to one that has room, keep it       *)
(* within its capacity.                                                    *)
LEMMA Fits ==
    ASSUME NEW S, NEW q \in Seq(S), NEW e, NEW depth \in Nat \ {0}, Len(q) <= depth
    PROVE  /\ Len(q) < depth => Len(Append(q, e)) <= depth
           /\ q # <<>> => Len(Tail(q)) <= depth
           /\ Len(<<e>>) <= depth
<1>1. Len(Append(q, e)) = Len(q) + 1 /\ Len(q) \in Nat
  OBVIOUS
<1>2. q # <<>> => Len(Tail(q)) = Len(q) - 1
  OBVIOUS
<1> QED BY <1>1, <1>2

(* A broadcast writes only to the channels that have room.                 *)
LEMMA BroadcastFits ==
    ASSUME PresenceType, ChannelsFit, NEW f, NEW e, NEW o, Broadcast(f, e, o)
    PROVE  ChannelsFit'
<1> SUFFICES ASSUME NEW c \in Watchers PROVE Len(eventsTo'[c]) <= QueueDepth
  BY DEF ChannelsFit
<1>1. eventsTo[c] \in Seq(Events) /\ Len(eventsTo[c]) <= QueueDepth
  BY DEF PresenceType, ChannelsFit
<1>2. \/ eventsTo'[c] = eventsTo[c]
      \/ eventsTo'[c] = Append(eventsTo[c], e) /\ Len(eventsTo[c]) < QueueDepth
  BY DEF Broadcast
<1>3. Len(eventsTo[c]) < QueueDepth => Len(Append(eventsTo[c], e)) <= QueueDepth
  BY <1>1, Fits, PresenceAssumption
<1> QED BY <1>1, <1>2, <1>3

(* What every step keeps of the channels.                                  *)
LEMMA ChannelsStep ==
    ASSUME PresenceType, ChannelsFit, [PresenceNext]_presenceVars
    PROVE  ChannelsFit'
<1>1. CASE UNCHANGED eventsTo
  BY <1>1 DEF ChannelsFit
<1>2. ASSUME NEW c \in Watchers, EntersRoom(c) PROVE ChannelsFit'
  <2>1. \/ UNCHANGED eventsTo
        \/ \E e : eventsTo' = [eventsTo EXCEPT ![c] = <<e>>]
    BY <1>2 DEF EntersRoom
  <2>2. CASE UNCHANGED eventsTo
    BY <2>2, <1>1
  <2>3. ASSUME NEW e, eventsTo' = [eventsTo EXCEPT ![c] = <<e>>] PROVE ChannelsFit'
    <3> SUFFICES ASSUME NEW d \in Watchers PROVE Len(eventsTo'[d]) <= QueueDepth
      BY DEF ChannelsFit
    <3>1. eventsTo'[d] = IF d = c THEN <<e>> ELSE eventsTo[d]
      BY <2>3 DEF PresenceType
    <3>2. Len(<<e>>) = 1 /\ 1 <= QueueDepth
      BY PresenceAssumption
    <3> QED BY <3>1, <3>2 DEF ChannelsFit
  <2> QED BY <2>1, <2>2, <2>3
<1>3. ASSUME NEW c \in Watchers, AppliesEvent(c) PROVE ChannelsFit'
  <2> SUFFICES ASSUME NEW d \in Watchers PROVE Len(eventsTo'[d]) <= QueueDepth
    BY DEF ChannelsFit
  <2>1. eventsTo[d] \in Seq(Events) /\ Len(eventsTo[d]) <= QueueDepth
    BY DEF PresenceType, ChannelsFit
  <2>2. eventsTo[c] # <<>>
        /\ eventsTo'[d] = IF d = c THEN Tail(eventsTo[c]) ELSE eventsTo[d]
    BY <1>3 DEF AppliesEvent, PresenceType
  <2>3. d = c => Len(Tail(eventsTo[d])) <= QueueDepth
    BY <2>1, <2>2, Fits, PresenceAssumption
  <2> QED BY <2>1, <2>2, <2>3
<1>4. ASSUME NEW c \in Watchers, PublishesState(c) \/ ClearsState(c) PROVE ChannelsFit'
  BY <1>4, BroadcastFits DEF PublishesState, ClearsState, Publishes
<1>5. ASSUME NEW c \in Watchers, LeavesRoom(c) PROVE ChannelsFit'
  <2>1. UNCHANGED eventsTo \/ \E e : Broadcast(membersOf[roomHere], e, c)
    BY <1>5 DEF LeavesRoom
  <2> QED BY <2>1, <1>1, BroadcastFits
<1>6. CASE UNCHANGED presenceVars
  BY <1>1, <1>6 DEF presenceVars
<1> QED BY <1>1, <1>2, <1>3, <1>4, <1>5, <1>6 DEF PresenceNext, FindsRoom

(* At the start the channels are empty.                                    *)
LEMMA ChannelsFirst == PresenceInit => ChannelsFit
BY PresenceAssumption DEF PresenceInit, ChannelsFit

(* With it the invariant gives the types.                                  *)
LEMMA PresenceTypes == PresenceInv /\ ChannelsFit => PresenceTypeOK
<1> SUFFICES ASSUME PresenceInv, ChannelsFit PROVE PresenceTypeOK
  OBVIOUS
<1>1. PresenceType
  BY DEF PresenceInv
<1>2. \A r \in 1..MaxRooms : DOMAIN membersOf[r] \subseteq Watchers
  <2>1. ASSUME NEW r \in 1..MaxRooms PROVE membersOf[r] \in Members
    BY <1>1 DEF PresenceType
  <2> QED BY <2>1, MembersShape
<1>3. roomHere \in 0..roomsMade
  BY <1>1, PresenceAssumption DEF PresenceType
<1> QED BY <1>1, <1>2, <1>3 DEF PresenceTypeOK, PresenceType, ChannelsFit

-----------------------------------------------------------------------------
(* RtdbStore: the cached instance is one that was made, and what a         *)
(* receiver has still to get fits the channel.                             *)
InboxFits ==
    cached <= instances /\ \A r \in Readers : Len(inbox[r]) <= BroadcastCapacity

(* The oldest event makes room for a new one.                              *)
LEMMA ReceivedFits ==
    ASSUME NEW q \in Seq(Nat), NEW e \in Nat, Len(q) <= BroadcastCapacity
    PROVE  Len(Received(q, e)) <= BroadcastCapacity
<1>1. Len(Append(q, e)) = Len(q) + 1 /\ Len(q) \in Nat
  OBVIOUS
<1>2. Len(q) > 0 => /\ Tail(q) \in Seq(Nat) /\ Len(Tail(q)) = Len(q) - 1
                     /\ Len(Append(Tail(q), e)) = Len(Tail(q)) + 1
  OBVIOUS
<1> QED BY <1>1, <1>2, RtdbBounds DEF Received

(* The instance that is opened counts as made.                             *)
LEMMA InstancesKept ==
    ASSUME cached \in Nat, instances \in Nat, cached <= instances
    PROVE  OpensInstance => cached' <= instances'
BY DEF OpensInstance, CurrentInstance

(* What every step keeps of them.                                          *)
LEMMA InboxesStep ==
    ASSUME StoreInv, ChannelType, InboxFits, [RtdbNext]_rtdbVars
    PROVE  InboxFits'
<1>1. /\ cached \in Nat /\ instances \in Nat /\ cached <= instances
      /\ inbox \in [Readers -> Seq(Nat)]
  BY DEF ChannelType, InboxFits
<1>a. OpensInstance => cached' <= instances'
  BY <1>1, InstancesKept
<1>2. CASE UNCHANGED <<cached, instances, inbox>>
  BY <1>2 DEF InboxFits
<1>3. CASE OpensInstance /\ UNCHANGED inbox
  BY <1>3, <1>a DEF InboxFits
<1>4. ASSUME NEW w \in Writers, BroadcastsChange(w) PROVE InboxFits'
  <2>1. UNCHANGED <<cached, instances>>
    BY <1>4 DEF BroadcastsChange
  <2>2. ASSUME NEW r \in Readers PROVE Len(inbox'[r]) <= BroadcastCapacity
    <3>1. inbox'[r] = inbox[r] \/ inbox'[r] = Received(inbox[r], written[w])
      BY <1>4 DEF BroadcastsChange
    <3>2. inbox[r] \in Seq(Nat) /\ written[w] \in Nat /\ Len(inbox[r]) <= BroadcastCapacity
      BY <1>1 DEF InboxFits, StoreInv, StoreType
    <3> QED BY <3>1, <3>2, ReceivedFits
  <2> QED BY <2>1, <2>2 DEF InboxFits
<1>5. ASSUME NEW r \in Readers, ReceivesChange(r) \/ Unsubscribes(r) PROVE InboxFits'
  <2>1. UNCHANGED <<cached, instances>>
    BY <1>5 DEF ReceivesChange, Unsubscribes
  <2>2. ASSUME NEW s \in Readers PROVE Len(inbox'[s]) <= BroadcastCapacity
    <3>1. \/ inbox'[s] = inbox[s] \/ inbox'[s] = <<>>
          \/ inbox[s] # <<>> /\ inbox'[s] = Tail(inbox[s])
      BY <1>1, <1>5 DEF ReceivesChange, Unsubscribes
    <3>2. inbox[s] \in Seq(Nat) /\ Len(inbox[s]) <= BroadcastCapacity
      BY <1>1 DEF InboxFits
    <3>3. inbox[s] # <<>> => Len(Tail(inbox[s])) <= BroadcastCapacity
      BY <3>2, Fits, RtdbBounds
    <3>4. Len(<<>>) = 0 /\ 0 <= BroadcastCapacity
      BY RtdbBounds
    <3> QED BY <3>1, <3>2, <3>3, <3>4
  <2> QED BY <2>1, <2>2 DEF InboxFits
<1>6. CASE EvictsInstance
  BY <1>6, <1>1 DEF EvictsInstance, InboxFits, readVars
<1>7. CASE UNCHANGED rtdbVars
  BY <1>7, <1>2 DEF rtdbVars
<1>8. ASSUME NEW w \in Writers
      PROVE  /\ TransactionOpens(w) => OpensInstance /\ UNCHANGED inbox
             /\ BeginsTransaction(w) \/ TakesPermit(w) \/ BeginsWrite(w) \/ UpdatesDocument(w)
                \/ RollsBack(w) \/ CommitsWrite(w) => UNCHANGED <<cached, instances, inbox>>
  BY DEF TransactionOpens, BeginsTransaction, TakesPermit, BeginsWrite, UpdatesDocument,
         RollsBack, CommitsWrite, readVars
<1>9. ASSUME NEW r \in Readers
      PROVE  /\ OpensChannel(r) \/ ReadsSnapshot(r) => OpensInstance /\ UNCHANGED inbox
             /\ YieldsSnapshot(r) \/ Subscribes(r) \/ StreamEnds(r)
                  => UNCHANGED <<cached, instances, inbox>>
  BY DEF OpensChannel, ReadsSnapshot, YieldsSnapshot, Subscribes, StreamEnds, readVars
<1>10. CompactionWaits \/ CompactionStarts \/ CompactionEnds
         => UNCHANGED <<cached, instances, inbox>>
  BY DEF CompactionWaits, CompactionStarts, CompactionEnds, readVars
<1> QED BY <1>2, <1>3, <1>4, <1>5, <1>6, <1>7, <1>8, <1>9, <1>10 DEF RtdbNext, RtdbProgress

(* At the start there is no instance, and no event.                        *)
LEMMA InboxesFirst == RtdbInit => InboxFits
BY RtdbBounds DEF RtdbInit, InboxFits

(* With it the invariant gives the types.                                  *)
LEMMA RtdbTypes == ChannelInv /\ InboxFits => RtdbTypeOK
<1> SUFFICES ASSUME ChannelInv, InboxFits PROVE RtdbTypeOK
  OBVIOUS
<1>1. StoreInv /\ ChannelType
  BY DEF ChannelInv
<1>2. barrierOf.holders \subseteq RtdbActors /\ barrierOf.queue \in Seq(RtdbActors)
  BY <1>1 DEF StoreInv, StoreType
<1>3. cached \in 0..instances /\ stored \in 0..commits
  BY <1>1 DEF StoreInv, StoreType, StoreSound, ChannelType, InboxFits
<1> QED BY <1>2, <1>3 DEF RtdbTypeOK, InboxFits

-----------------------------------------------------------------------------
(* SearchIndex: no task is due later than a debounce from now, and nothing *)
(* is indexed or exported that was not committed.                          *)
DueSound ==
    /\ clock <= MaxTime
    /\ \A k \in IndexTasks : Never <= dueAt[k] /\ dueAt[k] <= MaxTime + DEBOUNCE_SECS
ContentSound ==
    rowsD <= docVersion /\ \A r \in Runners : runOf[r].content <= docVersion

(* A task is due a debounce from now, or not at all.                       *)
LEMMA DueStep ==
    ASSUME SearchType, DueSound, [SearchNext]_searchVars PROVE DueSound'
<1>1. /\ clock \in Nat /\ clock <= MaxTime /\ dueAt \in [IndexTasks -> Int]
      /\ \A k \in IndexTasks : Never <= dueAt[k] /\ dueAt[k] <= MaxTime + DEBOUNCE_SECS
  BY DEF SearchType, DueSound
<1>2. CASE UNCHANGED <<clock, dueAt>>
  BY <1>2 DEF DueSound
<1>3. ASSUME NEW k \in IndexTasks, SpawnedSchedules(k) PROVE DueSound'
  <2>1. /\ UNCHANGED clock
        /\ dueAt' = [dueAt EXCEPT ![k] = clock +
             (IF k = "document" THEN DEBOUNCE_SECS ELSE OBJECT_DEBOUNCE_SECS)]
    BY <1>3 DEF SpawnedSchedules
  <2>2. ASSUME NEW debounce \in {DEBOUNCE_SECS, OBJECT_DEBOUNCE_SECS}
        PROVE  Never <= clock + debounce /\ clock + debounce <= MaxTime + DEBOUNCE_SECS
    BY <1>1, SearchTimes, SearchBounds DEF Never
  <2> QED BY <1>1, <2>1, <2>2 DEF DueSound
<1>4. ASSUME NEW k \in IndexTasks, StartsIndexTask(k) PROVE DueSound'
  <2>1. UNCHANGED clock /\ dueAt' = [dueAt EXCEPT ![k] = Never]
    BY <1>4 DEF StartsIndexTask
  <2>2. Never <= Never /\ Never <= MaxTime + DEBOUNCE_SECS
    BY SearchTimes, SearchBounds DEF Never
  <2> QED BY <1>1, <2>1, <2>2 DEF DueSound
<1>5. CASE SearchTicks
  <2>1. clock < MaxTime /\ clock' = clock + 1 /\ UNCHANGED dueAt
    BY <1>5 DEF SearchTicks
  <2>2. clock' <= MaxTime
    BY <1>1, <2>1, SearchBounds
  <2> QED BY <1>1, <2>1, <2>2 DEF DueSound
<1>6. CASE CommitsEdit \/ MovesToTrash \/ RestoresFile \/ SweepLists
  BY <1>2, <1>6 DEF CommitsEdit, MovesToTrash, RestoresFile, SweepLists
<1>7. ASSUME NEW r \in Runners, WritesRow(r) \/ ExportsDocument(r) \/ WritesParts(r)
      PROVE  DueSound'
  BY <1>2, <1>7 DEF WritesRow, ExportsDocument, WritesParts
<1>8. CASE UNCHANGED searchVars
  BY <1>2, <1>8 DEF searchVars
<1> QED BY <1>3, <1>4, <1>5, <1>6, <1>7, <1>8 DEF SearchNext

(* What is exported is the content as it is, and what is indexed was       *)
(* exported.                                                               *)
LEMMA ContentStep ==
    ASSUME SearchType, ContentSound, [SearchNext]_searchVars PROVE ContentSound'
<1>1. /\ docVersion \in Nat /\ rowsD \in Nat /\ rowsD <= docVersion
      /\ runOf \in [Runners -> Runs]
      /\ \A r \in Runners : runOf[r].content \in Nat /\ runOf[r].content <= docVersion
  BY DEF SearchType, ContentSound, Runs
<1>2. CASE UNCHANGED <<docVersion, rowsD, runOf>>
  BY <1>2 DEF ContentSound
<1>3. CASE CommitsEdit
  <2>1. docVersion' = docVersion + 1 /\ UNCHANGED <<rowsD, runOf>>
    BY <1>3 DEF CommitsEdit
  <2> QED BY <1>1, <2>1 DEF ContentSound
<1>4. ASSUME NEW r \in Runners, NEW run, run.content = 0 \/ run.content = docVersion,
             runOf' = [runOf EXCEPT ![r] = run], UNCHANGED docVersion,
             rowsD' \in {0, rowsD, runOf[r].content}
      PROVE  ContentSound'
  <2>1. rowsD' <= docVersion /\ run.content <= docVersion
    BY <1>1, <1>4
  <2>2. \A q \in Runners : runOf'[q] = IF q = r THEN run ELSE runOf[q]
    BY <1>1, <1>4
  <2> QED BY <1>1, <1>4, <2>1, <2>2 DEF ContentSound
<1>5. Idle.content = 0 /\ WithRow.content = 0 /\ WithDocument.content = 0
  BY DEF Idle, WithRow, WithDocument
<1>6. ASSUME NEW k \in IndexTasks, StartsIndexTask(k) PROVE ContentSound'
  <2>1. /\ UNCHANGED <<docVersion, rowsD>> /\ k \in Runners
        /\ runOf' = [runOf EXCEPT ![k] = IF k = "document" THEN WithDocument ELSE WithRow]
    BY <1>6 DEF StartsIndexTask, Runners
  <2> QED BY <1>4, <1>5, <2>1
<1>7. CASE SweepLists
  <2>1. UNCHANGED <<docVersion, rowsD>> /\ runOf' = [runOf EXCEPT !["sweep"] = WithRow]
    BY <1>7 DEF SweepLists
  <2> QED BY <1>4, <1>5, <2>1 DEF Runners
<1>8. ASSUME NEW r \in Runners, WritesRow(r) \/ ExportsDocument(r) \/ WritesParts(r)
      PROVE  ContentSound'
  <2>1. CASE WritesRow(r)
    <3>1. /\ UNCHANGED docVersion /\ rowsD' \in {0, rowsD}
          /\ runOf' = [runOf EXCEPT ![r] = IF r = "sweep" THEN WithDocument ELSE Idle]
      BY <2>1 DEF WritesRow
    <3> QED BY <1>4, <1>5, <3>1
  <2>2. CASE ExportsDocument(r)
    <3> DEFINE run == [runOf[r] EXCEPT !.pc = "write", !.content = docVersion]
    <3>1. UNCHANGED <<docVersion, rowsD>> /\ runOf' = [runOf EXCEPT ![r] = run]
      BY <1>1, <2>2 DEF ExportsDocument
    <3>2. run.content = docVersion
      BY <1>1 DEF Runs
    <3> HIDE DEF run
    <3> QED BY <1>4, <3>1, <3>2
  <2>3. CASE WritesParts(r)
    <3>1. /\ UNCHANGED docVersion /\ rowsD' \in {0, runOf[r].content}
          /\ runOf' = [runOf EXCEPT ![r] = Idle]
      BY <2>3 DEF WritesParts
    <3> QED BY <1>4, <1>5, <3>1
  <2> QED BY <1>8, <2>1, <2>2, <2>3
<1>9. CASE MovesToTrash \/ RestoresFile \/ SearchTicks
  BY <1>2, <1>9 DEF MovesToTrash, RestoresFile, SearchTicks
<1>10. ASSUME NEW k \in IndexTasks, SpawnedSchedules(k) PROVE ContentSound'
  BY <1>2, <1>10 DEF SpawnedSchedules
<1>11. CASE UNCHANGED searchVars
  BY <1>2, <1>11 DEF searchVars
<1> QED BY <1>3, <1>6, <1>7, <1>8, <1>9, <1>10, <1>11 DEF SearchNext

(* With both the invariant gives the types.                                *)
LEMMA SearchTypes == SearchInv /\ DueSound /\ ContentSound => SearchTypeOK
<1> SUFFICES ASSUME SearchInv, DueSound, ContentSound PROVE SearchTypeOK
  OBVIOUS
<1>1. SearchType
  BY DEF SearchInv
<1>2. dueAt \in [IndexTasks -> Never..(MaxTime + DEBOUNCE_SECS)]
  <2>1. dueAt \in [IndexTasks -> Int]
    BY <1>1 DEF SearchType
  <2>2. ASSUME NEW k \in IndexTasks PROVE dueAt[k] \in Never..(MaxTime + DEBOUNCE_SECS)
    <3>1. dueAt[k] \in Int /\ Never <= dueAt[k] /\ dueAt[k] <= MaxTime + DEBOUNCE_SECS
      BY <2>1 DEF DueSound
    <3>2. Never \in Int /\ MaxTime + DEBOUNCE_SECS \in Int
      BY SearchTimes, SearchBounds DEF Never
    <3> QED BY <3>1, <3>2
  <2> QED BY <2>1, <2>2
<1>3. rowsD \in 0..docVersion
  <2>1. rowsD \in Nat /\ docVersion \in Nat
    BY <1>1 DEF SearchType
  <2>2. rowsD <= docVersion
    BY DEF ContentSound
  <2> QED BY <2>1, <2>2
<1> QED BY <1>1, <1>2, <1>3 DEF SearchTypeOK, SearchType

(* At the start nothing is due, and the content is indexed.                *)
LEMMA SearchFirst == SearchInit => DueSound /\ ContentSound
<1> SUFFICES ASSUME SearchInit PROVE DueSound /\ ContentSound
  OBVIOUS
<1>1. DueSound
  BY SearchTimes, SearchBounds DEF SearchInit, DueSound, Never
<1>2. ContentSound
  BY DEF SearchInit, ContentSound, Idle
<1> QED BY <1>1, <1>2

-----------------------------------------------------------------------------
(* Drafts: each task is at one of its own steps.                           *)
DraftTasksSound ==
    /\ publishTask.pc \in {"none", "due", "running"}
    /\ publishRun.pc \in {"none", "mark", "create"}
    /\ creatorTask.pc \in {"none", "run"}

(* What every step keeps of the tasks.                                     *)
LEMMA DraftTasksStep ==
    ASSUME DraftsType, DraftTasksSound, [DraftsNext]_draftVars PROVE DraftTasksSound'
<1>1. CASE UNCHANGED <<publishTask, publishRun, creatorTask>>
  BY <1>1 DEF DraftTasksSound
<1>2. ASSUME NEW c \in Calls, SchedulesPublish(c) \/ SchedulesCreator(c) PROVE DraftTasksSound'
  <2>1. CASE SchedulesPublish(c)
    <3>1. publishTask'.pc = "due" /\ UNCHANGED <<publishRun, creatorTask>>
      BY <2>1 DEF SchedulesPublish
    <3> QED BY <3>1 DEF DraftTasksSound
  <2>2. CASE SchedulesCreator(c)
    <3>1. creatorTask'.pc = "run" /\ UNCHANGED <<publishTask, publishRun>>
      BY <2>2 DEF SchedulesCreator
    <3> QED BY <3>1 DEF DraftTasksSound
  <2> QED BY <1>2, <2>1, <2>2
<1>3. ASSUME PublishTaskStarts PROVE DraftTasksSound'
  <2>1. publishTask' = NoSchedule \/ publishTask' = [publishTask EXCEPT !.pc = "running"]
    BY <1>3 DEF PublishTaskStarts
  <2>2. publishRun' = publishRun \/ publishRun'.pc = "mark"
    BY <1>3 DEF PublishTaskStarts, NoTask
  <2>3. publishTask'.pc \in {"none", "due", "running"}
    <3>1. NoSchedule.pc = "none"
      BY DEF NoSchedule
    <3>2. [publishTask EXCEPT !.pc = "running"].pc \in {"none", "due", "running"}
      OBVIOUS
    <3> QED BY <2>1, <3>1, <3>2, Zenon
  <2>4. UNCHANGED creatorTask
    BY <1>3 DEF PublishTaskStarts
  <2> QED BY <2>2, <2>3, <2>4 DEF DraftTasksSound
<1>4. CASE PublishTaskMarks
  BY <1>4 DEF DraftTasksSound, PublishTaskMarks, PublishTaskEnds, NoTask, NoSchedule, DraftsType,
              DraftTasks
<1>5. CASE PublishTaskCreates
  BY <1>5 DEF DraftTasksSound, PublishTaskCreates, PublishTaskEnds, NoTask, NoSchedule
<1>6. CASE CreatorFinalizes
  BY <1>6 DEF DraftTasksSound, CreatorFinalizes, NoTask
<1>7. CASE ServerStops
  <2>1. publishTask' = NoSchedule
        \/ publishTask' = [publishTask EXCEPT !.pc = "due", !.at = publishTask.saved]
    BY <1>7 DEF ServerStops
  <2>2. publishTask'.pc \in {"none", "due", "running"}
    <3>1. NoSchedule.pc = "none"
      BY DEF NoSchedule
    <3>2. [publishTask EXCEPT !.pc = "due", !.at = publishTask.saved].pc
            \in {"none", "due", "running"}
      OBVIOUS
    <3> QED BY <2>1, <3>1, <3>2, Zenon
  <2>3. publishRun' = NoTask /\ UNCHANGED creatorTask
    BY <1>7 DEF ServerStops
  <2> QED BY <2>2, <2>3 DEF DraftTasksSound, NoTask
<1>8. ASSUME NEW c \in Calls, \/ \E does : \E at \in Nat : Looks(c, does, at)
                              \/ Patches(c) \/ MarksScheduled(c) \/ MarksPending(c)
                              \/ CancelsSchedule(c) \/ CallFindsNoRow(c)
      PROVE  DraftTasksSound'
  BY <1>1, <1>8 DEF Looks, Patches, MarksScheduled, MarksPending, CancelsSchedule,
                    CallFindsNoRow
<1>9. CASE DeletesDraft \/ HourPasses
  BY <1>1, <1>9 DEF DeletesDraft, HourPasses
<1>10. CASE UNCHANGED draftVars
  BY <1>1, <1>10 DEF draftVars
<1> QED
  BY <1>2, <1>3, <1>4, <1>5, <1>6, <1>7, <1>8, <1>9, <1>10, DraftBounds DEF DraftsNext

(* With it the invariant gives the types.                                  *)
LEMMA DraftsTypes == DraftsInv /\ DraftTasksSound => DraftsTypeOK
BY DEF DraftsInv, DraftsType, DraftRows, DraftStates, DraftTasksSound, DraftsTypeOK

(* At the start there is no task.                                          *)
LEMMA DraftsFirst == DraftsInit => DraftTasksSound
BY DEF DraftsInit, DraftTasksSound, NoTask, NoSchedule

-----------------------------------------------------------------------------
(* BlobGC: nothing was modified in the future, the collection looks back   *)
(* from now, and a variant belongs to a file.                              *)
TimesSound ==
    /\ blob.mtime <= day
    /\ -SafetyWindow <= gc.cutoff /\ gc.cutoff <= day
    /\ \A t \in Tenants : file[t].variant => file[t].st # "none"

(* The numbers of a state.                                                 *)
LEMMA TimesNumbers ==
    ASSUME BlobType
    PROVE  /\ day \in Nat /\ blob.mtime \in Nat /\ gc.cutoff \in Int
           /\ SafetyWindow \in Nat /\ SafetyWindow > 0
BY GcBounds DEF BlobType, Collections

(* What every step keeps of the times ...                                  *)
LEMMA CutoffsStep ==
    ASSUME BlobType, TimesSound, [GcNext]_gcVars
    PROVE  /\ blob'.mtime <= day'
           /\ -SafetyWindow <= gc'.cutoff /\ gc'.cutoff <= day'
<1>1. /\ day \in Nat /\ blob.mtime \in Nat /\ gc.cutoff \in Int
      /\ SafetyWindow \in Nat /\ SafetyWindow > 0
      /\ blob.mtime <= day /\ -SafetyWindow <= gc.cutoff /\ gc.cutoff <= day
  BY TimesNumbers DEF TimesSound
<1>2. /\ day' = day \/ day' = day + 1
      /\ \/ blob' = blob \/ (blob'.mtime = day /\ day' = day)
         \/ blob'.mtime = 0
      /\ \/ gc'.cutoff = gc.cutoff \/ gc'.cutoff = 0
         \/ (gc'.cutoff = day - SafetyWindow /\ day' = day)
  <2>1. \A g : (g = NoGc => g.cutoff = 0)
    BY DEF NoGc
  <2>2. ASSUME NEW t \in Tenants,
               \/ \E first \in BOOLEAN : StartsSync(t, first)
               \/ FindsFile(t) \/ CreatesFile(t) \/ MatchesOther(t) \/ ProbesBlob(t)
               \/ FetchFails(t) \/ CreatesVariant(t) \/ VariantFails(t) \/ FinalizesFile(t)
               \/ Refers(t) \/ DropsReference(t)
        PROVE  UNCHANGED <<day, blob, gc>>
    BY <2>2 DEF StartsSync, FindsFile, CreatesFile, MatchesOther, ProbesBlob, FetchFails,
                CreatesVariant, VariantFails, FinalizesFile, Refers, DropsReference
  <2>3. ASSUME NEW t \in Tenants, FetchesBlob(t)
        PROVE  UNCHANGED <<day, gc>> /\ blob'.mtime = day
    BY <2>3 DEF FetchesBlob
  <2>4. ASSUME NEW t \in Tenants, GcListsFiles(t)
        PROVE  UNCHANGED <<day, blob>> /\ gc'.cutoff = gc.cutoff
    BY <2>4 DEF GcListsFiles, BlobType, Collections
  <2>5. GcStarts => UNCHANGED <<day, blob>> /\ gc'.cutoff = day - SafetyWindow
    BY DEF GcStarts, NoGc, Cutoff
  <2>6. GcListsReferenced \/ GcDeletesFile => UNCHANGED <<day, blob>> /\ gc'.cutoff = gc.cutoff
    BY DEF GcListsReferenced, GcDeletesFile, NextTenant, BlobType, Collections
  <2>7. GcListsBlobs \/ GcStatsBlob \/ GcRechecks
          => UNCHANGED <<day, blob>> /\ (gc'.cutoff = gc.cutoff \/ gc'.cutoff = 0)
    BY DEF GcListsBlobs, GcStatsBlob, GcRechecks, NoGc, BlobType, Collections
  <2>8. GcDeletesBlob => UNCHANGED day /\ blob'.mtime = 0 /\ gc'.cutoff = 0
    BY DEF GcDeletesBlob, NoGc
  <2>9. DayPasses => day' = day + 1 /\ UNCHANGED <<blob, gc>>
    BY DEF DayPasses
  <2>10. UNCHANGED gcVars => UNCHANGED <<day, blob, gc>>
    BY DEF gcVars
  <2>a. CASE UNCHANGED gcVars
    BY <2>a, <2>10
  <2>b. ASSUME NEW t \in Tenants,
               \/ \E first \in BOOLEAN : StartsSync(t, first)
               \/ FindsFile(t) \/ CreatesFile(t) \/ MatchesOther(t) \/ ProbesBlob(t)
               \/ FetchesBlob(t) \/ FetchFails(t) \/ CreatesVariant(t) \/ VariantFails(t)
               \/ FinalizesFile(t) \/ Refers(t) \/ DropsReference(t) \/ GcListsFiles(t)
        PROVE  /\ day' = day
               /\ blob' = blob \/ blob'.mtime = day
               /\ gc'.cutoff = gc.cutoff
    BY <2>b, <2>2, <2>3, <2>4
  <2>c. CASE \/ GcStarts \/ GcListsReferenced \/ GcDeletesFile
             \/ GcListsBlobs \/ GcStatsBlob \/ GcRechecks \/ GcDeletesBlob \/ DayPasses
    BY <2>c, <2>5, <2>6, <2>7, <2>8, <2>9
  <2> QED BY <2>a, <2>b, <2>c DEF GcNext
<1> QED BY <1>1, <1>2

(* ... and of the variants.                                                *)
LEMMA VariantsStep ==
    ASSUME BlobType, TimesSound, [GcNext]_gcVars
    PROVE  \A t \in Tenants : file'[t].variant => file'[t].st # "none"
<1>1. file \in [Tenants -> FileRows] /\ gc \in Collections
      /\ \A t \in Tenants : file[t].variant => file[t].st # "none"
  BY DEF BlobType, TimesSound
<1>2. CASE UNCHANGED file
  BY <1>1, <1>2
<1>3. ASSUME NEW t \in Tenants, NEW row, file' = [file EXCEPT ![t] = row],
             row.variant => row.st # "none"
      PROVE  \A u \in Tenants : file'[u].variant => file'[u].st # "none"
  BY <1>1, <1>3
<1>4. ~NoFile.variant
  BY DEF NoFile
<1>5. ASSUME NEW t \in Tenants, CreatesFile(t)
      PROVE  \E row : file' = [file EXCEPT ![t] = row] /\ (row.variant => row.st # "none")
  <2>1. PICK created : file' = [file EXCEPT ![t] = [st |-> "P", created |-> created,
                                                   variant |-> FALSE]]
    BY <1>5 DEF CreatesFile
  <2>2. ~[st |-> "P", created |-> created, variant |-> FALSE].variant
    OBVIOUS
  <2> QED BY <2>1, <2>2
<1>6. ASSUME NEW t \in Tenants, CreatesVariant(t) \/ FinalizesFile(t)
      PROVE  UNCHANGED file \/ \E row : /\ file' = [file EXCEPT ![t] = row]
                                        /\ row.variant => row.st # "none"
  <2>1. \/ UNCHANGED file
        \/ file[t].st = "P" /\ file' = [file EXCEPT ![t] = [file[t] EXCEPT !.variant = TRUE]]
        \/ file' = [file EXCEPT ![t] = [file[t] EXCEPT !.st = "A"]]
    BY <1>1, <1>6 DEF CreatesVariant, FinalizesFile
  <2>2. file[t] \in FileRows
    BY <1>1
  <2>3. /\ [file[t] EXCEPT !.variant = TRUE].st = file[t].st
        /\ [file[t] EXCEPT !.st = "A"].st = "A"
    BY <2>2 DEF FileRows
  <2> QED BY <2>1, <2>3
<1>7. CASE GcDeletesFile
  <2>1. file' = [file EXCEPT ![gc.tn] = NoFile]
    BY <1>7 DEF GcDeletesFile
  <2> QED BY <1>1, <1>4, <2>1
<1>8. ASSUME NEW t \in Tenants,
             \/ \E first \in BOOLEAN : StartsSync(t, first)
             \/ FindsFile(t) \/ MatchesOther(t) \/ ProbesBlob(t) \/ FetchesBlob(t)
             \/ FetchFails(t) \/ VariantFails(t) \/ Refers(t) \/ DropsReference(t)
             \/ GcListsFiles(t)
      PROVE  UNCHANGED file
  BY <1>8 DEF StartsSync, FindsFile, MatchesOther, ProbesBlob, FetchesBlob, FetchFails,
              VariantFails, Refers, DropsReference, GcListsFiles
<1>9. ASSUME \/ GcStarts \/ GcListsReferenced \/ GcListsBlobs \/ GcStatsBlob \/ GcRechecks
             \/ GcDeletesBlob \/ DayPasses \/ UNCHANGED gcVars
      PROVE  UNCHANGED file
  BY <1>9 DEF GcStarts, GcListsReferenced, GcListsBlobs, GcStatsBlob, GcRechecks, GcDeletesBlob,
         DayPasses, gcVars
<1>10. ASSUME NEW t \in Tenants, CreatesFile(t) \/ CreatesVariant(t) \/ FinalizesFile(t)
       PROVE  \A u \in Tenants : file'[u].variant => file'[u].st # "none"
  <2>1. UNCHANGED file \/ \E row : /\ file' = [file EXCEPT ![t] = row]
                                   /\ row.variant => row.st # "none"
    BY <1>10, <1>5, <1>6
  <2> QED BY <1>2, <1>3, <2>1
<1>11. CASE GcNext
  <2>1. \/ \E t \in Tenants :
             \/ \E first \in BOOLEAN : StartsSync(t, first)
             \/ FindsFile(t) \/ MatchesOther(t) \/ ProbesBlob(t) \/ FetchesBlob(t)
             \/ FetchFails(t) \/ VariantFails(t) \/ Refers(t) \/ DropsReference(t)
             \/ GcListsFiles(t)
        \/ \E t \in Tenants : CreatesFile(t) \/ CreatesVariant(t) \/ FinalizesFile(t)
        \/ GcDeletesFile
        \/ GcStarts \/ GcListsReferenced \/ GcListsBlobs \/ GcStatsBlob \/ GcRechecks
        \/ GcDeletesBlob \/ DayPasses
    BY <1>11 DEF GcNext
  <2> QED BY <1>2, <1>7, <1>8, <1>9, <1>10, <2>1
<1> QED BY <1>2, <1>9, <1>11

(* At the start there is no file and no collection.                        *)
LEMMA TimesFirst == GcInit => TimesSound
<1> SUFFICES ASSUME GcInit PROVE TimesSound
  OBVIOUS
<1>1. day = 0 /\ blob.mtime = 0 /\ gc.cutoff = 0 /\ \A t \in Tenants : ~file[t].variant
  BY DEF GcInit, NoGc, NoFile
<1>2. -SafetyWindow <= 0
  BY GcBounds
<1> QED BY <1>1, <1>2 DEF TimesSound

(* With it the invariant gives the types.                                  *)
LEMMA GcTypes == BlobInv /\ TimesSound => GcTypeOK
<1> SUFFICES ASSUME BlobInv, TimesSound PROVE GcTypeOK
  OBVIOUS
<1>1. BlobType
  BY DEF BlobInv
<1>2. blob.mtime \in 0..day /\ gc.cutoff \in -SafetyWindow..day
  BY <1>1, TimesNumbers DEF TimesSound
<1>3. excepted \subseteq Tenants /\ file \in [Tenants -> FileRows]
  BY <1>1 DEF BlobType
<1> QED BY <1>2, <1>3 DEF GcTypeOK, FileRows, TimesSound

-----------------------------------------------------------------------------
(* Sites: documents and publishes are at paths that can be mounted, or at  *)
(* none.                                                                   *)
PathsSound ==
    /\ siteNav \in {NoRecord, 0, 1}
    /\ \A d \in SiteDocs : docRow[d].mount \in MountPaths \cup {""}
    /\ \A l \in Leaders : callAt[l].mount \in MountPaths \cup {""}
    /\ stale \subseteq DOMAIN NoEntry

(* A request takes such a path with it.                                    *)
LEMMA CallPaths ==
    ASSUME SitesType, PathsSound, NEW l \in Leaders, NEW c,
           callAt' = [callAt EXCEPT ![l] = c], c.mount \in MountPaths \cup {""}
    PROVE  \A k \in Leaders : callAt'[k].mount \in MountPaths \cup {""}
BY DEF SitesType, PathsSound

(* What every step keeps of the paths.                                     *)
LEMMA PathsStep ==
    ASSUME SitesType, PathsSound, [SitesNext]_siteVars PROVE PathsSound'
<1>1. /\ callAt \in [Leaders -> SiteRequests] /\ docRow \in [SiteDocs -> SiteRows]
      /\ AtRest.mount = ""
      /\ \A c \in SiteRequests : "mount" \in DOMAIN c
  BY DEF SitesType, AtRest, SiteRequests
<1>2. CASE UNCHANGED siteVars
  BY <1>2 DEF siteVars, PathsSound
<1>3. ASSUME NEW l \in Leaders PROVE callAt[l].mount \in MountPaths \cup {""}
  BY DEF PathsSound
<1>4. ASSUME NEW l \in Leaders, ReadsTenant(l) \/ ReadsSite(l) \/ ListsDocs(l) \/ ReadsOwner(l)
                                \/ ReadsNav(l) \/ FindsSite(l) \/ ChecksMount(l)
                                \/ ChecksServed(l)
      PROVE  PathsSound'
  <2>1. UNCHANGED <<siteNav, docRow, stale>>
    BY <1>4 DEF ReadsTenant, ReadsSite, ListsDocs, ReadsOwner, ReadsNav, FindsSite,
                ChecksMount, ChecksServed, KeepsTables, KeepsEntry
  <2>2. \A k \in Leaders : callAt'[k].mount \in {"", callAt[k].mount}
    <3>1. CASE ReadsTenant(l)
      BY <1>1, <3>1 DEF ReadsTenant
    <3>2. CASE ReadsSite(l)
      BY <1>1, <3>2 DEF ReadsSite
    <3>3. CASE ListsDocs(l)
      BY <1>1, <3>3 DEF ListsDocs
    <3>4. CASE ReadsOwner(l)
      BY <1>1, <3>4 DEF ReadsOwner
    <3>5. CASE ReadsNav(l)
      BY <1>1, <3>5 DEF ReadsNav
    <3>6. CASE FindsSite(l) \/ ChecksMount(l) \/ ChecksServed(l)
      BY <1>1, <3>6 DEF FindsSite, ChecksMount, ChecksServed, Answers, CallTo
    <3> QED BY <1>4, <3>1, <3>2, <3>3, <3>4, <3>5, <3>6
  <2> QED BY <1>3, <2>1, <2>2 DEF PathsSound
<1>5. ASSUME NEW l \in Leaders, InsertsEntry(l) \/ PatchesOwner(l) \/ PatchesNav(l)
      PROVE  PathsSound'
  <2>1. UNCHANGED <<siteNav, docRow>> /\ stale' \subseteq DOMAIN NoEntry
    BY <1>5 DEF InsertsEntry, PatchesOwner, PatchesNav, KeepsTables, KeepsEntry, Differing,
                PathsSound
  <2>2. \E c : callAt' = [callAt EXCEPT ![l] = c] /\ c.mount \in {"", callAt[l].mount}
    <3>1. \A pc : [callAt[l] EXCEPT !.pc = pc].mount = callAt[l].mount
      BY <1>1
    <3>2. \/ callAt' = [callAt EXCEPT ![l] = AtRest]
          \/ \E pc : callAt' = [callAt EXCEPT ![l] = [callAt[l] EXCEPT !.pc = pc]]
      BY <1>1, <1>5 DEF InsertsEntry, PatchesOwner, PatchesNav, Answers, CallTo
    <3> QED BY <1>1, <3>1, <3>2
  <2> QED BY <1>3, <2>1, <2>2, CallPaths DEF PathsSound
<1>6. ASSUME NEW l \in Leaders, SwapsGeneration(l) PROVE PathsSound'
  <2>1. UNCHANGED <<siteNav, stale>>
    BY <1>6 DEF SwapsGeneration, KeepsEntry
  <2>2. \E c : callAt' = [callAt EXCEPT ![l] = c] /\ c.mount \in {"", callAt[l].mount}
    <3>1. \A pc : [callAt[l] EXCEPT !.pc = pc].mount = callAt[l].mount
      BY <1>1
    <3>2. \/ callAt' = [callAt EXCEPT ![l] = AtRest]
          \/ callAt' = [callAt EXCEPT ![l] = [callAt[l] EXCEPT !.pc = "rebuild"]]
      BY <1>1, <1>6 DEF SwapsGeneration, Answers, CallTo
    <3> QED BY <1>1, <3>1, <3>2
  <2>3. ASSUME NEW d \in SiteDocs PROVE docRow'[d].mount \in {docRow[d].mount, callAt[l].mount}
    <3>1. \/ UNCHANGED docRow
          \/ \E row : /\ row.mount = callAt[l].mount
                      /\ docRow' = [docRow EXCEPT ![callAt[l].doc] = row]
      BY <1>6 DEF SwapsGeneration
    <3>2. ASSUME NEW row, row.mount = callAt[l].mount,
                 docRow' = [docRow EXCEPT ![callAt[l].doc] = row]
          PROVE  docRow'[d].mount \in {docRow[d].mount, callAt[l].mount}
      <4>1. docRow'[d] = docRow[d] \/ docRow'[d] = row
        BY <1>1, <3>2
      <4> QED BY <3>2, <4>1
    <3> QED BY <3>1, <3>2
  <2>4. \A d \in SiteDocs : docRow'[d].mount \in MountPaths \cup {""}
    BY <1>3, <2>3 DEF PathsSound
  <2> QED BY <1>3, <2>1, <2>2, <2>4, CallPaths DEF PathsSound
<1>7. ASSUME NEW l \in Leaders, SiteCall(l) PROVE PathsSound'
  <2>0. \A nav \in 0..1 : nav = 0 \/ nav = 1
    OBVIOUS
  <2>a. PICK nav \in 0..1, d \in SiteDocs, path \in MountPaths :
          \/ EditsNav(l, nav) \/ RenamesOwner(l) \/ UnmountsDoc(l, d) \/ RollsBackDoc(l, d)
          \/ MountsDoc(l, d, path) \/ BeginsPublish(l, d, path)
    BY <1>7, SitesAssumption DEF SiteCall
  <2>b. nav \in {0, 1}
    BY <2>0
  <2>1. UNCHANGED stale /\ siteNav' \in {siteNav, 0, 1}
    BY <2>a, <2>b DEF EditsNav, RenamesOwner, UnmountsDoc, RollsBackDoc, MountsDoc,
                BeginsPublish, KeepsEntry, KeepsTables
  <2>2. \A e \in SiteDocs : docRow'[e].mount \in MountPaths \cup {""}
    <3>1. ASSUME NEW row, docRow' = [docRow EXCEPT ![d] = row],
                 row.mount \in MountPaths \cup {""}
          PROVE  \A e \in SiteDocs : docRow'[e].mount \in MountPaths \cup {""}
      BY <1>1, <3>1 DEF PathsSound
    <3>2. /\ NoDoc.mount = "" /\ RolledBack(docRow[d]).mount = docRow[d].mount
          /\ [docRow[d] EXCEPT !.mount = path].mount = path
          /\ docRow[d].mount \in MountPaths \cup {""}
      BY <1>1 DEF NoDoc, RolledBack, SiteRows, PathsSound
    <3>3. \/ UNCHANGED docRow
          \/ docRow' = [docRow EXCEPT ![d] = NoDoc]
          \/ docRow' = [docRow EXCEPT ![d] = RolledBack(docRow[d])]
          \/ docRow' = [docRow EXCEPT ![d] = [docRow[d] EXCEPT !.mount = path]]
      BY <1>1, <2>a DEF EditsNav, RenamesOwner, UnmountsDoc, RollsBackDoc,
                        MountsDoc, BeginsPublish, KeepsEntry, KeepsTables
    <3>4. CASE UNCHANGED docRow
      BY <3>4 DEF PathsSound
    <3>5. [docRow[d] EXCEPT !.mount = path].mount \in MountPaths \cup {""}
      BY <3>2
    <3> QED BY <3>1, <3>2, <3>3, <3>4, <3>5
  <2>3. \E c : callAt' = [callAt EXCEPT ![l] = c] /\ c.mount \in MountPaths \cup {""}
    <3>1. \E c : Begins(l, c) /\ c.mount \in MountPaths \cup {""}
      <4>1. docRow[d].mount \in MountPaths \cup {""}
        BY DEF PathsSound
      <4>2. \A pc, doc, mount, container :
              /\ AtRest.mount = "" /\ [AtRest EXCEPT !.pc = pc].mount = ""
              /\ [AtRest EXCEPT !.pc = pc, !.doc = doc, !.mount = mount,
                               !.container = container].mount = mount
        BY DEF AtRest
      <4>3. CASE EditsNav(l, nav) \/ RenamesOwner(l) \/ UnmountsDoc(l, d) \/ RollsBackDoc(l, d)
                 \/ MountsDoc(l, d, path)
        BY <4>2, <4>3 DEF EditsNav, RenamesOwner, UnmountsDoc, RollsBackDoc, MountsDoc
      <4>4. CASE BeginsPublish(l, d, path)
        <5> DEFINE call == [AtRest EXCEPT !.pc = "publish", !.doc = d,
                                          !.mount = docRow[d].mount,
                                          !.container = <<generations + 1, path>>]
        <5>1. Begins(l, call)
          BY <4>4 DEF BeginsPublish
        <5>2. call.mount = docRow[d].mount
          BY DEF AtRest
        <5> HIDE DEF call
        <5> QED BY <4>1, <5>1, <5>2
      <4> QED BY <2>a, <4>3, <4>4
    <3> QED BY <3>1 DEF Begins
  <2> QED BY <2>1, <2>2, <2>3, CallPaths DEF PathsSound
<1> QED BY <1>2, <1>4, <1>5, <1>6, <1>7 DEF SitesNext

(* At the start the first document is at the root, if there is a site.     *)
LEMMA PathsFirst == SitesInit => PathsSound
<1> SUFFICES ASSUME SitesInit PROVE PathsSound
  OBVIOUS
<1>1. siteNav \in {NoRecord, 0, 1} /\ stale = {}
  BY DEF SitesInit
<1>2. ASSUME NEW d \in SiteDocs PROVE docRow[d].mount \in {"", "/"}
  <2>1. NoDoc.mount = "" /\ [NoDoc EXCEPT !.mount = "/", !.live = Root].mount = "/"
    BY DEF NoDoc
  <2> QED BY <2>1 DEF SitesInit
<1>3. ASSUME NEW l \in Leaders PROVE callAt[l].mount = ""
  BY DEF SitesInit, AtRest
<1> QED BY <1>1, <1>2, <1>3, SitesAssumption DEF PathsSound

(* With it the invariant gives the types.                                  *)
LEMMA SitesTypes == SitesInv /\ PathsSound => SitesTypeOK
<1> SUFFICES ASSUME SitesInv, PathsSound PROVE SitesTypeOK
  OBVIOUS
<1>1. siteNav \in NoRecord..1
  <2>1. siteNav \in {-1, 0, 1}
    BY DEF PathsSound, NoRecord
  <2> QED BY <2>1 DEF NoRecord
<1>2. ASSUME NEW l \in Leaders PROVE callAt[l].pc \in SitePlaces
  BY DEF SitesInv, SitesType, SiteRequests
<1> QED BY <1>1, <1>2 DEF SitesTypeOK, SitePlaces, PathsSound

-----------------------------------------------------------------------------
(* Settings: only writes that were made are unsettled.                     *)
WritesCounted ==
    settingWrites \in Nat /\ \A l \in Levels : unsettled[l] <= settingWrites

(* What every step keeps of the count.                                     *)
LEMMA WritesStep ==
    ASSUME SettingsType, WritesCounted, [SettingsNext]_settingVars PROVE WritesCounted'
<1>1. /\ unsettled \in [Levels -> Nat] /\ settingWrites \in Nat
      /\ \A l \in Levels : unsettled[l] \in Nat /\ unsettled[l] <= settingWrites
  BY DEF SettingsType, WritesCounted
<1>2. CASE UNCHANGED <<unsettled, settingWrites>>
  BY <1>2 DEF WritesCounted
<1>3. ASSUME NEW l \in Levels, NEW v, StoresValue(l, v) PROVE WritesCounted'
  <2>1. settingWrites' = settingWrites + 1 /\ unsettled' = [unsettled EXCEPT ![l] = @ + 1]
    BY <1>3 DEF StoresValue
  <2> QED BY <1>1, <2>1 DEF WritesCounted
<1>4. ASSUME NEW l \in Levels, Invalidates(l) PROVE WritesCounted'
  <2>1. UNCHANGED settingWrites /\ unsettled' = [unsettled EXCEPT ![l] = @ - 1]
    BY <1>4 DEF Invalidates
  <2> QED BY <1>1, <2>1 DEF WritesCounted
<1>5. ASSUME NEW l \in Levels, Evicts(l) PROVE WritesCounted'
  BY <1>2, <1>5 DEF Evicts
<1>6. ASSUME NEW g \in Getters,
             \/ \E l \in Levels : Misses(g, l)
             \/ ReadsOwnRow(g) \/ ReadsGlobalRow(g) \/ LacksOwnRow(g)
             \/ UsesOwnRow(g) \/ UsesGlobalRow(g) \/ UsesDefault(g) \/ FindsNothing(g)
      PROVE  WritesCounted'
  BY <1>2, <1>6 DEF Misses, ReadsOwnRow, ReadsGlobalRow, LacksOwnRow, UsesOwnRow, UsesGlobalRow,
                    UsesDefault, FindsNothing, Puts
<1>7. CASE UNCHANGED settingVars
  BY <1>2, <1>7 DEF settingVars
<1> QED BY <1>3, <1>4, <1>5, <1>6, <1>7 DEF SettingsNext

(* With it the invariant gives the types.                                  *)
LEMMA SettingsTypes == SettingsInv /\ WritesCounted => SettingsTypeOK
BY DEF SettingsInv, SettingsType, SettingRows, SettingEntries, Gets, GetPlaces, WritesCounted,
       SettingsTypeOK

(* At the start nothing was written.                                       *)
LEMMA WritesFirst == SettingsInit => WritesCounted
BY DEF SettingsInit, WritesCounted

-----------------------------------------------------------------------------
(* Uploads: a post waits for files it names.                               *)
PostNamed ==
    post.deps \subseteq post.files /\ post.key \subseteq Uploads /\ clashed \subseteq Uploads

(* What every step keeps of the post.                                      *)
LEMMA PostNamedStep ==
    ASSUME UploadsType, PostNamed, [UploadsNext]_uploadVars PROVE PostNamed'
<1>1. CASE UNCHANGED <<post, clashed>>
  BY <1>1 DEF PostNamed
<1>2. CASE /\ post'.files = post.files /\ post'.deps = post.deps /\ post'.key = post.key
           /\ UNCHANGED clashed
  BY <1>2 DEF PostNamed
<1>3. ASSUME NEW pc, NEW shares PROVE LET p == [post EXCEPT !.pc = pc, !.shares = shares]
                                      IN  p.files = post.files /\ p.deps = post.deps /\ p.key = post.key
  BY DEF UploadsType, PostTypes
<1>4. ASSUME NEW pc PROVE LET p == [post EXCEPT !.pc = pc]
                          IN  p.files = post.files /\ p.deps = post.deps /\ p.key = post.key
  BY DEF UploadsType, PostTypes
<1>5. ASSUME NEW u \in Uploads, IdRefused(u) PROVE PostNamed'
  <2>1. clashed' \subseteq Uploads
    BY <1>5 DEF PostNamed, IdRefused
  <2>2. DropsPost(u)
    BY <1>5 DEF IdRefused
  <2>3. post'.files = post.files /\ post'.deps = post.deps /\ post'.key = post.key
    BY <1>3, <2>2 DEF DropsPost
  <2> QED BY <2>1, <2>3 DEF PostNamed
<1>6. ASSUME NEW files \in SUBSET Uploads, NEW key \in SUBSET Uploads, Posts(files, key)
      PROVE  PostNamed'
  <2>1. /\ post' = [pc |-> "collected", files |-> files, deps |-> FileDeps(files), key |-> key,
                    shares |-> FALSE]
        /\ UNCHANGED clashed
    BY <1>6 DEF Posts
  <2>2. FileDeps(files) \subseteq files
    BY DEF FileDeps
  <2>3. post'.files = files /\ post'.deps = FileDeps(files) /\ post'.key = key
    BY <2>1
  <2> QED BY <2>1, <2>2, <2>3 DEF PostNamed
<1>7. CASE SchedulesPost \/ ResolvesFiles
  <2>1. CASE SchedulesPost
    <3>1. PICK shares : post' = [post EXCEPT !.pc = "waiting", !.shares = shares]
      BY <2>1 DEF SchedulesPost
    <3>2. UNCHANGED clashed
      BY <2>1 DEF SchedulesPost
    <3> QED BY <1>2, <1>3, <3>1, <3>2
  <2>2. CASE ResolvesFiles
    <3>1. PICK pc : post' = [post EXCEPT !.pc = pc]
      BY <2>2 DEF ResolvesFiles
    <3>2. UNCHANGED clashed
      BY <2>2 DEF ResolvesFiles
    <3> QED BY <1>2, <1>4, <3>1, <3>2
  <2> QED BY <1>7, <2>1, <2>2
<1>8. CASE UploadStops
  <2>1. CASE post' = NoPost
    <3>1. post'.files = {} /\ post'.deps = {} /\ post'.key = {}
      BY <2>1 DEF NoPost
    <3>2. UNCHANGED clashed
      BY <1>8 DEF UploadStops
    <3> QED BY <3>1, <3>2 DEF PostNamed
  <2>2. CASE post' # NoPost
    BY <1>2, <1>4, <1>8, <2>2 DEF UploadStops
  <2> QED BY <2>1, <2>2
<1>9. ASSUME NEW u \in Uploads, SchedulesIdTask(u) \/ FindsIt(u) PROVE PostNamed'
  <2>1. UNCHANGED clashed /\ (UNCHANGED post \/ DropsPost(u))
    BY <1>9 DEF SchedulesIdTask, FindsIt
  <2>2. CASE UNCHANGED post
    BY <1>1, <2>1, <2>2
  <2>3. CASE DropsPost(u)
    <3>1. post' = post \/ post' = [post EXCEPT !.pc = "lost", !.shares = TRUE]
      BY <2>3 DEF DropsPost
    <3>2. post'.files = post.files /\ post'.deps = post.deps /\ post'.key = post.key
      BY <3>1 DEF UploadsType, PostTypes
    <3>3. UNCHANGED clashed
      BY <2>1
    <3> QED BY <1>2, <3>2, <3>3
  <2> QED BY <2>1, <2>2, <2>3
<1>10. ASSUME NEW u \in Uploads,
             \/ CreatesRow(u) \/ RecordsOrig(u) \/ SkipsOrig(u)
             \/ UploadFails(u) \/ DeletesFile(u)
             \/ \E v \in Renditions : AddsRendition(u, v) \/ Renders(u, v) \/ RenderFails(u, v)
             \/ ListsVariants(u) \/ PurgesVariants(u) \/ PurgesRow(u) \/ SetsId(u)
      PROVE  PostNamed'
  <2>1. UNCHANGED <<post, clashed>>
    BY <1>10 DEF CreatesRow, RecordsOrig, SkipsOrig, UploadFails, DeletesFile,
              AddsRendition, Renders, RenderFails, ListsVariants, PurgesVariants, PurgesRow,
              SetsId
  <2> QED BY <1>1, <2>1
<1>11. CASE UNCHANGED uploadVars
  BY <1>1, <1>11 DEF uploadVars
<1>12. ASSUME NEW files \in SUBSET Uploads, NEW u \in Uploads,
              Posts(files, {}) \/ Posts(files, {u})
       PROVE  PostNamed'
  BY <1>6, <1>12
<1> QED BY <1>5, <1>7, <1>8, <1>9, <1>10, <1>11, <1>12 DEF UploadsNext

(* At the start there is no post.                                          *)
LEMMA PostNamedFirst == UploadsInit => PostNamed
BY DEF UploadsInit, PostNamed, NoPost

(* With it the invariant gives the types: a digest is an id.               *)
LEMMA UploadsTypes == UploadsInv /\ PostNamed => UploadsTypeOK
<1> SUFFICES ASSUME UploadsInv, PostNamed PROVE UploadsTypeOK
  OBVIOUS
<1>1. ASSUME NEW u \in Uploads
      PROVE  /\ upFile[u].st \in {"none", "P", "A", "D"}
             /\ upFile[u].variants \subseteq Renditions \cup {"orig"}
  BY DEF UploadsInv, UploadsType, UploadRows, AllVariants
<1>2. ASSUME NEW u \in Uploads
      PROVE  /\ rendering[u] \subseteq idTask[u].deps
             /\ upFile[u].st = "A" => upFile[u].id = Digest(u, upFile[u].variants)
  BY DEF UploadsInv, FileSound
<1>3. \A u, variants : Digest(u, variants) # NoId
  BY DEF Digest, NoId
<1> QED BY <1>1, <1>2, <1>3 DEF UploadsTypeOK, PostNamed

-----------------------------------------------------------------------------
(* Onboarding: only with an ACME account is there a certificate, or        *)
(* anybody on the way to one.                                              *)
AcmeSound ==
    /\ renewals \in Nat /\ renewals <= MaxRenewals
    /\ \/ cert \/ renewal = "issue" \/ registration \in {"issue", "retries"}
       \/ \E r \in EarlyRetries : early[r] # "none"
       => acme

(* At the start nobody is.                                                 *)
LEMMA AcmeFirst == OnboardingInit => AcmeSound
<1> SUFFICES ASSUME OnboardingInit PROVE AcmeSound
  OBVIOUS
<1>1. renewals \in Nat /\ renewals <= MaxRenewals
  BY OnboardingBounds DEF OnboardingInit
<1> QED BY <1>1 DEF OnboardingInit, AcmeSound

(* What every step keeps of it.                                            *)
LEMMA AcmeStep ==
    ASSUME OnboardingType, AcmeSound, [OnboardingNext]_onboardingVars PROVE AcmeSound'
<1>1. renewals' \in Nat /\ renewals' <= MaxRenewals
  <2>1. renewals' = renewals \/ (renewals < MaxRenewals /\ renewals' = renewals + 1)
    BY DEF OnboardingNext, CreatesTenant, IssuesAtCreation, IssueFailsAtCreation,
           HookAtCreation, LooksForCert, SendsNow, Defers, SchedulesRetry, RetryStarts,
           RetryIssues, RetryFails, RetryReadsMarker, RetryLeavesMail, RetryClearsMarker,
           RenewalStarts, RenewalIssues, RenewalFails, SendsMail, OnboardingStop, onboardingVars
  <2> QED BY <2>1, OnboardingBounds DEF AcmeSound
<1>2. UNCHANGED acme
  BY DEF OnboardingNext, CreatesTenant, IssuesAtCreation, IssueFailsAtCreation, HookAtCreation,
         LooksForCert, SendsNow, Defers, SchedulesRetry, RetryStarts, RetryIssues, RetryFails,
         RetryReadsMarker, RetryLeavesMail, RetryClearsMarker, RenewalStarts, RenewalIssues,
         RenewalFails, SendsMail, OnboardingStop, onboardingVars
<1>3. CASE acme
  BY <1>1, <1>2, <1>3 DEF AcmeSound
<1>4. CASE ~acme
  <2>1. /\ ~cert /\ renewal # "issue" /\ registration \notin {"issue", "retries"}
        /\ \A r \in EarlyRetries : early[r] = "none"
    BY <1>4 DEF AcmeSound
  <2>2. ~cert' /\ renewal' # "issue"
    BY <1>4, <2>1 DEF OnboardingNext, CreatesTenant, IssuesAtCreation, IssueFailsAtCreation,
           HookAtCreation, LooksForCert, SendsNow, Defers, SchedulesRetry, RetryStarts,
           RetryIssues, RetryFails, RetryReadsMarker, RetryLeavesMail, RetryClearsMarker,
           RenewalStarts, RenewalIssues, RenewalFails, SendsMail, OnboardingStop, onboardingVars
  <2>3. registration' \notin {"issue", "retries"}
    BY <1>4, <2>1 DEF OnboardingNext, CreatesTenant, IssuesAtCreation, IssueFailsAtCreation,
           HookAtCreation, LooksForCert, SendsNow, Defers, SchedulesRetry, RetryStarts,
           RetryIssues, RetryFails, RetryReadsMarker, RetryLeavesMail, RetryClearsMarker,
           RenewalStarts, RenewalIssues, RenewalFails, SendsMail, OnboardingStop,
           onboardingVars, RegistrationTo
  <2>4. \A r \in EarlyRetries : early'[r] = "none"
    BY <1>4, <2>1 DEF OnboardingNext, CreatesTenant, IssuesAtCreation, IssueFailsAtCreation,
           HookAtCreation, LooksForCert, SendsNow, Defers, SchedulesRetry, RetryStarts,
           RetryIssues, RetryFails, RetryReadsMarker, RetryLeavesMail, RetryClearsMarker,
           RenewalStarts, RenewalIssues, RenewalFails, SendsMail, OnboardingStop, onboardingVars
  <2> QED BY <1>1, <1>2, <2>2, <2>3, <2>4 DEF AcmeSound
<1> QED BY <1>2, <1>3, <1>4

(* With it the invariant gives the types.                                  *)
LEMMA OnboardingTypes == OnboardingInv /\ AcmeSound => OnboardingTypeOK
BY DEF OnboardingInv, OnboardingType, RegistrationPlaces, EarlyPlaces, AcmeSound,
       OnboardingTypeOK

(* QrLogin: the invariant gives the types.                                 *)
LEMMA QrTypes == DenialInv => QrTypeOK
BY DEF DenialInv, QrTypeOK

(* DavSync: the invariant gives the types.                                 *)
LEMMA DavTypes == DavInv => DavTypeOK
<1> SUFFICES ASSUME DavInv PROVE DavTypeOK
  OBVIOUS
<1>0. /\ touched \in Nat /\ second \in Nat /\ touched <= second /\ TableSound(rows, touched)
  BY DavNumbers DEF DavInv, WriterSound
<1>1. ASSUME NEW S, \A i, j \in S : i = j PROVE Cardinality(S) <= 1
  <2>1. CASE S = {}
    BY <2>1, FS_EmptySet
  <2>2. CASE S # {}
    <3>1. PICK i \in S : TRUE
      BY <2>2
    <3>2. S = {i}
      BY <1>1, <3>1
    <3> QED BY <3>2, FS_Singleton
  <2> QED BY <2>1, <2>2
<1>2. ASSUME NEW u \in Uids PROVE Cardinality(Live(u)) <= 1
  <2>1. \A i, j \in DOMAIN rows :
          rows[i].uid = u /\ rows[j].uid = u /\ ~rows[i].deleted /\ ~rows[j].deleted => i = j
    <3> HIDE DEF DavRow
    <3> QED BY <1>0 DEF TableSound
  <2>2. \A i, j \in Live(u) : i = j
    BY <2>1 DEF Live
  <2> QED BY <1>1, <2>2
<1>3. ASSUME revives, NEW u \in Uids PROVE Cardinality(RowsOf(u)) <= 1
  <2>1. \A i, j \in RowsOf(u) : i = j
    BY <1>0, <1>3 DEF RowsOf, TableSound
  <2> QED BY <1>1, <2>1
<1>4. ASSUME NEW i \in DOMAIN rows PROVE rows[i].updated \in 1..second
  <2>1. rows[i].updated \in 1..touched
    BY <1>0 DEF TableSound
  <2> QED BY <1>0, <2>1
<1> QED BY <1>2, <1>3, <1>4 DEF DavTypeOK

(* Every part keeps the types of its variables.                            *)
LEMMA PartsTyped ==
    /\ PresenceSpec => []PresenceTypeOK
    /\ RtdbSpec => []RtdbTypeOK
    /\ SearchSpec => []SearchTypeOK
    /\ DraftsSpec => []DraftsTypeOK
    /\ GcSpec => []GcTypeOK
    /\ SitesSpec => []SitesTypeOK
    /\ SettingsSpec => []SettingsTypeOK
    /\ UploadsSpec => []UploadsTypeOK
    /\ OnboardingSpec => []OnboardingTypeOK
    /\ QrSpec => []QrTypeOK
    /\ DavSpec => []DavTypeOK
<1>1. PresenceSpec => []PresenceTypeOK
  <2>1. PresenceInv /\ ChannelsFit /\ [PresenceNext]_presenceVars
          => ChannelsFit'
    BY ChannelsStep DEF PresenceInv
  <2> QED BY <2>1, PresenceInitial, ChannelsFirst, PresenceStep, PresenceTypes, PTL
         DEF PresenceSpec
<1>2. RtdbSpec => []RtdbTypeOK
  <2>1. ChannelInv /\ InboxFits /\ [RtdbNext]_rtdbVars
          => InboxFits'
    BY InboxesStep DEF ChannelInv
  <2> QED BY <2>1, ChannelInitial, InboxesFirst, ChannelStep, RtdbTypes, PTL
         DEF RtdbSpec
<1>3. SearchSpec => []SearchTypeOK
  <2>1. SearchInv /\ DueSound /\ ContentSound /\ [SearchNext]_searchVars
          => DueSound' /\ ContentSound'
    BY DueStep, ContentStep DEF SearchInv
  <2> QED BY <2>1, SearchInitial, SearchFirst, SearchStep, SearchTypes, PTL
         DEF SearchSpec
<1>4. DraftsSpec => []DraftsTypeOK
  <2>1. DraftsInv /\ DraftTasksSound /\ [DraftsNext]_draftVars
          => DraftTasksSound'
    BY DraftTasksStep DEF DraftsInv
  <2> QED BY <2>1, DraftsInitial, DraftsFirst, DraftsStep, DraftsTypes, PTL
         DEF DraftsSpec
<1>5. GcSpec => []GcTypeOK
  <2>1. BlobInv /\ TimesSound /\ [GcNext]_gcVars
          => TimesSound'
    BY CutoffsStep, VariantsStep DEF BlobInv, TimesSound
  <2> QED BY <2>1, BlobInit, TimesFirst, BlobStep, GcTypes, PTL
         DEF GcSpec
<1>6. SitesSpec => []SitesTypeOK
  <2>1. SitesInv /\ PathsSound /\ [SitesNext]_siteVars
          => PathsSound'
    BY PathsStep DEF SitesInv
  <2> QED BY <2>1, SitesInitial, PathsFirst, SitesStep, SitesTypes, PTL
         DEF SitesSpec
<1>7. SettingsSpec => []SettingsTypeOK
  <2>1. SettingsInv /\ WritesCounted /\ [SettingsNext]_settingVars
          => WritesCounted'
    BY WritesStep DEF SettingsInv
  <2> QED BY <2>1, SettingsInitial, WritesFirst, SettingsStep, SettingsTypes, PTL
         DEF SettingsSpec
<1>8. UploadsSpec => []UploadsTypeOK
  <2>1. UploadsInv /\ PostNamed /\ [UploadsNext]_uploadVars
          => PostNamed'
    BY PostNamedStep DEF UploadsInv
  <2> QED BY <2>1, UploadsInitial, PostNamedFirst, UploadsStep, UploadsTypes, PTL
         DEF UploadsSpec
<1>9. OnboardingSpec => []OnboardingTypeOK
  <2>1. OnboardingInv /\ AcmeSound /\ [OnboardingNext]_onboardingVars
          => AcmeSound'
    BY AcmeStep DEF OnboardingInv
  <2> QED BY <2>1, OnboardingInitial, AcmeFirst, OnboardingStep, OnboardingTypes, PTL
         DEF OnboardingSpec
<1>10. QrSpec => []QrTypeOK
  BY DenialInit, DenialStep, QrTypes, PTL DEF QrSpec
<1>11. DavSpec => []DavTypeOK
  BY DavInitial, DavStep, DavTypes, PTL DEF DavSpec
<1> QED BY <1>1, <1>2, <1>3, <1>4, <1>5, <1>6, <1>7, <1>8, <1>9, <1>10, <1>11

-----------------------------------------------------------------------------
(***************************************************************************)
(* The composition: the parts share no variable.                           *)
(***************************************************************************)

(* All the parts begin as their own specifications say.                    *)
LEMMA PartsBegin ==
    ServicesInit => /\ PresenceInit /\ RtdbInit /\ SearchInit /\ DraftsInit /\ GcInit
                    /\ SitesInit /\ DavInit /\ QrInit
                    /\ SettingsInit /\ UploadsInit /\ OnboardingInit
BY DEF ServicesInit

(* A step is a step of the part that was chosen, and leaves the others.    *)
LEMMA PartsStep ==
    [ServicesNext]_serviceVars =>
      /\ [PresenceNext]_presenceVars /\ [RtdbNext]_rtdbVars /\ [SearchNext]_searchVars
      /\ [DraftsNext]_draftVars /\ [GcNext]_gcVars /\ [SitesNext]_siteVars
      /\ [DavNext]_davVars /\ [QrNext]_qrVars /\ [SettingsNext]_settingVars
      /\ [UploadsNext]_uploadVars /\ [OnboardingNext]_onboardingVars
<1> SUFFICES ASSUME [ServicesNext]_serviceVars
             PROVE  /\ [PresenceNext]_presenceVars /\ [RtdbNext]_rtdbVars
                    /\ [SearchNext]_searchVars /\ [DraftsNext]_draftVars
                    /\ [GcNext]_gcVars /\ [SitesNext]_siteVars /\ [DavNext]_davVars
                    /\ [QrNext]_qrVars /\ [SettingsNext]_settingVars
                    /\ [UploadsNext]_uploadVars /\ [OnboardingNext]_onboardingVars
  OBVIOUS
<1>1. CASE UNCHANGED serviceVars
  BY <1>1 DEF serviceVars
<1>2. CASE ServicesNext
  BY <1>2 DEF ServicesNext, Pausing, Taking
<1> QED BY <1>1, <1>2

(* Every part does in the composed module what its own specification says: *)
(* what is proved of a part holds of the composition.                      *)
THEOREM ServicesImplementParts ==
    ServicesSpec => /\ PresenceSpec /\ RtdbSpec /\ SearchSpec /\ DraftsSpec /\ GcSpec
                    /\ SitesSpec /\ DavSpec /\ QrSpec
                    /\ SettingsSpec /\ UploadsSpec /\ OnboardingSpec
BY PartsBegin, PartsStep, PTL
   DEF ServicesSpec, PresenceSpec, RtdbSpec, SearchSpec, DraftsSpec, GcSpec, SitesSpec, DavSpec,
       QrSpec, SettingsSpec, UploadsSpec, OnboardingSpec

(* The composition keeps all of them.                                      *)
THEOREM ServicesTypeCorrect == ServicesSpec => []ServicesTypeOK
<1>1. /\ PresenceTypeOK /\ RtdbTypeOK /\ SearchTypeOK /\ DraftsTypeOK
      /\ GcTypeOK /\ SitesTypeOK /\ DavTypeOK /\ QrTypeOK
      /\ SettingsTypeOK /\ UploadsTypeOK /\ OnboardingTypeOK
      => ServicesTypeOK
  BY DEF ServicesTypeOK
<1> QED BY <1>1, PartsTyped, ServicesImplementParts, PTL

(* And what is proved of the parts is true of the composition: no part     *)
(* disturbs another.                                                       *)
THEOREM ServicesCorrect ==
    ServicesSpec => /\ []RosterAgrees /\ []UpdatesKept /\ []SubscribersAgree /\ []IndexAgrees
                    /\ []SentAsMeant /\ []FilesWhole /\ []SiteServed /\ []SyncComplete
                    /\ []DenialStands /\ []SettingsServed /\ []FilesIdentified
                    /\ []WelcomeCared
BY ServicesImplementParts, RosterAgreesCorrect, UpdatesKeptCorrect, SubscribersAgreeCorrect,
   IndexAgreesCorrect, SentAsMeantCorrect, FilesWholeCorrect, SiteServedCorrect,
   SyncCompleteCorrect, DenialStandsCorrect, SettingsServedCorrect, FilesIdentifiedCorrect,
   WelcomeCaredCorrect, PTL
=============================================================================
