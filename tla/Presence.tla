------------------------------ MODULE Presence ------------------------------
(* The presence rooms of the RTDB connections: who has joined the room of  *)
(* a document, the state each has published, and the events on the way to  *)
(* the others.  A room is an object of its own, which the registry names   *)
(* by its document while it has members.                                   *)
EXTENDS Integers, Sequences, FiniteSets

CONSTANTS
    Watchers,         \* the connections that ask for presence, on one document
    MaxMembers,       \* MAX_PRESENCE_MEMBERS
    QueueDepth,       \* PRESENCE_QUEUE_DEPTH
    MaxPublishes,     \* bound: states published
    MaxRooms          \* bound: rooms created

ASSUME PresenceAssumption ==
    /\ MaxMembers \in Nat \ {0} /\ QueueDepth \in Nat \ {0}
    /\ MaxPublishes \in Nat /\ MaxRooms \in Nat

VARIABLES
    roomHere,      \* the room the registry has for the document, 0 for none
    roomsMade,     \* rooms created so far
    membersOf,     \* members of each room, with the state each has published
    registryHeld,  \* who holds the write guard of the registry, and its room
    eventsTo,      \* the channel of each connection
    watcherAt,     \* where each connection is
    roomFound,     \* the room a connection that joins has found
    rosterOf,      \* the roster its client has put together
    lagging,       \* an event was dropped on a full channel
    published      \* states published so far

presenceVars == <<roomHere, roomsMade, membersOf, registryHeld, eventsTo, watcherAt,
                  roomFound, rosterOf, lagging, published>>

Unpublished == 0
Nobody == {}

PresenceInit ==
    /\ roomHere = 0 /\ roomsMade = 0
    /\ membersOf = [r \in 1..MaxRooms |-> <<>>]
    /\ registryHeld = Nobody
    /\ eventsTo = [c \in Watchers |-> <<>>]
    /\ watcherAt = [c \in Watchers |-> "away"]
    /\ roomFound = [c \in Watchers |-> 0]
    /\ rosterOf = [c \in Watchers |-> <<>>]
    /\ lagging = [c \in Watchers |-> FALSE]
    /\ published = 0

Upserted(f, c, state) ==
    [d \in DOMAIN f \cup {c} |-> IF d = c THEN state ELSE f[d]]
Without(f, c) == [d \in DOMAIN f \ {c} |-> f[d]]

(* roster: the members that have published.                                *)
Roster(room) == LET shown == {c \in DOMAIN membersOf[room] :
                                membersOf[room][c] # Unpublished}
                IN  [c \in shown |-> membersOf[room][c]]

(* Faulty variant: only those who are shown are told.                      *)
BroadcastToShown(members, event, origin) ==
    LET others == {c \in DOMAIN members \ {origin} : members[c] # Unpublished}
        fits   == {c \in others : Len(eventsTo[c]) < QueueDepth}
    IN  /\ eventsTo' = [c \in Watchers |->
              IF c \in fits THEN Append(eventsTo[c], event) ELSE eventsTo[c]]
        /\ lagging' = [c \in Watchers |-> lagging[c] \/ c \in others \ fits]

(* broadcast: to everyone but the origin; a full channel loses the event.  *)
Broadcast(members, event, origin) ==
    LET others == DOMAIN members \ {origin}
        fits   == {c \in others : Len(eventsTo[c]) < QueueDepth}
    IN  /\ eventsTo' = [c \in Watchers |->
              IF c \in fits THEN Append(eventsTo[c], event) ELSE eventsTo[c]]
        /\ lagging' = [c \in Watchers |-> lagging[c] \/ c \in others \ fits]

-----------------------------------------------------------------------------
(* The write guard stays with the caller across the lock of the room.      *)
HeldBy(c) == {c}

(* join: the room of the document, made when there is none ...             *)
FindsRoom(c) ==
    /\ watcherAt[c] = "away" /\ registryHeld = Nobody
    /\ IF roomHere # 0 THEN UNCHANGED <<roomHere, roomsMade>>
       ELSE /\ roomsMade < MaxRooms
            /\ roomsMade' = roomsMade + 1 /\ roomHere' = roomsMade + 1
    /\ registryHeld' = HeldBy(c)
    /\ watcherAt' = [watcherAt EXCEPT ![c] = "joins"]
    /\ roomFound' = [roomFound EXCEPT ![c] = roomHere']
    /\ UNCHANGED <<membersOf, eventsTo, rosterOf, lagging, published>>

(* ... which the connection enters, with the roster as its first event,    *)
(* unless it is full.                                                      *)
EntersRoom(c) ==
    /\ watcherAt[c] = "joins"
    /\ LET room == roomFound[c]
       IN  IF Cardinality(DOMAIN membersOf[room]) >= MaxMembers
             THEN /\ watcherAt' = [watcherAt EXCEPT ![c] = "refused"]
                  /\ UNCHANGED <<membersOf, eventsTo>>
             ELSE /\ membersOf' = [membersOf EXCEPT ![room] =
                       Upserted(@, c, Unpublished)]
                  /\ eventsTo' = [eventsTo EXCEPT ![c] =
                       <<[action |-> "sync", roster |-> Roster(room)]>>]
                  /\ watcherAt' = [watcherAt EXCEPT ![c] = "in"]
    /\ registryHeld' = registryHeld \ {c}
    /\ UNCHANGED <<roomHere, roomsMade, roomFound, rosterOf, lagging, published>>

(* publish, which may come after the leave and finds no member then; the   *)
(* read guard keeps leave out; a clear is told when something was shown.   *)
Publishes(c, state) ==
    /\ registryHeld = Nobody
    /\ roomHere # 0 /\ c \in DOMAIN membersOf[roomHere]
    /\ membersOf' = [membersOf EXCEPT ![roomHere][c] = state]
    /\ Broadcast(membersOf[roomHere],
         IF state = Unpublished THEN [action |-> "leave", conn |-> c]
                                ELSE [action |-> "upsert", conn |-> c, state |-> state],
         c)
    /\ UNCHANGED <<roomHere, roomsMade, registryHeld, watcherAt, roomFound,
                   rosterOf>>

PublishesState(c) ==
    /\ published < MaxPublishes
    /\ published' = published + 1
    /\ Publishes(c, published + 1)

ClearsState(c) ==
    /\ roomHere # 0 /\ c \in DOMAIN membersOf[roomHere]
    /\ membersOf[roomHere][c] # Unpublished
    /\ UNCHANGED published
    /\ Publishes(c, Unpublished)

(* leave, on disconnect: the member goes, the others are told when it was  *)
(* shown, and an empty room goes with it.                                  *)
LeavesRoom(c) ==
    /\ watcherAt[c] = "in" /\ registryHeld = Nobody
    /\ roomHere # 0
    /\ LET room == roomHere
           left == Without(membersOf[room], c)
       IN  /\ membersOf' = [membersOf EXCEPT ![room] = left]
           /\ IF c \in DOMAIN Roster(room)
                THEN Broadcast(membersOf[room], [action |-> "leave", conn |-> c], c)
                ELSE UNCHANGED <<eventsTo, lagging>>
           /\ roomHere' = IF left = <<>> THEN 0 ELSE room
    /\ watcherAt' = [watcherAt EXCEPT ![c] = "gone"]
    /\ UNCHANGED <<roomsMade, registryHeld, roomFound, rosterOf, published>>

(* The client applies what its channel holds: an upsert, a delete, or a    *)
(* roster that replaces what it had.                                       *)
Applied(roster, e) ==
    CASE e.action = "sync"   -> e.roster
      [] e.action = "upsert" -> Upserted(roster, e.conn, e.state)
      [] e.action = "leave"  -> Without(roster, e.conn)

AppliesEvent(c) ==
    /\ watcherAt[c] = "in" /\ eventsTo[c] # <<>>
    /\ eventsTo' = [eventsTo EXCEPT ![c] = Tail(@)]
    /\ rosterOf' = [rosterOf EXCEPT ![c] = Applied(@, Head(eventsTo[c]))]
    /\ UNCHANGED <<roomHere, roomsMade, membersOf, registryHeld, watcherAt, roomFound,
                   lagging, published>>

PresenceNext ==
    \E c \in Watchers :
      \/ FindsRoom(c) \/ EntersRoom(c) \/ LeavesRoom(c)
      \/ PublishesState(c) \/ ClearsState(c) \/ AppliesEvent(c)

PresenceSpec == PresenceInit /\ [][PresenceNext]_presenceVars

-----------------------------------------------------------------------------
PresenceTypeOK ==
    /\ roomHere \in 0..roomsMade /\ roomsMade \in 0..MaxRooms
    /\ \A r \in 1..MaxRooms : DOMAIN membersOf[r] \subseteq Watchers
    /\ registryHeld \subseteq Watchers
    /\ \A c \in Watchers : Len(eventsTo[c]) <= QueueDepth

Present(c) == watcherAt[c] = "in"

(* Every connection that has joined is a member of the room the registry   *)
(* names, and no other room has members: nobody is in a room that is lost. *)
(* And what its client has put together from its events, once all of them  *)
(* are applied and if none was dropped, is the others' states as that room *)
(* has them.                                                               *)
RosterAgrees ==
    \A c \in Watchers :
      /\ \A r \in 1..MaxRooms :
           c \in DOMAIN membersOf[r] <=> Present(c) /\ r = roomHere
      /\ Present(c) /\ eventsTo[c] = <<>> /\ ~lagging[c]
           => rosterOf[c] = Without(Roster(roomHere), c)
=============================================================================
