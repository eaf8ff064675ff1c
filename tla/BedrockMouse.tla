----------------------------- MODULE BedrockMouse -----------------------------
(***************************************************************************)
(* The held mouse button of the former Bedrock engine: BedrockAutoButton   *)
(* knows the blocks around the player from chunks and updates, and mines   *)
(* or uses what is in front of it; BotSender sends its actions with the    *)
(* input of each tick (bedrock-bot/autoButton.ts, send.ts, index.ts).      *)
(*                                                                         *)
(* One section of the world is in view, and of it the places the view      *)
(* passes, 1 being the nearest. A teleport leads to a section that was     *)
(* not seen before. The server is external: it takes the actions it gets,  *)
(* and ends those of a player it moves.                                    *)
(***************************************************************************)
EXTENDS Integers, FiniteSets

CONSTANTS
  Places,       \* 1..n
  Kinds,        \* of blocks, besides air
  DigTime,      \* of a block
  RetryTime,    \* 1 s: until a rejected prediction is repeated
  UseTime,      \* 200 ms between two uses
  RequestTime,  \* 2 s until a section is requested again
  MaxAirUpdates,\* 1024: updates kept for a section that is all air
  MaxUpsets     \* bound: settings, teleports, changes of the world, lost packets

ASSUME BedrockMouseAssumption ==
  /\ Places \subseteq Nat \ {0} /\ Places # {}
  /\ {DigTime, RetryTime, UseTime, RequestTime} \subseteq Nat \ {0}
  /\ {MaxAirUpdates, MaxUpsets} \subseteq Nat
  /\ "air" \notin Kinds

Air == "air"
Nowhere == 0
NoMining == [at |-> Nowhere, kind |-> Air, left |-> 0]
NotAsked == -1

VARIABLES
  mode,        \* "off", "left" or "right"
  registry,    \* the names of the blocks are known
  section,     \* "none", "empty" (all air, not spelt out) or the blocks at the places
  airUpdates,  \* what came for an empty section before the registry
  sectionAsked,\* units since the section was requested
  mining,      \* the block the button digs, its kind and the units left
  useRequested,\* the button is held on an item
  useRest,     \* units until the next use
  usingItem,   \* as the server's flags say
  release,     \* releasePending
  queued,      \* queuedBlockActions: the places whose breaking is to be aborted
  world,       \* the server's blocks
  digs,        \* the place the server's player digs at
  uses,        \* the server's player holds the button on an item
  creature,    \* stands in front, within reach
  blocked,     \* a menu is open or the inventory is not known
  unsaid,      \* an abort was lost with its packet
  upsets

mouseVars == <<mode, registry, section, airUpdates, sectionAsked, mining, useRequested, useRest,
               usingItem, release, queued, world, digs, uses, creature, blocked, unsaid, upsets>>
view == <<registry, section, airUpdates, sectionAsked>>
hands == <<mining, useRequested, useRest, release, queued, unsaid>>
serverSide == <<digs, uses, usingItem>>
around == <<world, creature, blocked>>

Blocks == [Places -> Kinds \union {Air}]
Updates == UNION {[S -> Kinds \union {Air}] : S \in SUBSET Places}
NoUpdates == [p \in {} |-> Air]
AllAir == [p \in Places |-> Air]
Unseen == [state |-> "none"]
Empty == [state |-> "empty"]
Full(blocks) == [state |-> "full", blocks |-> blocks]

MouseTypeOK ==
  /\ mode \in {"off", "left", "right"}
  /\ {registry, useRequested, usingItem, release, uses, creature, blocked, unsaid} \subseteq BOOLEAN
  /\ section \in {Unseen, Empty} \union {Full(b) : b \in Blocks}
  /\ airUpdates \in Updates /\ sectionAsked \in NotAsked..RequestTime
  /\ mining \in [at : Places \union {Nowhere}, kind : Kinds \union {Air},
                 left : 0..(DigTime + RetryTime)]
  /\ useRest \in 0..UseTime /\ queued \subseteq Places
  /\ world \in Blocks /\ digs \in Places \union {Nowhere}
  /\ upsets \in 0..MaxUpsets
  /\ DOMAIN airUpdates # {} => section = Empty /\ ~registry

\* As the first start_game leaves it.
MouseInit ==
  /\ mode \in {"off", "left", "right"} /\ registry = (mode # "off")
  /\ section = Unseen /\ airUpdates = NoUpdates /\ sectionAsked = NotAsked
  /\ mining = NoMining /\ useRequested = FALSE /\ useRest = 0 /\ usingItem = FALSE
  /\ release = FALSE /\ queued = {}
  /\ world \in Blocks /\ digs = Nowhere /\ uses = FALSE
  /\ creature = FALSE /\ blocked = FALSE /\ unsaid = FALSE /\ upsets = 0

Upset == upsets < MaxUpsets /\ upsets' = upsets + 1

-----------------------------------------------------------------------------
(***************************************************************************)
(* The world as the packets tell it.                                       *)
(***************************************************************************)

\* The blocks of a section that was all air before its updates.
Spread(updates) == [p \in Places |-> IF p \in DOMAIN updates THEN updates[p] ELSE Air]

\* initializeRegistry, for a section: the updates that were kept are made.
Spelt(s, updates) == IF s = Empty /\ DOMAIN updates # {} THEN Full(Spread(updates)) ELSE s

NamesBlocks ==
  /\ registry' = TRUE
  /\ section' = Spelt(section, airUpdates) /\ airUpdates' = NoUpdates

\* onStartGame: the world and what is known of it begin anew.
StartGame ==
  /\ Upset
  /\ registry' = (mode # "off")
  /\ section' = Unseen /\ airUpdates' = NoUpdates /\ sectionAsked' = NotAsked
  /\ mining' = NoMining /\ useRequested' = FALSE /\ useRest' = 0 /\ usingItem' = FALSE
  /\ release' = FALSE /\ queued' = {} /\ unsaid' = FALSE
  /\ world' \in Blocks /\ digs' = Nowhere /\ uses' = FALSE /\ creature' = FALSE
  /\ UNCHANGED <<mode, blocked>>

\* teleported: the server has ended what the player did.
Teleported ==
  /\ Upset
  /\ world' \in Blocks /\ digs' = Nowhere /\ uses' = FALSE /\ creature' = FALSE
  /\ section' = Unseen /\ airUpdates' = NoUpdates /\ sectionAsked' = NotAsked
  /\ mining' = NoMining /\ useRequested' = FALSE /\ useRest' = 0 /\ usingItem' = FALSE
  /\ release' = FALSE /\ queued' = {} /\ unsaid' = FALSE
  /\ UNCHANGED <<mode, registry, blocked>>

\* onLevelChunk.
LevelChunk ==
  /\ section' = IF world = AllAir THEN Empty ELSE Full(world)
  /\ airUpdates' = NoUpdates /\ sectionAsked' = NotAsked
  /\ UNCHANGED <<mode, registry, hands, serverSide, around, upsets>>

\* onSubchunk: the answer counts if it was asked for and can be read.
Subchunk ==
  /\ mode # "off" /\ registry /\ sectionAsked # NotAsked
  /\ section' = Full(world) /\ sectionAsked' = NotAsked
  /\ UNCHANGED <<mode, registry, airUpdates, hands, serverSide, around, upsets>>

Seen == IF section = Empty THEN AllAir ELSE section.blocks

\* A later update of a place replaces the earlier one.
WithUpdate(updates, place, kind) ==
  [p \in DOMAIN updates \union {place} |-> IF p = place THEN kind ELSE updates[p]]

\* With too many updates the section is no longer known.
Keep(updates) ==
  IF Cardinality(DOMAIN updates) > MaxAirUpdates
  THEN section' = Unseen /\ airUpdates' = NoUpdates
  ELSE airUpdates' = updates /\ UNCHANGED section

\* onUpdateBlock.
Update(place, kind) ==
  IF section = Unseen THEN UNCHANGED <<section, airUpdates>>
  ELSE IF section = Empty /\ ~registry
  THEN Keep(WithUpdate(airUpdates, place, kind))
  ELSE /\ section' = Full([Seen EXCEPT ![place] = kind])
       /\ UNCHANGED airUpdates

\* A block is set, broken by the bot or by others; who dug there digs no more.
Changes(place, kind) ==
  /\ world' = [world EXCEPT ![place] = kind]
  /\ Update(place, kind)
  /\ digs' = IF digs = place THEN Nowhere ELSE digs

BlockChanges ==
  /\ \/ /\ Upset
        /\ \E place \in Places, kind \in Kinds \union {Air} :
             kind # world[place] /\ Changes(place, kind)
     \/ UNCHANGED upsets /\ digs # Nowhere /\ Changes(digs, Air)
  /\ UNCHANGED <<mode, registry, sectionAsked, hands, uses, usingItem, creature, blocked>>

\* onEntity, and a menu or a lost inventory packet.
Surroundings ==
  /\ Upset
  /\ \/ creature' = ~creature /\ UNCHANGED blocked
     \/ blocked' = ~blocked /\ UNCHANGED creature
  /\ UNCHANGED <<mode, view, hands, serverSide, world>>

\* observeMetadata.
TellsOfUse ==
  /\ usingItem' = ~usingItem
  /\ usingItem' => uses
  /\ UNCHANGED <<mode, view, hands, digs, uses, around, upsets>>

-----------------------------------------------------------------------------
(***************************************************************************)
(* The button.                                                             *)
(***************************************************************************)

\* Faulty: what was begun is just forgotten.
LeavesNothing == queued' = queued

\* configure, for a mining.
LeavesBlock == queued' = queued \union ({mining.at} \ {Nowhere})

\* configure. The release of an item is sent at once, or by a later tick.
Configures ==
  /\ \E m \in {"off", "left", "right"} \ {mode} : mode' = m
  /\ Upset
  /\ LET pending == release \/ (mode = "right" /\ useRequested)
     IN \/ release' = FALSE /\ uses' = (uses /\ ~pending)
        \/ pending /\ release' = TRUE /\ UNCHANGED uses
  /\ LeavesBlock
  /\ mining' = NoMining /\ useRequested' = FALSE /\ useRest' = 0
  /\ sectionAsked' = IF mode' = "off" THEN NotAsked ELSE sectionAsked
  /\ IF mode' # "off" /\ ~registry THEN NamesBlocks ELSE UNCHANGED <<registry, section, airUpdates>>
  /\ UNCHANGED <<unsaid, digs, usingItem, around>>

\* What is in front: nothing, as far as the view goes, or the nearest block.
Ahead(blocks) == {p \in Places : blocks[p] # Air /\ \A q \in Places : q < p => blocks[q] = Air}
Target == Ahead(Seen)

Inactive == mode = "off" \/ ~registry

\* tickInput: the aborts that wait go out first and all the packet carries is
\* done, or nothing is and they wait on.
Packet(went, aborts, start) ==
  /\ queued' = IF went THEN {} ELSE queued
  /\ digs' = IF ~went THEN digs
             ELSE IF start # Nowhere THEN start
             ELSE IF digs \in queued \union aborts THEN Nowhere ELSE digs

JustSends(went, using) ==
  /\ Packet(went, {}, Nowhere) /\ uses' = using
  /\ UNCHANGED <<mining, useRequested, useRest, unsaid>>

\* A creature is in front: it is hit or used, and a mining ends with the packet.
MeetsCreature(went, using) ==
  /\ Packet(went, {mining.at} \ {Nowhere}, Nowhere) /\ uses' = using
  /\ mining' = IF went THEN NoMining ELSE mining
  /\ UNCHANGED <<useRequested, useRest, unsaid>>

UsesItem(went, using) ==
  /\ Packet(went, {}, Nowhere) /\ uses' = (using \/ went)
  /\ IF went THEN useRequested' = TRUE /\ useRest' = UseTime ELSE UNCHANGED <<useRequested, useRest>>
  /\ UNCHANGED <<mining, unsaid>>

\* The block in front is another than the one that is dug: that one is given up
\* whether or not the packet that says so goes out.
Digs(went, using) ==
  LET other == /\ mining.at # Nowhere
               /\ ~\E p \in Target : mining.at = p /\ mining.kind = Seen[p]
      going == IF other THEN NoMining ELSE mining
      aborts == IF other THEN {mining.at} ELSE {}
      begun == {[at |-> p, kind |-> Seen[p], left |-> DigTime] : p \in Target}
  IN /\ IF going = NoMining /\ Target # {}
        THEN \E new \in begun :
               /\ mining' = IF went THEN new ELSE NoMining
               /\ Packet(went, aborts, new.at)
        ELSE /\ mining' = IF went /\ going # NoMining /\ going.left = 0
                          THEN [going EXCEPT !.left = RetryTime] ELSE going
             /\ Packet(went, aborts, Nowhere)
     /\ unsaid' = IF went /\ mining' # going /\ going = NoMining THEN FALSE
                  ELSE unsaid \/ (other /\ ~went)
     /\ uses' = using
     /\ UNCHANGED <<useRequested, useRest>>

\* tick: what the button does in this packet. A release that cannot be sent stops
\* it, as does a world that is not known.
Acts(went, using) ==
  IF release' \/ Inactive \/ blocked \/ section = Unseen THEN JustSends(went, using)
  ELSE IF creature THEN MeetsCreature(went, using)
  ELSE IF mode = "left" THEN Digs(went, using)
  ELSE IF usingItem \/ useRest > 0 THEN JustSends(went, using)
  ELSE UsesItem(went, using)

\* requestSections: a section that is not known is asked for, now and then.
Requests ==
  sectionAsked' = IF section = Unseen /\ sectionAsked \in {NotAsked, RequestTime}
                  THEN 0 ELSE sectionAsked

MouseTick ==
  /\ \E flushed, went \in BOOLEAN :
       /\ flushed \/ release
       /\ upsets' = upsets + (IF flushed THEN 0 ELSE 1) + (IF went THEN 0 ELSE 1)
       /\ upsets' <= MaxUpsets
       /\ release' = ~flushed
       /\ Acts(went, uses /\ ~(release /\ flushed))
  /\ IF release' \/ Inactive THEN UNCHANGED sectionAsked ELSE Requests
  /\ UNCHANGED <<mode, registry, section, airUpdates, usingItem, around>>

MouseElapse ==
  /\ mining' = [mining EXCEPT !.left = IF @ > 0 THEN @ - 1 ELSE @]
  /\ useRest' = IF useRest > 0 THEN useRest - 1 ELSE useRest
  /\ sectionAsked' = IF sectionAsked \in 0..RequestTime - 1 THEN sectionAsked + 1 ELSE sectionAsked
  /\ UNCHANGED <<mode, registry, section, airUpdates, useRequested, release, queued, unsaid,
                 serverSide, around, upsets>>

MouseNext ==
  \/ StartGame \/ Teleported \/ LevelChunk \/ Subchunk \/ BlockChanges
  \/ Surroundings \/ TellsOfUse \/ Configures \/ MouseTick \/ MouseElapse

MouseSpec == MouseInit /\ [][MouseNext]_mouseVars

-----------------------------------------------------------------------------
(***************************************************************************)
(* What must hold.                                                         *)
(***************************************************************************)

\* What the bot takes for the world is the world: with the updates that still
\* wait for the names of the blocks, a section it knows is the server's, in
\* whatever order chunks, answers, updates, overflow and the names came.
SeesTheWorld ==
  section # Unseen =>
    world = IF section = Empty THEN Spread(airUpdates) ELSE section.blocks

\* The server's player holds no button the bot has let go of: what it digs at is
\* what the bot digs or is about to abort, what it uses the bot uses or is about
\* to release, although packets fail and modes change between - but for an abort
\* that was lost with the packet of a block that changed.
NothingLeftHeld ==
  /\ digs # Nowhere => mining.at = digs \/ digs \in queued \/ unsaid
  /\ uses => useRequested \/ release

\* Bot and server agree on the world and on the player's hands.
AgreesWithServer == SeesTheWorld /\ NothingLeftHeld
=============================================================================
