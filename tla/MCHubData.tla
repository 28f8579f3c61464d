----------------------------- MODULE MCHubData -----------------------------
(* What the cache holds of the hub, from both sides: how the pages of a      *)
(* table are put together (EntityTables.tla), and how the edits that are     *)
(* made straight on the hub keep hub and cache in step (HubWrites.tla).      *)
(* They share nothing but the run: a behaviour is of one of them, `turn`,    *)
(* and the other rests in its initial state.                                 *)
EXTENDS HubWrites, TLC

CONSTANTS Entities, MaxVersion, MaxReads, MaxBreaks

ASSUME EntitiesAreNamed == "none" \notin Entities

VARIABLES turn, tkind, thub, twire, tburst, tqueue, tpending, tbuffer, tlast, ttable, tknown,
          tcomplete, tcut, tstrayed, treads, tbreaks

tables == <<tkind, thub, twire, tburst, tqueue, tpending, tbuffer, tlast, ttable, tknown,
            tcomplete, tcut, tstrayed, treads, tbreaks>>

Tab == INSTANCE EntityTables WITH
  Kinds <- {"buttons", "favorites", "commands", "macros", "map"}, MaxTrouble <- MaxBreaks,
  kind <- tkind, hub <- thub, wire <- twire, burst <- tburst, queue <- tqueue,
  pending <- tpending, buffer <- tbuffer, last <- tlast, table <- ttable, known <- tknown,
  complete <- tcomplete, cut <- tcut, strayed <- tstrayed, reads <- treads, trouble <- tbreaks

\* An activity of two favorites.
MCStarts   == {{1, 2}}
MCSymmetry == Permutations(Threads)

MCInit ==
  /\ turn \in {"writes", "tables"} /\ Init /\ Tab!Init
  /\ turn = "writes" => tkind = "map"
  /\ turn = "tables" => version = "X1" /\ has = {}

Writes == turn = "writes" /\ UNCHANGED <<turn, tables>>
Reads  == turn = "tables" /\ UNCHANGED <<turn, vars>>

MCNext ==
  \/ \E t \in Threads :
       \/ Writes /\ \E a \in Acts, d \in Devs : AddDevice(t, a, d)
       \/ Writes /\ \E a \in Acts, d \in Devs : AddFavorite(t, a, d)
       \/ Writes /\ \E a \in Acts, d \in Devs : BindButton(t, a, d)
       \/ Writes /\ \E a \in Acts, ids \in Orders : ReorderFavorites(t, a, ids)
       \/ Writes /\ \E a \in Acts, id \in FavIds : DeleteFavorite(t, a, id)
       \/ Writes /\ \E d \in Devs : DeleteDevice(t, d)
       \/ Writes /\ \E ids \in Sorts : SortDevices(t, ids)
       \/ Writes /\ Erase(t)
       \/ Writes /\ MapRead(t)
       \/ Writes /\ ConfirmMembers(t)
       \/ Writes /\ \E key \in {"on", "off"} : FetchMacro(t, key)
       \/ Writes /\ \E key \in {"on", "off"} : SaveMacro(t, key)
       \/ Writes /\ AddDeviceEnds(t)
       \/ Writes /\ ReadOrder(t)
       \/ Writes /\ MapFavorite(t)
       \/ Writes /\ DropFavorite(t)
       \/ Writes /\ StageOrder(t)
       \/ Writes /\ CommitFavorites(t)
       \/ Writes /\ WriteButton(t)
       \/ Writes /\ CommitButton(t)
       \/ Writes /\ DropDevice(t)
       \/ Writes /\ RefreshActivities(t)
       \/ Writes /\ \E a \in Acts : ConfirmActivity(t, a)
       \/ Writes /\ DeleteEnds(t)
       \/ Writes /\ WriteSort(t)
       \/ Writes /\ RefreshDevices(t)
       \/ Writes /\ EraseAll(t)
  \/ Writes /\ \E a \in Acts : Read(a)
  \/ \E e \in Entities :
       \/ Reads /\ Tab!AskTable(e)
       \/ Reads /\ Tab!AskSingle(e)
       \/ Reads /\ Tab!Clear(e)
       \/ Reads /\ Tab!ClearButtons(e)
       \/ Reads /\ Tab!Edit(e)
  \/ Reads /\ \E p \in Tab!Arriving : Tab!ButtonsPage(p)
  \/ Reads /\ \E p \in Tab!Arriving : Tab!CommandsFirst(p)
  \/ Reads /\ \E p \in Tab!Arriving : Tab!CommandsLater(p)
  \/ Reads /\ \E p \in Tab!Arriving : Tab!CommandsSingle(p)
  \/ Reads /\ \E p \in Tab!Arriving : Tab!MacrosPage(p)
  \/ Reads /\ \E p \in Tab!Arriving : Tab!MapPage(p)
  \/ Reads /\ Tab!IdleEnd
  \/ Reads /\ Tab!BreakOff
  \/ Reads /\ Tab!Restart

MCSpec == MCInit /\ [][MCNext]_<<turn, vars, tables>>

\* A table that a getter hands out as complete is one answer of the hub, whole
\* and unmixed (EntityTables!TableIsWhole).
TableIsWhole == Tab!TableIsWhole
=============================================================================
