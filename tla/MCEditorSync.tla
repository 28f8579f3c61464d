---------------------------- MODULE MCEditorSync ----------------------------
(* The instances of DeviceSync and ActivitySync that TLC checks: what the    *)
(* editor changes is brought to the hub.  Activities have two keys, one of   *)
(* them maybe missing from the sort table, and one bound button; devices two *)
(* commands, out of order or one of them without a place.  The two share     *)
(* nothing but the run: a behaviour is of one of them, `turn`, and the other *)
(* rests in an initial state.                                                *)
EXTENDS DeviceSync

CONSTANTS c1, c2, n1, n2, none, some, ok, Commands, Names, Scripts, Empty, Buttons, Bases,
          MaxKey

VARIABLES turn, ahub, x1, abaseline, aedited, astatus, aplan, writes, seen, live, session,
          remap, aedits, asyncs, atrouble, moved, kept, aodd

activity == <<ahub, x1, abaseline, aedited, astatus, aplan, writes, seen, live, session,
              remap, aedits, asyncs, atrouble, moved, kept, aodd>>

Act == INSTANCE ActivitySync WITH
  MaxId <- MaxKey, hub <- ahub, baseline <- abaseline, edited <- aedited, status <- astatus,
  plan <- aplan, edits <- aedits, syncs <- asyncs, trouble <- atrouble, odd <- aodd

ASSUME ActivityBounds == Act!EditBounds /\ Act!BasesAreActivities

MCStarts == {(1 :> 2) @@ (2 :> 1), (1 :> 0) @@ (2 :> 1)}

MCBases ==
  LET Favorite(c) == Act!Favorite(c)
      Macro(n)    == Act!Macro(n, some)
      keys  == {(1 :> Favorite(c1)) @@ (2 :> Favorite(c2)),
                (1 :> Macro(n1)) @@ (2 :> Favorite(c1)),
                (1 :> Macro(n1)) @@ (2 :> Macro(n2))}
      binds == {ok :> Act!Command(c1), ok :> Act!RunMacro(1)}
      bases == [keys : keys, order : {<<1, 2>>, <<2, 1>>, <<1>>}, binds : binds]
  IN {a \in bases : a.binds[ok].is = "macro" => 1 \in Act!Macros(a)}

MCInit ==
  /\ turn \in {"activity", "device"} /\ Act!Init /\ Init
  /\ turn = "activity" => events /\ 0 \notin Range(cache.place)
  /\ turn = "device" => x1 /\ ahub = CHOOSE a \in MCBases : TRUE

Activity == turn = "activity" /\ UNCHANGED <<turn, vars>>
Device   == turn = "device" /\ UNCHANGED <<turn, activity>>

MCNext ==
  \/ Activity /\ Act!Edit
  \/ Activity /\ Act!Foreign
  \/ Activity /\ Act!RequestSync
  \/ Activity /\ Act!Preflight
  \/ Activity /\ Act!Step
  \/ Activity /\ Act!Fail
  \/ Activity /\ Act!Write
  \/ Activity /\ Act!Map
  \/ Activity /\ Act!Done
  \/ Activity /\ Act!Rebase
  \/ Device /\ Edit
  \/ Device /\ Foreign
  \/ Device /\ RequestSync
  \/ Device /\ ClearForSync
  \/ Device /\ ReadForSync
  \/ Device /\ WriteField
  \/ Device /\ FetchPayload
  \/ Device /\ RenameCommand
  \/ Device /\ WritePayload
  \/ Device /\ DeleteCommand
  \/ Device /\ Refused
  \/ Device /\ ClaimForSync
  \/ Device /\ \E w \in Writers : Save(w)
  \/ Device /\ \E w \in Writers : Register(w)
  \/ Device /\ ServiceClears
  \/ Device /\ ServiceClaims
  \/ Device /\ Done
  \/ Device /\ Rebase

MCSpec == MCInit /\ [][MCNext]_<<turn, vars, activity>>

\* A sync of an activity that reports success left on the hub what the editor
\* showed (ActivitySync!SyncedAsEdited).
SyncedAsEdited == Act!SyncedAsEdited

\* No favorite that a sync found and was to keep disappears from the hub
\* (ActivitySync!NothingElseLost).
NothingElseLost == Act!NothingElseLost
=============================================================================
