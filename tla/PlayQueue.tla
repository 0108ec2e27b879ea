----------------------------- MODULE PlayQueue ------------------------------
(***************************************************************************)
(* The playlist of one peer under any sequence of its operations, in the   *)
(* order in which their lock sections run. An entry is the identity of one *)
(* APPEND: the same file queued twice gives two entries. The names are     *)
(* such that a module about the peers' playlists can extend this one too.  *)
(***************************************************************************)
EXTENDS QueueOps

CONSTANTS Entries,   \* the entries that may be queued
          MaxLen     \* bound: the longest playlist

ASSUME MaxLenAssumption == MaxLen \in Nat \ {0}

VARIABLE playlist

PlaylistOK == playlist \in [items : Seq(Entries), cursor : Nat]

Playlists == {s \in UNION {[1 .. n -> Entries] : n \in 0 .. MaxLen} : IsInjective(s)}

-----------------------------------------------------------------------------
PlaylistInit == playlist = EmptyQueue

AppendOne(e) ==
  /\ Len(playlist.items) < MaxLen
  /\ e \notin EntriesOf(playlist)
  /\ playlist' = AppendEntry(playlist, e)

RemoveOne(i) == i \in Positions(playlist) /\ playlist' = RemoveEntry(playlist, i)

ClearAll == playlist' = EmptyQueue

\* A playlist received from another peer takes the place of this one.
ReplaceAllEntries(s) == playlist' = ReplaceEntries(playlist, s)

MoveNext == playlist' = Advance(playlist)

MovePrevious == playlist' = Rewind(playlist)

Edit == (\E e \in Entries : AppendOne(e)) \/ (\E i \in 1 .. MaxLen : RemoveOne(i))

PlaylistNext ==
  \/ Edit
  \/ ClearAll
  \/ \E s \in Playlists : ReplaceAllEntries(s)
  \/ MoveNext
  \/ MovePrevious

PlaylistSpec == PlaylistInit /\ [][PlaylistNext]_playlist

-----------------------------------------------------------------------------
\* The cursor denotes an entry or nothing, whatever was removed or received:
\* Head never reads outside the slice (Remove, ReplaceItems, Append).
CursorInRange == playlist.cursor \in 0 .. Len(playlist.items)

\* Appending and removing other entries never changes what is playing: the
\* cursor follows its entry (Append, Remove).
EditKeepsCurrent ==
  [][ Edit /\ HasCurrent(playlist) /\ Current(playlist) \in EntriesOf(playlist')
        => HasCurrent(playlist') /\ Current(playlist') = Current(playlist) ]_playlist
=============================================================================
