------------------------------ MODULE QueueOps ------------------------------
(***************************************************************************)
(* p2p.Queue (peer_service/internal/p2p/queue.go) as a value: the playlist *)
(* and the cursor to its current entry. Every method runs under q.mu, so   *)
(* each is one operator on the whole queue.                                *)
(*                                                                         *)
(* Positions count from 1 here and from 0 in the code; cursor 0 stands for *)
(* the code's -1, "nothing playing".                                       *)
(***************************************************************************)
EXTENDS Integers, SequencesExt

\* NewQueue, Clear
EmptyQueue == [items |-> << >>, cursor |-> 0]

Positions(q) == 1 .. Len(q.items)
EntriesOf(q) == {q.items[i] : i \in Positions(q)}

\* Head: its two results, the entry and whether there is one.
HasCurrent(q) == q.cursor \in Positions(q)
Current(q) == q.items[q.cursor]

\* Append: an idle queue starts at the new entry.
AppendEntry(q, e) ==
  [items  |-> Append(q.items, e),
   cursor |-> IF q.cursor = 0 THEN Len(q.items) + 1 ELSE q.cursor]

\* Mutant: the cursor is cut off at the end, but does not follow its entry.
RemoveEntryCutOff(q, i) ==
  LET rest == RemoveAt(q.items, i)
  IN  [items  |-> rest,
       cursor |-> IF q.cursor > Len(rest) THEN q.cursor - 1 ELSE q.cursor]

\* Remove: the cursor moves down with its entry; when its own entry goes it
\* stays in place, on the successor, or moves to the new last entry.
RemoveEntry(q, i) ==
  LET rest == RemoveAt(q.items, i)
  IN  [items  |-> rest,
       cursor |-> IF q.cursor > i \/ q.cursor > Len(rest)
                  THEN q.cursor - 1 ELSE q.cursor]

\* Mutant: the position is kept whatever is received.
ReplaceEntriesOnly(q, entries) == [items |-> entries, cursor |-> q.cursor]

\* ReplaceItems with updateCursorAfterMutation: the position is kept, whatever
\* entry it now denotes, cut off at the end; an idle queue starts at the front.
ReplaceEntries(q, entries) ==
  [items  |-> entries,
   cursor |-> IF entries = << >> THEN 0
              ELSE IF q.cursor = 0 THEN 1
              ELSE IF q.cursor > Len(entries) THEN Len(entries)
              ELSE q.cursor]

\* AdvanceCursor and its second result.
CanAdvance(q) == q.cursor > 0 /\ q.cursor < Len(q.items)
Advance(q) ==
  [items |-> q.items, cursor |-> IF CanAdvance(q) THEN q.cursor + 1 ELSE 0]

\* RewindCursor and its second result.
CanRewind(q) == q.cursor > 1
Rewind(q) ==
  [items |-> q.items, cursor |-> IF CanRewind(q) THEN q.cursor - 1 ELSE 0]

\* SetItemAtCursor
SetCurrent(q, e) ==
  IF HasCurrent(q) THEN [q EXCEPT !.items[q.cursor] = e] ELSE q
=============================================================================
