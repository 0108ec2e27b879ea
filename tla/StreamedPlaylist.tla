-------------------------- MODULE StreamedPlaylist ---------------------------
(***************************************************************************)
(* What a peer promises of its playlist, without the threads, the shared   *)
(* runner and the completion states by which it keeps the promise:         *)
(*   - there is one stream at a time, and it is of the current entry;      *)
(*   - it begins at a number that no segment was made under before;        *)
(*   - it is stopped only by a skip, or when the playlist is at its end;   *)
(*   - the playlist moves on by itself only from an entry that was made to *)
(*     the end of its file and heard to its end;                           *)
(*   - entries come and go by the user's commands only.                    *)
(*                                                                         *)
(* OrderlyBaton.tla is shown to implement this module.                     *)
(***************************************************************************)
EXTENDS Integers, SequencesExt

CONSTANTS Entries,      \* what the user may queue
          Numbers,      \* the numbers a stream may begin at
          SegsPerFile   \* how many segments a file has

VARIABLES
  list,      \* the playlist
  at,        \* the position of its current entry; 0 is none
  air,       \* the last stream begun: its entry, its first number, and how
             \* many segments were made of it
  live,      \* that stream was begun and not stopped
  ended,     \* and it was made to the end of its file
  used,      \* the numbers streams have begun at
  next,      \* one above the number of the last segment
  heard,     \* the streams, by their first numbers, known to be heard to the end
  skipping   \* the user is about to move on

playlist == <<list, at>>
stream == <<air, live, ended, used, next>>
svars == <<list, at, air, live, ended, used, next, heard, skipping>>

Silence == [entry |-> 0, seq |-> 0, sent |-> 0]

Later(a, b) == IF a > b THEN a ELSE b

Following == IF at > 0 /\ at < Len(list) THEN at + 1 ELSE 0
Preceding == IF at > 1 THEN at - 1 ELSE 0

Init ==
  /\ list = << >> /\ at = 0
  /\ air = Silence /\ live = FALSE /\ ended = FALSE
  /\ used = {} /\ next = 0
  /\ heard = {} /\ skipping = FALSE

-----------------------------------------------------------------------------
(* The user edits the list, but not under the stream's feet, or skips.     *)

Add(e) ==
  /\ list' = Append(list, e)
  /\ at' = IF at = 0 THEN Len(list) + 1 ELSE at
  /\ UNCHANGED <<stream, heard, skipping>>

TakeOut(i) ==
  /\ i \in DOMAIN list \ {at}
  /\ list' = RemoveAt(list, i)
  /\ at' = IF at > i THEN at - 1 ELSE at
  /\ UNCHANGED <<stream, heard, skipping>>

Clear ==
  /\ at = 0
  /\ list' = << >>
  /\ UNCHANGED <<at, stream, heard, skipping>>

BeginSkip ==
  /\ ~skipping /\ skipping' = TRUE
  /\ UNCHANGED <<playlist, stream, heard>>

\* The stream is stopped first. A segment it was at may still be made.
EndSkip ==
  /\ skipping /\ ~live
  /\ skipping' = FALSE
  /\ at' \in {Following, Preceding}
  /\ UNCHANGED <<list, stream, heard>>

-----------------------------------------------------------------------------
(* The stream.                                                             *)

\* The last one is over, and n is beyond all that was made of it.
Begin(n) ==
  /\ at > 0 /\ ~skipping
  /\ ~live \/ ended
  /\ n \notin used /\ n >= next
  /\ air' = [entry |-> list[at], seq |-> n, sent |-> 0]
  /\ live' = TRUE /\ ended' = FALSE
  /\ used' = used \union {n} /\ next' = n
  /\ UNCHANGED <<playlist, heard, skipping>>

Make ==
  /\ ~ended /\ air.sent < SegsPerFile
  /\ air' = [air EXCEPT !.sent = @ + 1]
  /\ next' = Later(next, air.seq + air.sent + 1)
  /\ UNCHANGED <<playlist, live, ended, used, heard, skipping>>

\* After an error the file is made from its beginning again.
Again ==
  /\ live /\ ~ended
  /\ air' = [air EXCEPT !.sent = 0]
  /\ UNCHANGED <<playlist, live, ended, used, next, heard, skipping>>

End ==
  /\ live /\ air.sent = SegsPerFile
  /\ ended' = TRUE
  /\ UNCHANGED <<playlist, air, live, used, next, heard, skipping>>

Stop ==
  /\ skipping \/ at = 0
  /\ live' = FALSE
  /\ UNCHANGED <<playlist, air, ended, used, next, heard, skipping>>

-----------------------------------------------------------------------------
(* The playlist moves on.                                                  *)

Hear(n) ==
  /\ n \in used
  /\ heard' = heard \union {n}
  /\ UNCHANGED <<playlist, stream, skipping>>

Forget(n) ==
  /\ heard' = heard \ {n}
  /\ UNCHANGED <<playlist, stream, skipping>>

MoveOn ==
  /\ at > 0 /\ ~skipping
  /\ air.entry = list[at] /\ ended /\ air.seq \in heard
  /\ at' = Following
  /\ UNCHANGED <<list, stream, heard, skipping>>

Next ==
  \/ \E e \in Entries : Add(e)
  \/ \E i \in DOMAIN list : TakeOut(i)
  \/ Clear
  \/ BeginSkip
  \/ EndSkip
  \/ \E n \in Numbers : Begin(n) \/ Hear(n) \/ Forget(n)
  \/ Make
  \/ Again
  \/ End
  \/ Stop
  \/ MoveOn

Spec == Init /\ [][Next]_svars
=============================================================================
