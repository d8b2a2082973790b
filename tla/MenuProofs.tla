------------------------------ MODULE MenuProofs ------------------------------
(* What holds, for every value of the constants, of three programs that share *)
(* nothing but the plugin they belong to and need no invariant of each other: *)
(* the music player (Music), the FTP server (Ftpd) and the choice of a        *)
(* firmware (TimeMachine).  The definitions of Ftpd and TimeMachine that all  *)
(* modules have carry their names.                                            *)
EXTENDS Music, Ftpd, TimeMachine, FiniteSetTheorems, WellFoundedInduction, TLAPS

------------------------------------------------------------------------------
(* The music player: the handshake of pause and resume, the resumed position  *)
(* and the order of the songs, for every list of songs.                       *)

(* Where the threads are when.                                                *)
Placed ==
    /\ dec.at = "none" <=> pl.at \notin {"loop", "clean"}
    /\ pl.at = "loop" => music.flags # "DONE"
    /\ pl.at = "loop" /\ music.flags = "CLEANED_UP" => dec.at = "cleaned"
    /\ pl.at = "clean" => music.flags # "PLAYING"
    /\ pl.at = "name" => pl.song \in Songs /\ (music.random \/ pl.lost)
    /\ ui.at = "starting" => ~music.random

(* The codec is set up before anything plays, and stays so.                   *)
Codec ==
    /\ hw.init <=> hw.codec # "none"
    /\ pl.at = "none" => hw.codec # "held"
    /\ pl.at = "unpause" => ~hw.init
    /\ pl.at \in {"start", "wait_ms", "loop", "clean", "ms_ready"} => hw.init
    /\ music.pause = "PLAYING" \/ ui.is_paused \/ ui.at = "saw_PLAYING" => hw.init

(* PauseShown, also while a key is handled.                                   *)
Agreed ==
    hw.codec # "freed" =>
        /\ ui.at = "starting" => ~ui.is_paused
        /\ ui.at # "starting" /\ pl.at # "none" =>
               (ui.is_paused <=> music.pause \in {"PAUSE_SONG", "PAUSED"})

(* Every song that is opened has a name.                                      *)
HasName ==
    /\ pl.at \in {"none", "choose", "name", "name_in_turn"} \/ music.file \in Songs
    /\ music.file = -1 =>
           /\ pl.at = "none" \/ ms
           /\ ~music.resume
           /\ music.index \in Songs
           /\ pl.at \in {"name", "name_in_turn"} => pl.song \in Songs

(* In turn index is one song ahead of the one that has its name.              *)
Ordered ==
    /\ pl.at = "clean" /\ music.resume => pl.lost
    /\ ~pl.lost /\ ~music.random =>
           /\ pl.at = "name_in_turn" => pl.song = music.index
           /\ \/ pl.at \in {"title", "unpause", "start", "wait_ms", "loop", "ms_ready"}
              \/ pl.at = "choose" /\ music.resume
              => music.index = Following(music.file) \/ Count = 1

(* The song that is owed is on its way.                                       *)
Owed ==
    pl.want # -1 =>
        /\ ms /\ ~music.random
        /\ pl.at \notin {"none", "name", "wait_ms", "loop"}
        /\ pl.at = "clean" => ~music.resume
        /\ pl.at \in {"clean", "ms_ready", "choose"} =>
               IF music.resume \/ music.index \notin Songs THEN music.file = pl.want ELSE music.index = pl.want
        /\ pl.at = "name_in_turn" => pl.want = IF pl.song \in Songs THEN pl.song ELSE music.file
        /\ pl.at \in {"title", "unpause", "start"} => music.file = pl.want

(* offset is a place in the song that has its name.                           *)
HeardNext(pos) == heard.song = music.file /\ pos \in {heard.frame, heard.frame + 1}
Offsets ==
    /\ music.offset = 0 \/ HeardNext(music.offset)
    /\ dec.at = "play" => dec.pos \in {0, 1} \/ HeardNext(dec.pos)
    /\ pl.at \in {"none", "name", "name_in_turn", "clean"} => music.offset = 0
    /\ pl.at \in {"choose", "title", "unpause", "start", "wait_ms", "ms_ready"} =>
         music.resume \/ music.offset = 0
    /\ pl.at = "loop" /\ dec.at = "cleaned" => music.resume \/ music.offset = 0

IInv ==
    /\ TypeOK /\ Placed /\ Codec /\ Agreed /\ PausedQuiet
    /\ HasName /\ Ordered /\ Owed /\ Offsets /\ RoundDistinct

LEMMA CountOK == Count \in Nat /\ Count > 0 /\ Frames \in Nat /\ Frames > 0 /\ MaxMishaps \in Nat
BY MusicAssumption

LEMMA IndexOK ==
    /\ 0 \in Songs /\ 0 \in Indices
    /\ Songs \subseteq Indices /\ Songs \subseteq SongOrNone
    /\ -1 \in SongOrNone /\ -1 \in Indices
    /\ \A i \in Indices : i \in Int /\ i < Count
    /\ \A i \in SongOrNone : i \in Int /\ i < Count /\ i \in Indices /\ (i # -1 => i \in Songs)
    /\ \A i \in Songs : i \in Int /\ 0 <= i /\ i < Count
BY CountOK DEF Songs, Indices, SongOrNone

LEMMA BlankOK == Blank \in Orders
BY IndexOK DEF Blank, Orders

(* The fields of the record that a step does not name stay as they were.      *)
LEMMA ResetFacts ==
    ASSUME NEW m \in PlaylistRecord
    PROVE  LET n == ResetPlaylist(m)
           IN  /\ n \in PlaylistRecord
               /\ n.index = 0 /\ n.random_index = 0 /\ n.random_played = Blank
               /\ n.random = m.random /\ n.pause = m.pause /\ n.change_track = m.change_track
               /\ n.flags = m.flags /\ n.resume = m.resume /\ n.offset = m.offset /\ n.file = m.file
<1>. DEFINE r == [m EXCEPT !.index = 0, !.random_index = 0]
<1>1. ResetPlaylist(m) = [r EXCEPT !.random_played = Blank]
  BY DEF ResetPlaylist, Rewind
<1>2. /\ r \in PlaylistRecord /\ r.index = 0 /\ r.random_index = 0
      /\ r.random = m.random /\ r.pause = m.pause /\ r.change_track = m.change_track
      /\ r.flags = m.flags /\ r.resume = m.resume /\ r.offset = m.offset /\ r.file = m.file
  <2>1. 0 \in Indices /\ 0 \in 0 .. Count
    BY IndexOK, CountOK
  <2>2. r \in PlaylistRecord
    BY <2>1 DEF PlaylistRecord
  <2>. QED
    BY <2>2 DEF PlaylistRecord
<1>. HIDE DEF r
<1>3. [r EXCEPT !.random_played = Blank] \in PlaylistRecord
  BY <1>2, BlankOK DEF PlaylistRecord
<1>. QED
  BY <1>1, <1>2, <1>3 DEF PlaylistRecord

LEMMA PauseTakenFacts ==
    ASSUME NEW m \in PlaylistRecord
    PROVE  LET n == PauseTaken(m)
           IN  /\ n \in PlaylistRecord
               /\ n.pause = IF m.pause = "PAUSE_SONG" THEN "PAUSED"
                            ELSE IF m.pause = "RESUME_SONG" THEN "PLAYING" ELSE m.pause
               /\ n.index = m.index /\ n.random_index = m.random_index /\ n.random_played = m.random_played
               /\ n.random = m.random /\ n.change_track = m.change_track
               /\ n.flags = m.flags /\ n.resume = m.resume /\ n.offset = m.offset /\ n.file = m.file
BY DEF PauseTaken, PlaylistRecord

LEMMA StepBackFacts ==
    ASSUME NEW m \in PlaylistRecord
    PROVE  LET n == StepBack(m)
           IN  /\ n \in PlaylistRecord
               /\ n.index = IF m.index - 2 < 0 THEN m.index - 2 + Count ELSE m.index - 2
               /\ n.index \in Songs \/ Count = 1 \/ m.index \notin Songs
               /\ n.pause = m.pause /\ n.random_index = m.random_index /\ n.random_played = m.random_played
               /\ n.random = m.random /\ n.change_track = m.change_track
               /\ n.flags = m.flags /\ n.resume = m.resume /\ n.offset = m.offset /\ n.file = m.file
<1>1. m.index \in Int /\ m.index < Count
  BY IndexOK DEF PlaylistRecord
<1>. DEFINE i == IF m.index - 2 < 0 THEN m.index - 2 + Count ELSE m.index - 2
<1>2. i \in Indices
  BY <1>1, CountOK DEF Indices
<1>3. i \in Songs \/ Count = 1 \/ m.index \notin Songs
  BY <1>1, CountOK DEF Songs
<1>4. StepBack(m) = [m EXCEPT !.index = i]
  BY DEF StepBack
<1>. HIDE DEF i
<1>5. /\ [m EXCEPT !.index = i] \in PlaylistRecord
      /\ [m EXCEPT !.index = i].index = i
  BY <1>2 DEF PlaylistRecord
<1>. QED
  BY <1>3, <1>4, <1>5 DEF i, PlaylistRecord

LEMMA TrackChangedFacts ==
    ASSUME NEW m \in PlaylistRecord, m.index \in Songs \/ Count = 1
    PROVE  LET n == TrackChanged(m)
           IN  /\ n \in PlaylistRecord
               /\ n.index = IF m.change_track # -1 THEN m.index
                            ELSE IF m.index - 2 < 0 THEN m.index - 2 + Count ELSE m.index - 2
               /\ n.index \in Songs \/ Count = 1
               /\ n.change_track = 0 /\ n.offset = 0 /\ n.resume = FALSE
               /\ n.pause = m.pause /\ n.random_index = m.random_index /\ n.random_played = m.random_played
               /\ n.random = m.random /\ n.flags = m.flags /\ n.file = m.file
<1>. DEFINE b == IF m.change_track = -1 THEN StepBack(m) ELSE m
<1>1. TrackChanged(m) = [b EXCEPT !.change_track = 0, !.offset = 0, !.resume = FALSE]
  BY DEF TrackChanged
<1>2. /\ b \in PlaylistRecord
      /\ b.index = IF m.change_track # -1 THEN m.index
                   ELSE IF m.index - 2 < 0 THEN m.index - 2 + Count ELSE m.index - 2
      /\ b.index \in Songs \/ Count = 1
      /\ b.pause = m.pause /\ b.random_index = m.random_index /\ b.random_played = m.random_played
      /\ b.random = m.random /\ b.flags = m.flags /\ b.file = m.file
  BY StepBackFacts
<1>. HIDE DEF b
<1>3. 0 \in 0 .. Frames
  BY CountOK
<1>4. [b EXCEPT !.change_track = 0, !.offset = 0, !.resume = FALSE] \in PlaylistRecord
  BY <1>2, <1>3 DEF PlaylistRecord
<1>. QED
  BY <1>1, <1>2, <1>4 DEF PlaylistRecord

LEMMA HeldFacts ==
    ASSUME NEW d \in DecoderThread
    PROVE  /\ Held(d) \in DecoderThread
           /\ Held(d).at = d.at /\ Held(d).fd = d.fd /\ Held(d).pos = d.pos /\ Held(d).ret = d.ret
           /\ music.pause = "PAUSE_SONG" => Held(d).suspended = TRUE
           /\ music.pause = "RESUME_SONG" => Held(d).suspended = FALSE /\ Held(d).late = FALSE
           /\ music.pause \notin {"PAUSE_SONG", "RESUME_SONG"} => Held(d) = d
BY DEF Held, DecoderThread

(* Parts of the invariant whose fields a step leaves alone.                   *)
LEMMA RoundSame ==
    ASSUME RoundDistinct, music'.random_index = music.random_index, music'.random_played = music.random_played
    PROVE  RoundDistinct'
BY DEF RoundDistinct

LEMMA RoundNone ==
    ASSUME music'.random_index = 0
    PROVE  RoundDistinct'
BY DEF RoundDistinct

LEMMA TypeFacts ==
    ASSUME IInv
    PROVE  /\ music \in PlaylistRecord /\ pl \in PlaylistThread /\ dec \in DecoderThread /\ ui \in MainThread
           /\ hw \in [init : BOOLEAN, codec : {"none", "held", "freed"}] /\ ms \in BOOLEAN
           /\ heard \in [song : SongOrNone, frame : 0 .. Frames]
           /\ music.index \in Songs \/ Count = 1
BY DEF IInv, TypeOK

LEMMA FieldFacts ==
    ASSUME IInv
    PROVE  /\ music.index \in Int /\ music.index < Count /\ music.file \in Int /\ music.file < Count
           /\ music.file = -1 \/ music.file \in Songs
           /\ music.offset \in 0 .. Frames /\ music.random \in BOOLEAN /\ music.resume \in BOOLEAN
           /\ music.random_index \in 0 .. Count
           /\ music.change_track \in {-1, 0, 1}
           /\ pl.song \in Int /\ pl.song < Count /\ pl.lost \in BOOLEAN
           /\ pl.want = -1 \/ pl.want \in Songs
           /\ dec.pos \in 0 .. Frames + 1 /\ ui.is_paused \in BOOLEAN /\ ui.mishaps \in 0 .. MaxMishaps
           /\ hw.init \in BOOLEAN
           /\ hw.codec \in {"none", "held", "freed"}
           /\ heard.frame \in 0 .. Frames
BY TypeFacts, IndexOK DEF PlaylistRecord, PlaylistThread, DecoderThread, MainThread

LEMMA StickInStep ==
    ASSUME IInv, StickIn
    PROVE  IInv'
<1>ty. /\ music \in PlaylistRecord /\ pl \in PlaylistThread /\ dec \in DecoderThread /\ ui \in MainThread
       /\ hw \in [init : BOOLEAN, codec : {"none", "held", "freed"}]
       /\ heard \in [song : SongOrNone, frame : 0 .. Frames]
       /\ ms \in BOOLEAN /\ (music.index \in Songs \/ Count = 1)
  BY TypeFacts
<1>f. /\ ms' = TRUE
  BY <1>ty DEF StickIn, PlaylistRecord, PlaylistThread, DecoderThread, MainThread
<1>1. /\ UNCHANGED <<music, pl, dec, ui, hw, heard>>
  BY <1>ty DEF StickIn, PlaylistRecord, PlaylistThread, DecoderThread, MainThread
<1>2. TypeOK'
  BY <1>1, <1>f, <1>ty DEF TypeOK
<1>3. Placed'
  BY <1>1, <1>f, FieldFacts DEF IInv, Placed
<1>4. Codec'
  BY <1>1, <1>f, FieldFacts DEF IInv, Codec, Placed
<1>5. Agreed'
  BY <1>1, <1>f, FieldFacts DEF IInv, Agreed, Codec
<1>6. PausedQuiet'
  BY <1>1, <1>f, FieldFacts DEF IInv, PausedQuiet, Placed
<1>7. HasName'
  BY <1>1, <1>f, FieldFacts, IndexOK DEF IInv, HasName, Placed
<1>8. Ordered'
  BY <1>1, <1>f, FieldFacts DEF IInv, Ordered, Placed, HasName, Following
<1>9. Owed'
  BY <1>1, <1>f, FieldFacts DEF IInv, Owed, Placed, HasName, Ordered, Following
<1>10. Offsets'
  BY <1>1, <1>f, FieldFacts DEF IInv, Offsets, Placed, HasName, HeardNext
<1>11. RoundDistinct'
  BY <1>1, <1>f, RoundSame DEF IInv
<1>. QED
  BY <1>2, <1>3, <1>4, <1>5, <1>6, <1>7, <1>8, <1>9, <1>10, <1>11 DEF IInv

LEMMA StickOutStep ==
    ASSUME IInv, StickOut
    PROVE  IInv'
<1>ty. /\ music \in PlaylistRecord /\ pl \in PlaylistThread /\ dec \in DecoderThread /\ ui \in MainThread
       /\ hw \in [init : BOOLEAN, codec : {"none", "held", "freed"}]
       /\ heard \in [song : SongOrNone, frame : 0 .. Frames]
       /\ ms \in BOOLEAN /\ (music.index \in Songs \/ Count = 1)
  BY TypeFacts
<1>1. CASE dec.fd = "open"
  <2>m. ui.mishaps + 1 \in 0 .. MaxMishaps
    BY <1>1, <1>ty, FieldFacts, CountOK DEF StickOut
  <2>f. /\ pl'.at = pl.at /\ pl'.song = pl.song /\ pl'.want = -1 /\ pl'.lost = pl.lost
    BY <1>1, <1>ty DEF StickOut, PlaylistRecord, PlaylistThread, DecoderThread, MainThread
  <2>g. /\ dec'.at = dec.at /\ dec'.suspended = dec.suspended /\ dec'.late = dec.late /\ dec'.fd = "stale"
        /\ dec'.pos = dec.pos /\ dec'.ret = dec.ret
    BY <1>1, <1>ty DEF StickOut, PlaylistRecord, PlaylistThread, DecoderThread, MainThread
  <2>h. /\ ui'.at = ui.at /\ ui'.is_paused = ui.is_paused /\ ui'.mishaps = ui.mishaps + 1
    BY <1>1, <1>ty DEF StickOut, PlaylistRecord, PlaylistThread, DecoderThread, MainThread
  <2>i. /\ ms' = FALSE
    BY <1>1, <1>ty DEF StickOut, PlaylistRecord, PlaylistThread, DecoderThread, MainThread
  <2>1. /\ UNCHANGED <<music, hw, heard>>
        /\ pl.at = "none" \/ music.file # -1
    BY <1>1, <1>ty DEF StickOut, PlaylistRecord, PlaylistThread, DecoderThread, MainThread
  <2>a. ui' \in MainThread
    BY <1>1, <1>ty, IndexOK, <2>m DEF StickOut, PlaylistRecord, PlaylistThread, DecoderThread, MainThread
  <2>b. dec' \in DecoderThread
    BY <1>1, <1>ty, IndexOK, <2>m DEF StickOut, PlaylistRecord, PlaylistThread, DecoderThread, MainThread
  <2>c. pl' \in PlaylistThread
    BY <1>1, <1>ty, IndexOK, <2>m DEF StickOut, PlaylistRecord, PlaylistThread, DecoderThread, MainThread
  <2>2. TypeOK'
    BY <2>1, <2>f, <2>g, <2>h, <2>i, <2>a, <2>b, <2>c, <1>ty DEF TypeOK
  <2>3. Placed'
    BY <1>1, <2>1, <2>f, <2>g, <2>h, <2>i, FieldFacts DEF IInv, Placed
  <2>4. Codec'
    BY <1>1, <2>1, <2>f, <2>g, <2>h, <2>i, FieldFacts DEF IInv, Codec, Placed
  <2>5. Agreed'
    BY <1>1, <2>1, <2>f, <2>g, <2>h, <2>i, FieldFacts DEF IInv, Agreed, Codec
  <2>6. PausedQuiet'
    BY <1>1, <2>1, <2>f, <2>g, <2>h, <2>i, FieldFacts DEF IInv, PausedQuiet, Placed
  <2>7. HasName'
    BY <1>1, <2>1, <2>f, <2>g, <2>h, <2>i, FieldFacts, IndexOK DEF IInv, HasName, Placed
  <2>8. Ordered'
    BY <1>1, <2>1, <2>f, <2>g, <2>h, <2>i, FieldFacts DEF IInv, Ordered, Placed, HasName, Following
  <2>9. Owed'
    BY <1>1, <2>1, <2>f, <2>g, <2>h, <2>i, FieldFacts DEF IInv, Owed, Placed, HasName, Ordered, Following
  <2>10. Offsets'
    BY <1>1, <2>1, <2>f, <2>g, <2>h, <2>i, FieldFacts DEF IInv, Offsets, Placed, HasName, HeardNext
  <2>11. RoundDistinct'
    BY <2>1, <2>f, <2>g, <2>h, <2>i, RoundSame DEF IInv
  <2>. QED
    BY <2>2, <2>3, <2>4, <2>5, <2>6, <2>7, <2>8, <2>9, <2>10, <2>11 DEF IInv
<1>2. CASE dec.fd # "open"
  <2>m. ui.mishaps + 1 \in 0 .. MaxMishaps
    BY <1>2, <1>ty, FieldFacts, CountOK DEF StickOut
  <2>f. /\ pl'.at = pl.at /\ pl'.song = pl.song /\ pl'.want = -1 /\ pl'.lost = pl.lost
    BY <1>2, <1>ty DEF StickOut, PlaylistRecord, PlaylistThread, DecoderThread, MainThread
  <2>g. /\ dec'.at = dec.at /\ dec'.suspended = dec.suspended /\ dec'.late = dec.late /\ dec'.fd = dec.fd
        /\ dec'.pos = dec.pos /\ dec'.ret = dec.ret
    BY <1>2, <1>ty DEF StickOut, PlaylistRecord, PlaylistThread, DecoderThread, MainThread
  <2>h. /\ ui'.at = ui.at /\ ui'.is_paused = ui.is_paused /\ ui'.mishaps = ui.mishaps + 1
    BY <1>2, <1>ty DEF StickOut, PlaylistRecord, PlaylistThread, DecoderThread, MainThread
  <2>i. /\ ms' = FALSE
    BY <1>2, <1>ty DEF StickOut, PlaylistRecord, PlaylistThread, DecoderThread, MainThread
  <2>1. /\ UNCHANGED <<music, hw, heard>>
        /\ pl.at = "none" \/ music.file # -1
    BY <1>2, <1>ty DEF StickOut, PlaylistRecord, PlaylistThread, DecoderThread, MainThread
  <2>a. ui' \in MainThread
    BY <1>2, <1>ty, IndexOK, <2>m DEF StickOut, PlaylistRecord, PlaylistThread, DecoderThread, MainThread
  <2>b. dec' \in DecoderThread
    BY <1>2, <1>ty, IndexOK, <2>m DEF StickOut, PlaylistRecord, PlaylistThread, DecoderThread, MainThread
  <2>c. pl' \in PlaylistThread
    BY <1>2, <1>ty, IndexOK, <2>m DEF StickOut, PlaylistRecord, PlaylistThread, DecoderThread, MainThread
  <2>2. TypeOK'
    BY <2>1, <2>f, <2>g, <2>h, <2>i, <2>a, <2>b, <2>c, <1>ty DEF TypeOK
  <2>3. Placed'
    BY <1>2, <2>1, <2>f, <2>g, <2>h, <2>i, FieldFacts DEF IInv, Placed
  <2>4. Codec'
    BY <1>2, <2>1, <2>f, <2>g, <2>h, <2>i, FieldFacts DEF IInv, Codec, Placed
  <2>5. Agreed'
    BY <1>2, <2>1, <2>f, <2>g, <2>h, <2>i, FieldFacts DEF IInv, Agreed, Codec
  <2>6. PausedQuiet'
    BY <1>2, <2>1, <2>f, <2>g, <2>h, <2>i, FieldFacts DEF IInv, PausedQuiet, Placed
  <2>7. HasName'
    BY <1>2, <2>1, <2>f, <2>g, <2>h, <2>i, FieldFacts, IndexOK DEF IInv, HasName, Placed
  <2>8. Ordered'
    BY <1>2, <2>1, <2>f, <2>g, <2>h, <2>i, FieldFacts DEF IInv, Ordered, Placed, HasName, Following
  <2>9. Owed'
    BY <1>2, <2>1, <2>f, <2>g, <2>h, <2>i, FieldFacts DEF IInv, Owed, Placed, HasName, Ordered, Following
  <2>10. Offsets'
    BY <1>2, <2>1, <2>f, <2>g, <2>h, <2>i, FieldFacts DEF IInv, Offsets, Placed, HasName, HeardNext
  <2>11. RoundDistinct'
    BY <2>1, <2>f, <2>g, <2>h, <2>i, RoundSame DEF IInv
  <2>. QED
    BY <2>2, <2>3, <2>4, <2>5, <2>6, <2>7, <2>8, <2>9, <2>10, <2>11 DEF IInv
<1>. QED
  BY <1>1, <1>2 DEF StickOut

LEMMA MenuPlayStep ==
    ASSUME IInv, MenuPlay
    PROVE  IInv'
<1>ty. /\ music \in PlaylistRecord /\ pl \in PlaylistThread /\ dec \in DecoderThread /\ ui \in MainThread
       /\ hw \in [init : BOOLEAN, codec : {"none", "held", "freed"}]
       /\ heard \in [song : SongOrNone, frame : 0 .. Frames]
       /\ ms \in BOOLEAN /\ (music.index \in Songs \/ Count = 1)
  BY TypeFacts
<1>1. CASE music.pause = "PAUSED"
  <2>f. /\ ui'.at = "saw_PAUSED" /\ ui'.is_paused = ui.is_paused /\ ui'.mishaps = ui.mishaps
    BY <1>1, <1>ty DEF MenuPlay, Listening, PlaylistRecord, PlaylistThread, DecoderThread, MainThread
  <2>1. /\ UNCHANGED <<music, pl, dec, hw, ms, heard>>
        /\ ui.at = "idle"
    BY <1>1, <1>ty DEF MenuPlay, Listening, PlaylistRecord, PlaylistThread, DecoderThread, MainThread
  <2>a. ui' \in MainThread
    BY <1>1, <1>ty DEF MenuPlay, Listening, PlaylistRecord, PlaylistThread, DecoderThread, MainThread
  <2>2. TypeOK'
    BY <2>1, <2>f, <2>a, <1>ty DEF TypeOK
  <2>3. Placed'
    BY <1>1, <2>1, <2>f, FieldFacts DEF IInv, Placed
  <2>4. Codec'
    BY <1>1, <2>1, <2>f, FieldFacts DEF IInv, Codec, Placed
  <2>5. Agreed'
    BY <1>1, <2>1, <2>f, FieldFacts DEF IInv, Agreed, Codec
  <2>6. PausedQuiet'
    BY <1>1, <2>1, <2>f, FieldFacts DEF IInv, PausedQuiet, Placed
  <2>7. HasName'
    BY <1>1, <2>1, <2>f, FieldFacts, IndexOK DEF IInv, HasName, Placed
  <2>8. Ordered'
    BY <1>1, <2>1, <2>f, FieldFacts DEF IInv, Ordered, Placed, HasName, Following
  <2>9. Owed'
    BY <1>1, <2>1, <2>f, FieldFacts DEF IInv, Owed, Placed, HasName, Ordered, Following
  <2>10. Offsets'
    BY <1>1, <2>1, <2>f, FieldFacts DEF IInv, Offsets, Placed, HasName, HeardNext
  <2>11. RoundDistinct'
    BY <2>1, <2>f, RoundSame DEF IInv
  <2>. QED
    BY <2>2, <2>3, <2>4, <2>5, <2>6, <2>7, <2>8, <2>9, <2>10, <2>11 DEF IInv
<1>2. CASE music.pause # "PAUSED"
  <2>f. /\ ui'.at = "saw_PLAYING" /\ ui'.is_paused = ui.is_paused /\ ui'.mishaps = ui.mishaps
    BY <1>2, <1>ty DEF MenuPlay, Listening, PlaylistRecord, PlaylistThread, DecoderThread, MainThread
  <2>1. /\ UNCHANGED <<music, pl, dec, hw, ms, heard>>
        /\ ui.at = "idle" /\ music.pause = "PLAYING"
    BY <1>2, <1>ty DEF MenuPlay, Listening, PlaylistRecord, PlaylistThread, DecoderThread, MainThread
  <2>a. ui' \in MainThread
    BY <1>2, <1>ty DEF MenuPlay, Listening, PlaylistRecord, PlaylistThread, DecoderThread, MainThread
  <2>2. TypeOK'
    BY <2>1, <2>f, <2>a, <1>ty DEF TypeOK
  <2>3. Placed'
    BY <1>2, <2>1, <2>f, FieldFacts DEF IInv, Placed
  <2>4. Codec'
    BY <1>2, <2>1, <2>f, FieldFacts DEF IInv, Codec, Placed
  <2>5. Agreed'
    BY <1>2, <2>1, <2>f, FieldFacts DEF IInv, Agreed, Codec
  <2>6. PausedQuiet'
    BY <1>2, <2>1, <2>f, FieldFacts DEF IInv, PausedQuiet, Placed
  <2>7. HasName'
    BY <1>2, <2>1, <2>f, FieldFacts, IndexOK DEF IInv, HasName, Placed
  <2>8. Ordered'
    BY <1>2, <2>1, <2>f, FieldFacts DEF IInv, Ordered, Placed, HasName, Following
  <2>9. Owed'
    BY <1>2, <2>1, <2>f, FieldFacts DEF IInv, Owed, Placed, HasName, Ordered, Following
  <2>10. Offsets'
    BY <1>2, <2>1, <2>f, FieldFacts DEF IInv, Offsets, Placed, HasName, HeardNext
  <2>11. RoundDistinct'
    BY <2>1, <2>f, RoundSame DEF IInv
  <2>. QED
    BY <2>2, <2>3, <2>4, <2>5, <2>6, <2>7, <2>8, <2>9, <2>10, <2>11 DEF IInv
<1>. QED
  BY <1>1, <1>2 DEF MenuPlay

LEMMA MenuPlayedStep ==
    ASSUME IInv, MenuPlayed
    PROVE  IInv'
<1>ty. /\ music \in PlaylistRecord /\ pl \in PlaylistThread /\ dec \in DecoderThread /\ ui \in MainThread
       /\ hw \in [init : BOOLEAN, codec : {"none", "held", "freed"}]
       /\ heard \in [song : SongOrNone, frame : 0 .. Frames]
       /\ ms \in BOOLEAN /\ (music.index \in Songs \/ Count = 1)
  BY TypeFacts
<1>1. CASE ui.at = "saw_PAUSED"
  <2>f. /\ music'.index = music.index /\ music'.random = music.random
        /\ music'.random_index = music.random_index /\ music'.random_played = music.random_played
        /\ music'.pause = "RESUME_SONG" /\ music'.change_track = music.change_track
        /\ music'.flags = music.flags /\ music'.resume = music.resume /\ music'.offset = music.offset
        /\ music'.file = music.file
    BY <1>1, <1>ty DEF MenuPlayed, PlaylistRecord, PlaylistThread, DecoderThread, MainThread
  <2>g. /\ ui'.at = "idle" /\ ui'.is_paused = FALSE /\ ui'.mishaps = ui.mishaps
    BY <1>1, <1>ty DEF MenuPlayed, PlaylistRecord, PlaylistThread, DecoderThread, MainThread
  <2>1. /\ UNCHANGED <<pl, dec, hw, ms, heard>>
        /\ ui.at = "saw_PAUSED"
    BY <1>1, <1>ty DEF MenuPlayed, PlaylistRecord, PlaylistThread, DecoderThread, MainThread
  <2>a. music' \in PlaylistRecord
    BY <1>1, <1>ty DEF MenuPlayed, PlaylistRecord, PlaylistThread, DecoderThread, MainThread
  <2>b. ui' \in MainThread
    BY <1>1, <1>ty DEF MenuPlayed, PlaylistRecord, PlaylistThread, DecoderThread, MainThread
  <2>2. TypeOK'
    BY <2>1, <2>f, <2>g, <2>a, <2>b, <1>ty DEF TypeOK
  <2>3. Placed'
    BY <1>1, <2>1, <2>f, <2>g, FieldFacts DEF IInv, Placed
  <2>4. Codec'
    BY <1>1, <2>1, <2>f, <2>g, FieldFacts DEF IInv, Codec, Placed
  <2>5. Agreed'
    BY <1>1, <2>1, <2>f, <2>g, FieldFacts DEF IInv, Agreed, Codec
  <2>6. PausedQuiet'
    BY <1>1, <2>1, <2>f, <2>g, FieldFacts DEF IInv, PausedQuiet, Placed
  <2>7. HasName'
    BY <1>1, <2>1, <2>f, <2>g, FieldFacts, IndexOK DEF IInv, HasName, Placed
  <2>8. Ordered'
    BY <1>1, <2>1, <2>f, <2>g, FieldFacts DEF IInv, Ordered, Placed, HasName, Following
  <2>9. Owed'
    BY <1>1, <2>1, <2>f, <2>g, FieldFacts DEF IInv, Owed, Placed, HasName, Ordered, Following
  <2>10. Offsets'
    BY <1>1, <2>1, <2>f, <2>g, FieldFacts DEF IInv, Offsets, Placed, HasName, HeardNext
  <2>11. RoundDistinct'
    BY <2>1, <2>f, <2>g, RoundSame DEF IInv
  <2>. QED
    BY <2>2, <2>3, <2>4, <2>5, <2>6, <2>7, <2>8, <2>9, <2>10, <2>11 DEF IInv
<1>2. CASE ui.at = "saw_PLAYING"
  <2>f. /\ music'.index = music.index /\ music'.random = music.random
        /\ music'.random_index = music.random_index /\ music'.random_played = music.random_played
        /\ music'.pause = "PAUSE_SONG" /\ music'.change_track = music.change_track
        /\ music'.flags = music.flags /\ music'.resume = music.resume /\ music'.offset = music.offset
        /\ music'.file = music.file
    BY <1>2, <1>ty DEF MenuPlayed, PlaylistRecord, PlaylistThread, DecoderThread, MainThread
  <2>g. /\ ui'.at = "idle" /\ ui'.is_paused = TRUE /\ ui'.mishaps = ui.mishaps
    BY <1>2, <1>ty DEF MenuPlayed, PlaylistRecord, PlaylistThread, DecoderThread, MainThread
  <2>1. /\ UNCHANGED <<pl, dec, hw, ms, heard>>
        /\ ui.at = "saw_PLAYING"
    BY <1>2, <1>ty DEF MenuPlayed, PlaylistRecord, PlaylistThread, DecoderThread, MainThread
  <2>a. music' \in PlaylistRecord
    BY <1>2, <1>ty DEF MenuPlayed, PlaylistRecord, PlaylistThread, DecoderThread, MainThread
  <2>b. ui' \in MainThread
    BY <1>2, <1>ty DEF MenuPlayed, PlaylistRecord, PlaylistThread, DecoderThread, MainThread
  <2>2. TypeOK'
    BY <2>1, <2>f, <2>g, <2>a, <2>b, <1>ty DEF TypeOK
  <2>3. Placed'
    BY <1>2, <2>1, <2>f, <2>g, FieldFacts DEF IInv, Placed
  <2>4. Codec'
    BY <1>2, <2>1, <2>f, <2>g, FieldFacts DEF IInv, Codec, Placed
  <2>5. Agreed'
    BY <1>2, <2>1, <2>f, <2>g, FieldFacts DEF IInv, Agreed, Codec
  <2>6. PausedQuiet'
    BY <1>2, <2>1, <2>f, <2>g, FieldFacts DEF IInv, PausedQuiet, Placed
  <2>7. HasName'
    BY <1>2, <2>1, <2>f, <2>g, FieldFacts, IndexOK DEF IInv, HasName, Placed
  <2>8. Ordered'
    BY <1>2, <2>1, <2>f, <2>g, FieldFacts DEF IInv, Ordered, Placed, HasName, Following
  <2>9. Owed'
    BY <1>2, <2>1, <2>f, <2>g, FieldFacts DEF IInv, Owed, Placed, HasName, Ordered, Following
  <2>10. Offsets'
    BY <1>2, <2>1, <2>f, <2>g, FieldFacts DEF IInv, Offsets, Placed, HasName, HeardNext
  <2>11. RoundDistinct'
    BY <2>1, <2>f, <2>g, RoundSame DEF IInv
  <2>. QED
    BY <2>2, <2>3, <2>4, <2>5, <2>6, <2>7, <2>8, <2>9, <2>10, <2>11 DEF IInv
<1>. QED
  BY <1>1, <1>2 DEF MenuPlayed

LEMMA CleanedUpStep ==
    ASSUME IInv, CleanedUp
    PROVE  IInv'
<1>ty. /\ music \in PlaylistRecord /\ pl \in PlaylistThread /\ dec \in DecoderThread /\ ui \in MainThread
       /\ hw \in [init : BOOLEAN, codec : {"none", "held", "freed"}]
       /\ heard \in [song : SongOrNone, frame : 0 .. Frames]
       /\ ms \in BOOLEAN /\ (music.index \in Songs \/ Count = 1)
  BY TypeFacts
<1>f. /\ music'.index = music.index /\ music'.random = music.random
      /\ music'.random_index = music.random_index /\ music'.random_played = music.random_played
      /\ music'.pause = music.pause /\ music'.change_track = music.change_track
      /\ music'.flags = "CLEANED_UP" /\ music'.resume = music.resume /\ music'.offset = music.offset
      /\ music'.file = music.file
  BY <1>ty DEF CleanedUp, PlaylistRecord, PlaylistThread, DecoderThread, MainThread
<1>1. /\ UNCHANGED <<pl, dec, ui, hw, ms, heard>>
      /\ dec.at = "cleaned"
  BY <1>ty DEF CleanedUp, PlaylistRecord, PlaylistThread, DecoderThread, MainThread
<1>a. music' \in PlaylistRecord
  BY <1>ty DEF CleanedUp, PlaylistRecord, PlaylistThread, DecoderThread, MainThread
<1>2. TypeOK'
  BY <1>1, <1>f, <1>a, <1>ty DEF TypeOK
<1>3. Placed'
  BY <1>1, <1>f, FieldFacts DEF IInv, Placed
<1>4. Codec'
  BY <1>1, <1>f, FieldFacts DEF IInv, Codec, Placed
<1>5. Agreed'
  BY <1>1, <1>f, FieldFacts DEF IInv, Agreed, Codec
<1>6. PausedQuiet'
  BY <1>1, <1>f, FieldFacts DEF IInv, PausedQuiet, Placed
<1>7. HasName'
  BY <1>1, <1>f, FieldFacts, IndexOK DEF IInv, HasName, Placed
<1>8. Ordered'
  BY <1>1, <1>f, FieldFacts DEF IInv, Ordered, Placed, HasName, Following
<1>9. Owed'
  BY <1>1, <1>f, FieldFacts DEF IInv, Owed, Placed, HasName, Ordered, Following
<1>10. Offsets'
  BY <1>1, <1>f, FieldFacts DEF IInv, Offsets, Placed, HasName, HeardNext
<1>11. RoundDistinct'
  BY <1>1, <1>f, RoundSame DEF IInv
<1>. QED
  BY <1>2, <1>3, <1>4, <1>5, <1>6, <1>7, <1>8, <1>9, <1>10, <1>11 DEF IInv

LEMMA main_musicStep ==
    ASSUME IInv, main_music
    PROVE  IInv'
<1>ty. /\ music \in PlaylistRecord /\ pl \in PlaylistThread /\ dec \in DecoderThread /\ ui \in MainThread
       /\ hw \in [init : BOOLEAN, codec : {"none", "held", "freed"}]
       /\ heard \in [song : SongOrNone, frame : 0 .. Frames]
       /\ ms \in BOOLEAN /\ (music.index \in Songs \/ Count = 1)
  BY TypeFacts
<1>f. /\ music'.index = music.index /\ music'.random = FALSE /\ music'.random_index = music.random_index
      /\ music'.random_played = music.random_played /\ music'.pause = "RESUME_SONG"
      /\ music'.change_track = music.change_track /\ music'.flags = music.flags
      /\ music'.resume = music.resume /\ music'.offset = music.offset /\ music'.file = music.file
  BY <1>ty DEF main_music, PlaylistRecord, PlaylistThread, DecoderThread, MainThread
<1>g. /\ ui'.at = "idle" /\ ui'.is_paused = ui.is_paused /\ ui'.mishaps = ui.mishaps
  BY <1>ty DEF main_music, PlaylistRecord, PlaylistThread, DecoderThread, MainThread
<1>1. /\ UNCHANGED <<pl, dec, hw, ms, heard>>
      /\ ui.at = "starting"
  BY <1>ty DEF main_music, PlaylistRecord, PlaylistThread, DecoderThread, MainThread
<1>a. music' \in PlaylistRecord
  BY <1>ty DEF main_music, PlaylistRecord, PlaylistThread, DecoderThread, MainThread
<1>b. ui' \in MainThread
  BY <1>ty DEF main_music, PlaylistRecord, PlaylistThread, DecoderThread, MainThread
<1>2. TypeOK'
  BY <1>1, <1>f, <1>g, <1>a, <1>b, <1>ty DEF TypeOK
<1>3. Placed'
  BY <1>1, <1>f, <1>g, FieldFacts DEF IInv, Placed
<1>4. Codec'
  BY <1>1, <1>f, <1>g, FieldFacts DEF IInv, Codec, Placed
<1>5. Agreed'
  BY <1>1, <1>f, <1>g, FieldFacts DEF IInv, Agreed, Codec
<1>6. PausedQuiet'
  BY <1>1, <1>f, <1>g, FieldFacts DEF IInv, PausedQuiet, Placed
<1>7. HasName'
  BY <1>1, <1>f, <1>g, FieldFacts, IndexOK DEF IInv, HasName, Placed
<1>8. Ordered'
  BY <1>1, <1>f, <1>g, FieldFacts DEF IInv, Ordered, Placed, HasName, Following
<1>9. Owed'
  BY <1>1, <1>f, <1>g, FieldFacts DEF IInv, Owed, Placed, HasName, Ordered, Following
<1>10. Offsets'
  BY <1>1, <1>f, <1>g, FieldFacts DEF IInv, Offsets, Placed, HasName, HeardNext
<1>11. RoundDistinct'
  BY <1>1, <1>f, <1>g, RoundSame DEF IInv
<1>. QED
  BY <1>2, <1>3, <1>4, <1>5, <1>6, <1>7, <1>8, <1>9, <1>10, <1>11 DEF IInv

LEMMA WaitMSReadyStep ==
    ASSUME IInv, WaitMSReady
    PROVE  IInv'
<1>ty. /\ music \in PlaylistRecord /\ pl \in PlaylistThread /\ dec \in DecoderThread /\ ui \in MainThread
       /\ hw \in [init : BOOLEAN, codec : {"none", "held", "freed"}]
       /\ heard \in [song : SongOrNone, frame : 0 .. Frames]
       /\ ms \in BOOLEAN /\ (music.index \in Songs \/ Count = 1)
  BY TypeFacts
<1>f. /\ pl'.at = "choose" /\ pl'.song = pl.song /\ pl'.want = pl.want /\ pl'.lost = pl.lost
  BY <1>ty DEF WaitMSReady, PlaylistRecord, PlaylistThread, DecoderThread, MainThread
<1>1. /\ UNCHANGED <<music, dec, ui, hw, ms, heard>>
      /\ pl.at \in {"wait_ms", "ms_ready"}
  BY <1>ty DEF WaitMSReady, PlaylistRecord, PlaylistThread, DecoderThread, MainThread
<1>a. pl' \in PlaylistThread
  BY <1>ty DEF WaitMSReady, PlaylistRecord, PlaylistThread, DecoderThread, MainThread
<1>2. TypeOK'
  BY <1>1, <1>f, <1>a, <1>ty DEF TypeOK
<1>3. Placed'
  BY <1>1, <1>f, FieldFacts DEF IInv, Placed
<1>4. Codec'
  BY <1>1, <1>f, FieldFacts DEF IInv, Codec, Placed
<1>5. Agreed'
  BY <1>1, <1>f, FieldFacts DEF IInv, Agreed, Codec
<1>6. PausedQuiet'
  BY <1>1, <1>f, FieldFacts DEF IInv, PausedQuiet, Placed
<1>7. HasName'
  BY <1>1, <1>f, FieldFacts, IndexOK DEF IInv, HasName, Placed
<1>8. Ordered'
  BY <1>1, <1>f, FieldFacts DEF IInv, Ordered, Placed, HasName, Following
<1>9. Owed'
  BY <1>1, <1>f, FieldFacts DEF IInv, Owed, Placed, HasName, Ordered, Following
<1>10. Offsets'
  BY <1>1, <1>f, FieldFacts DEF IInv, Offsets, Placed, HasName, HeardNext
<1>11. RoundDistinct'
  BY <1>1, <1>f, RoundSame DEF IInv
<1>. QED
  BY <1>2, <1>3, <1>4, <1>5, <1>6, <1>7, <1>8, <1>9, <1>10, <1>11 DEF IInv

LEMMA TitleSongStep ==
    ASSUME IInv, TitleSong
    PROVE  IInv'
<1>ty. /\ music \in PlaylistRecord /\ pl \in PlaylistThread /\ dec \in DecoderThread /\ ui \in MainThread
       /\ hw \in [init : BOOLEAN, codec : {"none", "held", "freed"}]
       /\ heard \in [song : SongOrNone, frame : 0 .. Frames]
       /\ ms \in BOOLEAN /\ (music.index \in Songs \/ Count = 1)
  BY TypeFacts
<1>1. CASE hw.init
  <2>f. /\ music'.index = music.index /\ music'.random = music.random
        /\ music'.random_index = music.random_index /\ music'.random_played = music.random_played
        /\ music'.pause = music.pause /\ music'.change_track = music.change_track
        /\ music'.flags = music.flags /\ music'.resume = music.resume /\ music'.offset = music.offset
        /\ music'.file = music.file
    BY <1>1, <1>ty DEF TitleSong, PlaylistRecord, PlaylistThread, DecoderThread, MainThread
  <2>g. /\ pl'.at = "start" /\ pl'.song = pl.song /\ pl'.want = pl.want /\ pl'.lost = pl.lost
    BY <1>1, <1>ty DEF TitleSong, PlaylistRecord, PlaylistThread, DecoderThread, MainThread
  <2>1. /\ UNCHANGED <<dec, ui, hw, ms, heard>>
        /\ pl.at = "title"
    BY <1>1, <1>ty DEF TitleSong, PlaylistRecord, PlaylistThread, DecoderThread, MainThread
  <2>a. music' \in PlaylistRecord
    BY <1>1, <1>ty DEF TitleSong, PlaylistRecord, PlaylistThread, DecoderThread, MainThread
  <2>b. pl' \in PlaylistThread
    BY <1>1, <1>ty DEF TitleSong, PlaylistRecord, PlaylistThread, DecoderThread, MainThread
  <2>2. TypeOK'
    BY <2>1, <2>f, <2>g, <2>a, <2>b, <1>ty DEF TypeOK
  <2>3. Placed'
    BY <1>1, <2>1, <2>f, <2>g, FieldFacts DEF IInv, Placed
  <2>4. Codec'
    BY <1>1, <2>1, <2>f, <2>g, FieldFacts DEF IInv, Codec, Placed
  <2>5. Agreed'
    BY <1>1, <2>1, <2>f, <2>g, FieldFacts DEF IInv, Agreed, Codec
  <2>6. PausedQuiet'
    BY <1>1, <2>1, <2>f, <2>g, FieldFacts DEF IInv, PausedQuiet, Placed
  <2>7. HasName'
    BY <1>1, <2>1, <2>f, <2>g, FieldFacts, IndexOK DEF IInv, HasName, Placed
  <2>8. Ordered'
    BY <1>1, <2>1, <2>f, <2>g, FieldFacts DEF IInv, Ordered, Placed, HasName, Following
  <2>9. Owed'
    BY <1>1, <2>1, <2>f, <2>g, FieldFacts DEF IInv, Owed, Placed, HasName, Ordered, Following
  <2>10. Offsets'
    BY <1>1, <2>1, <2>f, <2>g, FieldFacts DEF IInv, Offsets, Placed, HasName, HeardNext
  <2>11. RoundDistinct'
    BY <2>1, <2>f, <2>g, RoundSame DEF IInv
  <2>. QED
    BY <2>2, <2>3, <2>4, <2>5, <2>6, <2>7, <2>8, <2>9, <2>10, <2>11 DEF IInv
<1>2. CASE ~hw.init /\ music.pause = "PAUSE_SONG"
  <2>f. /\ music'.index = music.index /\ music'.random = music.random
        /\ music'.random_index = music.random_index /\ music'.random_played = music.random_played
        /\ music'.pause = "PAUSED" /\ music'.change_track = music.change_track
        /\ music'.flags = music.flags /\ music'.resume = music.resume /\ music'.offset = music.offset
        /\ music'.file = music.file
    BY <1>2, <1>ty DEF TitleSong, PlaylistRecord, PlaylistThread, DecoderThread, MainThread
  <2>g. /\ pl'.at = "unpause" /\ pl'.song = pl.song /\ pl'.want = pl.want /\ pl'.lost = pl.lost
    BY <1>2, <1>ty DEF TitleSong, PlaylistRecord, PlaylistThread, DecoderThread, MainThread
  <2>1. /\ UNCHANGED <<dec, ui, hw, ms, heard>>
        /\ pl.at = "title"
    BY <1>2, <1>ty DEF TitleSong, PlaylistRecord, PlaylistThread, DecoderThread, MainThread
  <2>a. music' \in PlaylistRecord
    BY <1>2, <1>ty DEF TitleSong, PlaylistRecord, PlaylistThread, DecoderThread, MainThread
  <2>b. pl' \in PlaylistThread
    BY <1>2, <1>ty DEF TitleSong, PlaylistRecord, PlaylistThread, DecoderThread, MainThread
  <2>2. TypeOK'
    BY <2>1, <2>f, <2>g, <2>a, <2>b, <1>ty DEF TypeOK
  <2>3. Placed'
    BY <1>2, <2>1, <2>f, <2>g, FieldFacts DEF IInv, Placed
  <2>4. Codec'
    BY <1>2, <2>1, <2>f, <2>g, FieldFacts DEF IInv, Codec, Placed
  <2>5. Agreed'
    BY <1>2, <2>1, <2>f, <2>g, FieldFacts DEF IInv, Agreed, Codec
  <2>6. PausedQuiet'
    BY <1>2, <2>1, <2>f, <2>g, FieldFacts DEF IInv, PausedQuiet, Placed
  <2>7. HasName'
    BY <1>2, <2>1, <2>f, <2>g, FieldFacts, IndexOK DEF IInv, HasName, Placed
  <2>8. Ordered'
    BY <1>2, <2>1, <2>f, <2>g, FieldFacts DEF IInv, Ordered, Placed, HasName, Following
  <2>9. Owed'
    BY <1>2, <2>1, <2>f, <2>g, FieldFacts DEF IInv, Owed, Placed, HasName, Ordered, Following
  <2>10. Offsets'
    BY <1>2, <2>1, <2>f, <2>g, FieldFacts DEF IInv, Offsets, Placed, HasName, HeardNext
  <2>11. RoundDistinct'
    BY <2>1, <2>f, <2>g, RoundSame DEF IInv
  <2>. QED
    BY <2>2, <2>3, <2>4, <2>5, <2>6, <2>7, <2>8, <2>9, <2>10, <2>11 DEF IInv
<1>3. CASE ~hw.init /\ music.pause # "PAUSE_SONG"
  <2>f. /\ music'.index = music.index /\ music'.random = music.random
        /\ music'.random_index = music.random_index /\ music'.random_played = music.random_played
        /\ music'.pause = music.pause /\ music'.change_track = music.change_track
        /\ music'.flags = music.flags /\ music'.resume = music.resume /\ music'.offset = music.offset
        /\ music'.file = music.file
    BY <1>3, <1>ty DEF TitleSong, PlaylistRecord, PlaylistThread, DecoderThread, MainThread
  <2>g. /\ pl'.at = "unpause" /\ pl'.song = pl.song /\ pl'.want = pl.want /\ pl'.lost = pl.lost
    BY <1>3, <1>ty DEF TitleSong, PlaylistRecord, PlaylistThread, DecoderThread, MainThread
  <2>1. /\ UNCHANGED <<dec, ui, hw, ms, heard>>
        /\ pl.at = "title"
    BY <1>3, <1>ty DEF TitleSong, PlaylistRecord, PlaylistThread, DecoderThread, MainThread
  <2>a. music' \in PlaylistRecord
    BY <1>3, <1>ty DEF TitleSong, PlaylistRecord, PlaylistThread, DecoderThread, MainThread
  <2>b. pl' \in PlaylistThread
    BY <1>3, <1>ty DEF TitleSong, PlaylistRecord, PlaylistThread, DecoderThread, MainThread
  <2>2. TypeOK'
    BY <2>1, <2>f, <2>g, <2>a, <2>b, <1>ty DEF TypeOK
  <2>3. Placed'
    BY <1>3, <2>1, <2>f, <2>g, FieldFacts DEF IInv, Placed
  <2>4. Codec'
    BY <1>3, <2>1, <2>f, <2>g, FieldFacts DEF IInv, Codec, Placed
  <2>5. Agreed'
    BY <1>3, <2>1, <2>f, <2>g, FieldFacts DEF IInv, Agreed, Codec
  <2>6. PausedQuiet'
    BY <1>3, <2>1, <2>f, <2>g, FieldFacts DEF IInv, PausedQuiet, Placed
  <2>7. HasName'
    BY <1>3, <2>1, <2>f, <2>g, FieldFacts, IndexOK DEF IInv, HasName, Placed
  <2>8. Ordered'
    BY <1>3, <2>1, <2>f, <2>g, FieldFacts DEF IInv, Ordered, Placed, HasName, Following
  <2>9. Owed'
    BY <1>3, <2>1, <2>f, <2>g, FieldFacts DEF IInv, Owed, Placed, HasName, Ordered, Following
  <2>10. Offsets'
    BY <1>3, <2>1, <2>f, <2>g, FieldFacts DEF IInv, Offsets, Placed, HasName, HeardNext
  <2>11. RoundDistinct'
    BY <2>1, <2>f, <2>g, RoundSame DEF IInv
  <2>. QED
    BY <2>2, <2>3, <2>4, <2>5, <2>6, <2>7, <2>8, <2>9, <2>10, <2>11 DEF IInv
<1>. QED
  BY <1>1, <1>2, <1>3 DEF TitleSong


LEMMA PosOK == 0 \in 0 .. Frames + 1
BY CountOK

LEMMA NobodyOK ==
    /\ Nobody \in DecoderThread
    /\ Nobody.suspended = FALSE /\ Nobody.fd = "none" /\ Nobody.pos = 0 /\ Nobody.ret = "DONE"
BY PosOK DEF Nobody, DecoderThread

LEMMA LenOK == 0 \in 0 .. Frames
BY CountOK

LEMMA CountRange == 0 \in 0 .. Count /\ 0 \in 0 .. Frames
BY CountOK

LEMMA PauseOrResumeStep ==
    ASSUME IInv, PauseOrResume
    PROVE  IInv'
<1>ty. /\ music \in PlaylistRecord /\ pl \in PlaylistThread /\ dec \in DecoderThread /\ ui \in MainThread
       /\ hw \in [init : BOOLEAN, codec : {"none", "held", "freed"}]
       /\ heard \in [song : SongOrNone, frame : 0 .. Frames]
       /\ ms \in BOOLEAN /\ (music.index \in Songs \/ Count = 1)
  BY TypeFacts
<1>1. CASE music.pause = "PAUSE_SONG"
  <2>f. /\ music'.index = music.index /\ music'.random = music.random
        /\ music'.random_index = music.random_index /\ music'.random_played = music.random_played
        /\ music'.pause = "PAUSED" /\ music'.change_track = music.change_track
        /\ music'.flags = music.flags /\ music'.resume = music.resume /\ music'.offset = music.offset
        /\ music'.file = music.file
    BY <1>1, <1>ty
       DEF PauseOrResume, PauseTaken, Held, PlaylistRecord, PlaylistThread, DecoderThread, MainThread
  <2>g. /\ dec'.at = dec.at /\ dec'.suspended = TRUE /\ dec'.late = dec.late /\ dec'.fd = dec.fd
        /\ dec'.pos = dec.pos /\ dec'.ret = dec.ret
    BY <1>1, <1>ty
       DEF PauseOrResume, PauseTaken, Held, PlaylistRecord, PlaylistThread, DecoderThread, MainThread
  <2>1. /\ UNCHANGED <<pl, ui, hw, ms, heard>>
        /\ pl.at = "loop"
    BY <1>1, <1>ty
       DEF PauseOrResume, PauseTaken, Held, PlaylistRecord, PlaylistThread, DecoderThread, MainThread
  <2>a. music' \in PlaylistRecord
    BY <1>1, <1>ty
       DEF PauseOrResume, PauseTaken, Held, PlaylistRecord, PlaylistThread, DecoderThread, MainThread
  <2>b. dec' \in DecoderThread
    BY <1>1, <1>ty
       DEF PauseOrResume, PauseTaken, Held, PlaylistRecord, PlaylistThread, DecoderThread, MainThread
  <2>2. TypeOK'
    BY <2>1, <2>f, <2>g, <2>a, <2>b, <1>ty DEF TypeOK
  <2>3. Placed'
    BY <1>1, <2>1, <2>f, <2>g, FieldFacts DEF IInv, Placed
  <2>4. Codec'
    BY <1>1, <2>1, <2>f, <2>g, FieldFacts DEF IInv, Codec, Placed
  <2>5. Agreed'
    BY <1>1, <2>1, <2>f, <2>g, FieldFacts DEF IInv, Agreed, Codec
  <2>6. PausedQuiet'
    BY <1>1, <2>1, <2>f, <2>g, FieldFacts DEF IInv, PausedQuiet, Placed
  <2>7. HasName'
    BY <1>1, <2>1, <2>f, <2>g, FieldFacts, IndexOK DEF IInv, HasName, Placed
  <2>8. Ordered'
    BY <1>1, <2>1, <2>f, <2>g, FieldFacts DEF IInv, Ordered, Placed, HasName, Following
  <2>9. Owed'
    BY <1>1, <2>1, <2>f, <2>g, FieldFacts DEF IInv, Owed, Placed, HasName, Ordered, Following
  <2>10. Offsets'
    BY <1>1, <2>1, <2>f, <2>g, FieldFacts DEF IInv, Offsets, Placed, HasName, HeardNext
  <2>11. RoundDistinct'
    BY <2>1, <2>f, <2>g, RoundSame DEF IInv
  <2>. QED
    BY <2>2, <2>3, <2>4, <2>5, <2>6, <2>7, <2>8, <2>9, <2>10, <2>11 DEF IInv
<1>2. CASE music.pause = "RESUME_SONG"
  <2>f. /\ music'.index = music.index /\ music'.random = music.random
        /\ music'.random_index = music.random_index /\ music'.random_played = music.random_played
        /\ music'.pause = "PLAYING" /\ music'.change_track = music.change_track
        /\ music'.flags = music.flags /\ music'.resume = music.resume /\ music'.offset = music.offset
        /\ music'.file = music.file
    BY <1>2, <1>ty
       DEF PauseOrResume, PauseTaken, Held, PlaylistRecord, PlaylistThread, DecoderThread, MainThread
  <2>g. /\ dec'.at = dec.at /\ dec'.suspended = FALSE /\ dec'.late = FALSE /\ dec'.fd = dec.fd
        /\ dec'.pos = dec.pos /\ dec'.ret = dec.ret
    BY <1>2, <1>ty
       DEF PauseOrResume, PauseTaken, Held, PlaylistRecord, PlaylistThread, DecoderThread, MainThread
  <2>1. /\ UNCHANGED <<pl, ui, hw, ms, heard>>
        /\ pl.at = "loop"
    BY <1>2, <1>ty
       DEF PauseOrResume, PauseTaken, Held, PlaylistRecord, PlaylistThread, DecoderThread, MainThread
  <2>a. music' \in PlaylistRecord
    BY <1>2, <1>ty
       DEF PauseOrResume, PauseTaken, Held, PlaylistRecord, PlaylistThread, DecoderThread, MainThread
  <2>b. dec' \in DecoderThread
    BY <1>2, <1>ty
       DEF PauseOrResume, PauseTaken, Held, PlaylistRecord, PlaylistThread, DecoderThread, MainThread
  <2>2. TypeOK'
    BY <2>1, <2>f, <2>g, <2>a, <2>b, <1>ty DEF TypeOK
  <2>3. Placed'
    BY <1>2, <2>1, <2>f, <2>g, FieldFacts DEF IInv, Placed
  <2>4. Codec'
    BY <1>2, <2>1, <2>f, <2>g, FieldFacts DEF IInv, Codec, Placed
  <2>5. Agreed'
    BY <1>2, <2>1, <2>f, <2>g, FieldFacts DEF IInv, Agreed, Codec
  <2>6. PausedQuiet'
    BY <1>2, <2>1, <2>f, <2>g, FieldFacts DEF IInv, PausedQuiet, Placed
  <2>7. HasName'
    BY <1>2, <2>1, <2>f, <2>g, FieldFacts, IndexOK DEF IInv, HasName, Placed
  <2>8. Ordered'
    BY <1>2, <2>1, <2>f, <2>g, FieldFacts DEF IInv, Ordered, Placed, HasName, Following
  <2>9. Owed'
    BY <1>2, <2>1, <2>f, <2>g, FieldFacts DEF IInv, Owed, Placed, HasName, Ordered, Following
  <2>10. Offsets'
    BY <1>2, <2>1, <2>f, <2>g, FieldFacts DEF IInv, Offsets, Placed, HasName, HeardNext
  <2>11. RoundDistinct'
    BY <2>1, <2>f, <2>g, RoundSame DEF IInv
  <2>. QED
    BY <2>2, <2>3, <2>4, <2>5, <2>6, <2>7, <2>8, <2>9, <2>10, <2>11 DEF IInv
<1>. QED
  BY <1>1, <1>2 DEF PauseOrResume

LEMMA DecoderCleanedStep ==
    ASSUME IInv, DecoderCleaned
    PROVE  IInv'
<1>ty. /\ music \in PlaylistRecord /\ pl \in PlaylistThread /\ dec \in DecoderThread /\ ui \in MainThread
       /\ hw \in [init : BOOLEAN, codec : {"none", "held", "freed"}]
       /\ heard \in [song : SongOrNone, frame : 0 .. Frames]
       /\ ms \in BOOLEAN /\ (music.index \in Songs \/ Count = 1)
  BY TypeFacts
<1>f. /\ pl'.at = "choose" /\ pl'.song = pl.song /\ pl'.want = pl.want /\ pl'.lost = pl.lost
  BY <1>ty DEF DecoderCleaned, Nobody, PlaylistRecord, PlaylistThread, DecoderThread, MainThread
<1>g. /\ dec'.at = "none" /\ dec'.suspended = FALSE /\ dec'.late = FALSE /\ dec'.fd = "none"
      /\ dec'.pos = 0 /\ dec'.ret = "DONE"
  BY <1>ty DEF DecoderCleaned, Nobody, PlaylistRecord, PlaylistThread, DecoderThread, MainThread
<1>1. /\ UNCHANGED <<music, ui, hw, ms, heard>>
      /\ pl.at = "clean" /\ music.flags = "CLEANED_UP"
  BY <1>ty DEF DecoderCleaned, Nobody, PlaylistRecord, PlaylistThread, DecoderThread, MainThread
<1>a. dec' \in DecoderThread
  BY <1>ty, PosOK DEF DecoderCleaned, Nobody, PlaylistRecord, PlaylistThread, DecoderThread, MainThread
<1>b. pl' \in PlaylistThread
  BY <1>ty, PosOK DEF DecoderCleaned, Nobody, PlaylistRecord, PlaylistThread, DecoderThread, MainThread
<1>2. TypeOK'
  BY <1>1, <1>f, <1>g, <1>a, <1>b, <1>ty DEF TypeOK
<1>3. Placed'
  BY <1>1, <1>f, <1>g, FieldFacts DEF IInv, Placed
<1>4. Codec'
  BY <1>1, <1>f, <1>g, FieldFacts DEF IInv, Codec, Placed
<1>5. Agreed'
  BY <1>1, <1>f, <1>g, FieldFacts DEF IInv, Agreed, Codec
<1>6. PausedQuiet'
  BY <1>1, <1>f, <1>g, FieldFacts DEF IInv, PausedQuiet, Placed
<1>7. HasName'
  BY <1>1, <1>f, <1>g, FieldFacts, IndexOK DEF IInv, HasName, Placed
<1>8. Ordered'
  BY <1>1, <1>f, <1>g, FieldFacts DEF IInv, Ordered, Placed, HasName, Following
<1>9. Owed'
  BY <1>1, <1>f, <1>g, FieldFacts DEF IInv, Owed, Placed, HasName, Ordered, Following
<1>10. Offsets'
  BY <1>1, <1>f, <1>g, FieldFacts DEF IInv, Offsets, Placed, HasName, HeardNext
<1>11. RoundDistinct'
  BY <1>1, <1>f, <1>g, RoundSame DEF IInv
<1>. QED
  BY <1>2, <1>3, <1>4, <1>5, <1>6, <1>7, <1>8, <1>9, <1>10, <1>11 DEF IInv

LEMMA MenuTrackStep ==
    ASSUME IInv, MenuTrack
    PROVE  IInv'
<1>ty. /\ music \in PlaylistRecord /\ pl \in PlaylistThread /\ dec \in DecoderThread /\ ui \in MainThread
       /\ hw \in [init : BOOLEAN, codec : {"none", "held", "freed"}]
       /\ heard \in [song : SongOrNone, frame : 0 .. Frames]
       /\ ms \in BOOLEAN /\ (music.index \in Songs \/ Count = 1)
  BY TypeFacts
<1>m. \E c \in {-1, 0, 1} : music' = [music EXCEPT !.change_track = c]
  BY <1>ty DEF MenuTrack
<1>f. /\ music'.index = music.index /\ music'.random = music.random
      /\ music'.random_index = music.random_index /\ music'.random_played = music.random_played
      /\ music'.pause = music.pause /\ music'.flags = music.flags /\ music'.resume = music.resume
      /\ music'.offset = music.offset /\ music'.file = music.file
  BY <1>ty DEF MenuTrack, Listening, PlaylistRecord, PlaylistThread, DecoderThread, MainThread
<1>1. /\ UNCHANGED <<pl, dec, ui, hw, ms, heard>>
      /\ ui.at = "idle"
  BY <1>ty DEF MenuTrack, Listening, PlaylistRecord, PlaylistThread, DecoderThread, MainThread
<1>a. music' \in PlaylistRecord
  BY <1>ty, <1>m DEF MenuTrack, Listening, PlaylistRecord, PlaylistThread, DecoderThread, MainThread
<1>2. TypeOK'
  BY <1>1, <1>f, <1>a, <1>ty DEF TypeOK
<1>3. Placed'
  BY <1>1, <1>f, FieldFacts DEF IInv, Placed
<1>4. Codec'
  BY <1>1, <1>f, FieldFacts DEF IInv, Codec, Placed
<1>5. Agreed'
  BY <1>1, <1>f, FieldFacts DEF IInv, Agreed, Codec
<1>6. PausedQuiet'
  BY <1>1, <1>f, FieldFacts DEF IInv, PausedQuiet, Placed
<1>7. HasName'
  BY <1>1, <1>f, FieldFacts, IndexOK DEF IInv, HasName, Placed
<1>8. Ordered'
  BY <1>1, <1>f, FieldFacts DEF IInv, Ordered, Placed, HasName, Following
<1>9. Owed'
  BY <1>1, <1>f, FieldFacts DEF IInv, Owed, Placed, HasName, Ordered, Following
<1>10. Offsets'
  BY <1>1, <1>f, FieldFacts DEF IInv, Offsets, Placed, HasName, HeardNext
<1>11. RoundDistinct'
  BY <1>1, <1>f, RoundSame DEF IInv
<1>. QED
  BY <1>2, <1>3, <1>4, <1>5, <1>6, <1>7, <1>8, <1>9, <1>10, <1>11 DEF IInv

LEMMA MenuRandomStep ==
    ASSUME IInv, MenuRandom
    PROVE  IInv'
<1>ty. /\ music \in PlaylistRecord /\ pl \in PlaylistThread /\ dec \in DecoderThread /\ ui \in MainThread
       /\ hw \in [init : BOOLEAN, codec : {"none", "held", "freed"}]
       /\ heard \in [song : SongOrNone, frame : 0 .. Frames]
       /\ ms \in BOOLEAN /\ (music.index \in Songs \/ Count = 1)
  BY TypeFacts
<1>1. CASE ui.at = "idle"
  <2>music. music' = [music EXCEPT !.random = ~music.random]
    BY <1>1 DEF MenuRandom, Listening
  <2>f. /\ music'.index = music.index /\ music'.random = ~music.random
        /\ music'.random_index = music.random_index /\ music'.random_played = music.random_played
        /\ music'.pause = music.pause /\ music'.change_track = music.change_track
        /\ music'.flags = music.flags /\ music'.resume = music.resume /\ music'.offset = music.offset
        /\ music'.file = music.file
    BY <1>1, <1>ty DEF MenuRandom, Listening, PlaylistRecord, PlaylistThread, DecoderThread, MainThread
  <2>g. /\ pl'.at = pl.at /\ pl'.song = pl.song /\ pl'.want = -1 /\ pl'.lost = TRUE
    BY <1>1, <1>ty DEF MenuRandom, Listening, PlaylistRecord, PlaylistThread, DecoderThread, MainThread
  <2>h. /\ ui'.at = "flipped" /\ ui'.is_paused = ui.is_paused /\ ui'.mishaps = ui.mishaps
    BY <1>1, <1>ty DEF MenuRandom, Listening, PlaylistRecord, PlaylistThread, DecoderThread, MainThread
  <2>1. /\ UNCHANGED <<dec, hw, ms, heard>>
    BY <1>1, <1>ty DEF MenuRandom, Listening, PlaylistRecord, PlaylistThread, DecoderThread, MainThread
  <2>a. music' \in PlaylistRecord
    BY <2>music, <1>ty, IndexOK DEF PlaylistRecord, PlaylistThread, DecoderThread, MainThread
  <2>b. ui' \in MainThread
    BY <1>1, <1>ty, IndexOK
       DEF MenuRandom, Listening, PlaylistRecord, PlaylistThread, DecoderThread, MainThread
  <2>c. pl' \in PlaylistThread
    BY <1>1, <1>ty, IndexOK
       DEF MenuRandom, Listening, PlaylistRecord, PlaylistThread, DecoderThread, MainThread
  <2>2. TypeOK'
    BY <2>1, <2>f, <2>g, <2>h, <2>a, <2>b, <2>c, <1>ty DEF TypeOK
  <2>3. Placed'
    BY <1>1, <2>1, <2>f, <2>g, <2>h, FieldFacts DEF IInv, Placed
  <2>4. Codec'
    BY <1>1, <2>1, <2>f, <2>g, <2>h, FieldFacts DEF IInv, Codec, Placed
  <2>5. Agreed'
    BY <1>1, <2>1, <2>f, <2>g, <2>h, FieldFacts DEF IInv, Agreed, Codec
  <2>6. PausedQuiet'
    BY <1>1, <2>1, <2>f, <2>g, <2>h, FieldFacts DEF IInv, PausedQuiet, Placed
  <2>7. HasName'
    BY <1>1, <2>1, <2>f, <2>g, <2>h, FieldFacts, IndexOK DEF IInv, HasName, Placed
  <2>8. Ordered'
    BY <1>1, <2>1, <2>f, <2>g, <2>h, FieldFacts DEF IInv, Ordered, Placed, HasName, Following
  <2>9. Owed'
    BY <1>1, <2>1, <2>f, <2>g, <2>h, FieldFacts DEF IInv, Owed, Placed, HasName, Ordered, Following
  <2>10. Offsets'
    BY <1>1, <2>1, <2>f, <2>g, <2>h, FieldFacts DEF IInv, Offsets, Placed, HasName, HeardNext
  <2>11. RoundDistinct'
    BY <2>1, <2>f, <2>g, <2>h, RoundSame DEF IInv
  <2>. QED
    BY <2>2, <2>3, <2>4, <2>5, <2>6, <2>7, <2>8, <2>9, <2>10, <2>11 DEF IInv
<1>2. CASE ui.at = "flipped"
  <2>music. music' = [music EXCEPT !.index = 0, !.random_index = 0]
    BY <1>2 DEF MenuRandom, Listening, Rewind
  <2>f. /\ music'.index = 0 /\ music'.random = music.random /\ music'.random_index = 0
        /\ music'.random_played = music.random_played /\ music'.pause = music.pause
        /\ music'.change_track = music.change_track /\ music'.flags = music.flags
        /\ music'.resume = music.resume /\ music'.offset = music.offset /\ music'.file = music.file
    BY <1>2, <1>ty
       DEF MenuRandom, Listening, Rewind, PlaylistRecord, PlaylistThread, DecoderThread, MainThread
  <2>g. /\ pl'.at = pl.at /\ pl'.song = pl.song /\ pl'.want = -1 /\ pl'.lost = TRUE
    BY <1>2, <1>ty
       DEF MenuRandom, Listening, Rewind, PlaylistRecord, PlaylistThread, DecoderThread, MainThread
  <2>h. /\ ui'.at = "rewound" /\ ui'.is_paused = ui.is_paused /\ ui'.mishaps = ui.mishaps
    BY <1>2, <1>ty
       DEF MenuRandom, Listening, Rewind, PlaylistRecord, PlaylistThread, DecoderThread, MainThread
  <2>1. /\ UNCHANGED <<dec, hw, ms, heard>>
    BY <1>2, <1>ty
       DEF MenuRandom, Listening, Rewind, PlaylistRecord, PlaylistThread, DecoderThread, MainThread
  <2>a. music' \in PlaylistRecord
    BY <2>music, <1>ty, IndexOK, CountRange DEF PlaylistRecord, PlaylistThread, DecoderThread, MainThread
  <2>b. ui' \in MainThread
    BY <1>2, <1>ty, IndexOK, CountRange
       DEF MenuRandom, Listening, Rewind, PlaylistRecord, PlaylistThread, DecoderThread, MainThread
  <2>c. pl' \in PlaylistThread
    BY <1>2, <1>ty, IndexOK, CountRange
       DEF MenuRandom, Listening, Rewind, PlaylistRecord, PlaylistThread, DecoderThread, MainThread
  <2>2. TypeOK'
    BY <2>1, <2>f, <2>g, <2>h, <2>a, <2>b, <2>c, <1>ty, IndexOK DEF TypeOK
  <2>3. Placed'
    BY <1>2, <2>1, <2>f, <2>g, <2>h, FieldFacts DEF IInv, Placed
  <2>4. Codec'
    BY <1>2, <2>1, <2>f, <2>g, <2>h, FieldFacts DEF IInv, Codec, Placed
  <2>5. Agreed'
    BY <1>2, <2>1, <2>f, <2>g, <2>h, FieldFacts DEF IInv, Agreed, Codec
  <2>6. PausedQuiet'
    BY <1>2, <2>1, <2>f, <2>g, <2>h, FieldFacts DEF IInv, PausedQuiet, Placed
  <2>7. HasName'
    BY <1>2, <2>1, <2>f, <2>g, <2>h, FieldFacts, IndexOK DEF IInv, HasName, Placed
  <2>8. Ordered'
    BY <1>2, <2>1, <2>f, <2>g, <2>h, FieldFacts DEF IInv, Ordered, Placed, HasName, Following
  <2>9. Owed'
    BY <1>2, <2>1, <2>f, <2>g, <2>h, FieldFacts DEF IInv, Owed, Placed, HasName, Ordered, Following
  <2>10. Offsets'
    BY <1>2, <2>1, <2>f, <2>g, <2>h, FieldFacts DEF IInv, Offsets, Placed, HasName, HeardNext
  <2>11. RoundDistinct'
    BY <2>1, <2>f, <2>g, <2>h, RoundNone
  <2>. QED
    BY <2>2, <2>3, <2>4, <2>5, <2>6, <2>7, <2>8, <2>9, <2>10, <2>11 DEF IInv
<1>3. CASE ui.at = "rewound"
  <2>q. \A i \in 0 .. Count - 1 : Blank[i] = -1
    BY <1>3, <1>ty DEF Blank, Songs
  <2>music. music' = [music EXCEPT !.random_played = Blank]
    BY <1>3 DEF MenuRandom, Listening
  <2>f. /\ music'.index = music.index /\ music'.random = music.random
        /\ music'.random_index = music.random_index /\ music'.random_played = Blank
        /\ music'.pause = music.pause /\ music'.change_track = music.change_track
        /\ music'.flags = music.flags /\ music'.resume = music.resume /\ music'.offset = music.offset
        /\ music'.file = music.file
    BY <1>3, <1>ty DEF MenuRandom, Listening, PlaylistRecord, PlaylistThread, DecoderThread, MainThread
  <2>g. /\ pl'.at = pl.at /\ pl'.song = pl.song /\ pl'.want = -1 /\ pl'.lost = TRUE
    BY <1>3, <1>ty DEF MenuRandom, Listening, PlaylistRecord, PlaylistThread, DecoderThread, MainThread
  <2>h. /\ ui'.at = "wiped" /\ ui'.is_paused = ui.is_paused /\ ui'.mishaps = ui.mishaps
    BY <1>3, <1>ty DEF MenuRandom, Listening, PlaylistRecord, PlaylistThread, DecoderThread, MainThread
  <2>1. /\ UNCHANGED <<dec, hw, ms, heard>>
    BY <1>3, <1>ty DEF MenuRandom, Listening, PlaylistRecord, PlaylistThread, DecoderThread, MainThread
  <2>a. music' \in PlaylistRecord
    BY <2>music, <1>ty, IndexOK, BlankOK, <2>q
       DEF PlaylistRecord, PlaylistThread, DecoderThread, MainThread
  <2>b. ui' \in MainThread
    BY <1>3, <1>ty, IndexOK, BlankOK, <2>q
       DEF MenuRandom, Listening, PlaylistRecord, PlaylistThread, DecoderThread, MainThread
  <2>c. pl' \in PlaylistThread
    BY <1>3, <1>ty, IndexOK, BlankOK, <2>q
       DEF MenuRandom, Listening, PlaylistRecord, PlaylistThread, DecoderThread, MainThread
  <2>2. TypeOK'
    BY <2>1, <2>f, <2>g, <2>h, <2>a, <2>b, <2>c, <1>ty DEF TypeOK
  <2>3. Placed'
    BY <1>3, <2>1, <2>f, <2>g, <2>h, FieldFacts DEF IInv, Placed
  <2>4. Codec'
    BY <1>3, <2>1, <2>f, <2>g, <2>h, FieldFacts DEF IInv, Codec, Placed
  <2>5. Agreed'
    BY <1>3, <2>1, <2>f, <2>g, <2>h, FieldFacts DEF IInv, Agreed, Codec
  <2>6. PausedQuiet'
    BY <1>3, <2>1, <2>f, <2>g, <2>h, FieldFacts DEF IInv, PausedQuiet, Placed
  <2>7. HasName'
    BY <1>3, <2>1, <2>f, <2>g, <2>h, FieldFacts, IndexOK DEF IInv, HasName, Placed
  <2>8. Ordered'
    BY <1>3, <2>1, <2>f, <2>g, <2>h, FieldFacts DEF IInv, Ordered, Placed, HasName, Following
  <2>9. Owed'
    BY <1>3, <2>1, <2>f, <2>g, <2>h, FieldFacts DEF IInv, Owed, Placed, HasName, Ordered, Following
  <2>10. Offsets'
    BY <1>3, <2>1, <2>f, <2>g, <2>h, FieldFacts DEF IInv, Offsets, Placed, HasName, HeardNext
  <2>11. RoundDistinct'
    BY <2>f, <2>q, FieldFacts, CountOK DEF RoundDistinct
  <2>. QED
    BY <2>2, <2>3, <2>4, <2>5, <2>6, <2>7, <2>8, <2>9, <2>10, <2>11 DEF IInv
<1>4. CASE ui.at = "wiped"
  <2>music. music' = [music EXCEPT !.change_track = 1]
    BY <1>4 DEF MenuRandom, Listening
  <2>f. /\ music'.index = music.index /\ music'.random = music.random
        /\ music'.random_index = music.random_index /\ music'.random_played = music.random_played
        /\ music'.pause = music.pause /\ music'.change_track = 1 /\ music'.flags = music.flags
        /\ music'.resume = music.resume /\ music'.offset = music.offset /\ music'.file = music.file
    BY <1>4, <1>ty DEF MenuRandom, Listening, PlaylistRecord, PlaylistThread, DecoderThread, MainThread
  <2>g. /\ pl'.at = pl.at /\ pl'.song = pl.song /\ pl'.want = -1 /\ pl'.lost = TRUE
    BY <1>4, <1>ty DEF MenuRandom, Listening, PlaylistRecord, PlaylistThread, DecoderThread, MainThread
  <2>h. /\ ui'.at = "idle" /\ ui'.is_paused = ui.is_paused /\ ui'.mishaps = ui.mishaps
    BY <1>4, <1>ty DEF MenuRandom, Listening, PlaylistRecord, PlaylistThread, DecoderThread, MainThread
  <2>1. /\ UNCHANGED <<dec, hw, ms, heard>>
    BY <1>4, <1>ty DEF MenuRandom, Listening, PlaylistRecord, PlaylistThread, DecoderThread, MainThread
  <2>a. music' \in PlaylistRecord
    BY <2>music, <1>ty, IndexOK DEF PlaylistRecord, PlaylistThread, DecoderThread, MainThread
  <2>b. ui' \in MainThread
    BY <1>4, <1>ty, IndexOK
       DEF MenuRandom, Listening, PlaylistRecord, PlaylistThread, DecoderThread, MainThread
  <2>c. pl' \in PlaylistThread
    BY <1>4, <1>ty, IndexOK
       DEF MenuRandom, Listening, PlaylistRecord, PlaylistThread, DecoderThread, MainThread
  <2>2. TypeOK'
    BY <2>1, <2>f, <2>g, <2>h, <2>a, <2>b, <2>c, <1>ty DEF TypeOK
  <2>3. Placed'
    BY <1>4, <2>1, <2>f, <2>g, <2>h, FieldFacts DEF IInv, Placed
  <2>4. Codec'
    BY <1>4, <2>1, <2>f, <2>g, <2>h, FieldFacts DEF IInv, Codec, Placed
  <2>5. Agreed'
    BY <1>4, <2>1, <2>f, <2>g, <2>h, FieldFacts DEF IInv, Agreed, Codec
  <2>6. PausedQuiet'
    BY <1>4, <2>1, <2>f, <2>g, <2>h, FieldFacts DEF IInv, PausedQuiet, Placed
  <2>7. HasName'
    BY <1>4, <2>1, <2>f, <2>g, <2>h, FieldFacts, IndexOK DEF IInv, HasName, Placed
  <2>8. Ordered'
    BY <1>4, <2>1, <2>f, <2>g, <2>h, FieldFacts DEF IInv, Ordered, Placed, HasName, Following
  <2>9. Owed'
    BY <1>4, <2>1, <2>f, <2>g, <2>h, FieldFacts DEF IInv, Owed, Placed, HasName, Ordered, Following
  <2>10. Offsets'
    BY <1>4, <2>1, <2>f, <2>g, <2>h, FieldFacts DEF IInv, Offsets, Placed, HasName, HeardNext
  <2>11. RoundDistinct'
    BY <2>1, <2>f, <2>g, <2>h, RoundSame DEF IInv
  <2>. QED
    BY <2>2, <2>3, <2>4, <2>5, <2>6, <2>7, <2>8, <2>9, <2>10, <2>11 DEF IInv
<1>. QED
  BY <1>1, <1>2, <1>3, <1>4 DEF MenuRandom, Listening

LEMMA module_reboot_beforeStep ==
    ASSUME IInv, module_reboot_before
    PROVE  IInv'
<1>ty. /\ music \in PlaylistRecord /\ pl \in PlaylistThread /\ dec \in DecoderThread /\ ui \in MainThread
       /\ hw \in [init : BOOLEAN, codec : {"none", "held", "freed"}]
       /\ heard \in [song : SongOrNone, frame : 0 .. Frames]
       /\ ms \in BOOLEAN /\ (music.index \in Songs \/ Count = 1)
  BY TypeFacts
<1>1. CASE hw.codec = "held"
  <2>m. ui.mishaps + 1 \in 0 .. MaxMishaps
    BY <1>1, <1>ty, FieldFacts, CountOK DEF module_reboot_before
  <2>f. /\ music'.index = 0 /\ music'.random = FALSE /\ music'.random_index = 0
        /\ music'.random_played = Blank /\ music'.pause = "PAUSE_SONG" /\ music'.change_track = 0
        /\ music'.flags = "DONE" /\ music'.resume = FALSE /\ music'.offset = 0 /\ music'.file = -1
    BY <1>1, <1>ty
       DEF module_reboot_before, Listening, Nobody, InitPlaylist, PlaylistRecord, PlaylistThread,
           DecoderThread, MainThread
  <2>g. /\ pl'.at = "none" /\ pl'.song = -1 /\ pl'.want = -1 /\ pl'.lost = pl.lost
    BY <1>1, <1>ty
       DEF module_reboot_before, Listening, Nobody, InitPlaylist, PlaylistRecord, PlaylistThread,
           DecoderThread, MainThread
  <2>h. /\ dec'.at = "none" /\ dec'.suspended = FALSE /\ dec'.late = FALSE /\ dec'.fd = "none"
        /\ dec'.pos = 0 /\ dec'.ret = "DONE"
    BY <1>1, <1>ty
       DEF module_reboot_before, Listening, Nobody, InitPlaylist, PlaylistRecord, PlaylistThread,
           DecoderThread, MainThread
  <2>i. /\ ui'.at = ui.at /\ ui'.is_paused = ui.is_paused /\ ui'.mishaps = ui.mishaps + 1
    BY <1>1, <1>ty
       DEF module_reboot_before, Listening, Nobody, InitPlaylist, PlaylistRecord, PlaylistThread,
           DecoderThread, MainThread
  <2>j. /\ hw'.init = hw.init /\ hw'.codec = "freed"
    BY <1>1, <1>ty
       DEF module_reboot_before, Listening, Nobody, InitPlaylist, PlaylistRecord, PlaylistThread,
           DecoderThread, MainThread
  <2>1. /\ UNCHANGED <<ms, heard>>
        /\ ui.at = "idle"
    BY <1>1, <1>ty
       DEF module_reboot_before, Listening, Nobody, InitPlaylist, PlaylistRecord, PlaylistThread,
           DecoderThread, MainThread
  <2>a. music' \in PlaylistRecord
    BY <1>1, <1>ty, IndexOK, BlankOK, CountRange, PosOK, <2>m
       DEF module_reboot_before, Listening, Nobody, InitPlaylist, PlaylistRecord, PlaylistThread,
           DecoderThread, MainThread
  <2>b. dec' \in DecoderThread
    BY <1>1, <1>ty, IndexOK, BlankOK, CountRange, PosOK, <2>m
       DEF module_reboot_before, Listening, Nobody, InitPlaylist, PlaylistRecord, PlaylistThread,
           DecoderThread, MainThread
  <2>c. ui' \in MainThread
    BY <1>1, <1>ty, IndexOK, BlankOK, CountRange, PosOK, <2>m
       DEF module_reboot_before, Listening, Nobody, InitPlaylist, PlaylistRecord, PlaylistThread,
           DecoderThread, MainThread
  <2>d. pl' \in PlaylistThread
    BY <1>1, <1>ty, IndexOK, BlankOK, CountRange, PosOK, <2>m
       DEF module_reboot_before, Listening, Nobody, InitPlaylist, PlaylistRecord, PlaylistThread,
           DecoderThread, MainThread
  <2>e. hw' \in [init : BOOLEAN, codec : {"none", "held", "freed"}]
    BY <1>1, <1>ty, IndexOK, BlankOK, CountRange, PosOK, <2>m
       DEF module_reboot_before, Listening, Nobody, InitPlaylist, PlaylistRecord, PlaylistThread,
           DecoderThread, MainThread
  <2>2. TypeOK'
    BY <2>1, <2>f, <2>g, <2>h, <2>i, <2>j, <2>a, <2>b, <2>c, <2>d, <2>e, <1>ty, IndexOK DEF TypeOK
  <2>3. Placed'
    BY <1>1, <2>1, <2>f, <2>g, <2>h, <2>i, <2>j, FieldFacts DEF IInv, Placed
  <2>4. Codec'
    BY <1>1, <2>1, <2>f, <2>g, <2>h, <2>i, <2>j, FieldFacts DEF IInv, Codec, Placed
  <2>5. Agreed'
    BY <1>1, <2>1, <2>f, <2>g, <2>h, <2>i, <2>j, FieldFacts DEF IInv, Agreed, Codec
  <2>6. PausedQuiet'
    BY <1>1, <2>1, <2>f, <2>g, <2>h, <2>i, <2>j, FieldFacts DEF IInv, PausedQuiet, Placed
  <2>7. HasName'
    BY <1>1, <2>1, <2>f, <2>g, <2>h, <2>i, <2>j, FieldFacts, IndexOK DEF IInv, HasName, Placed
  <2>8. Ordered'
    BY <1>1, <2>1, <2>f, <2>g, <2>h, <2>i, <2>j, FieldFacts DEF IInv, Ordered, Placed, HasName, Following
  <2>9. Owed'
    BY <1>1, <2>1, <2>f, <2>g, <2>h, <2>i, <2>j, FieldFacts
       DEF IInv, Owed, Placed, HasName, Ordered, Following
  <2>10. Offsets'
    BY <1>1, <2>1, <2>f, <2>g, <2>h, <2>i, <2>j, FieldFacts DEF IInv, Offsets, Placed, HasName, HeardNext
  <2>11. RoundDistinct'
    BY <2>1, <2>f, <2>g, <2>h, <2>i, <2>j, RoundNone
  <2>. QED
    BY <2>2, <2>3, <2>4, <2>5, <2>6, <2>7, <2>8, <2>9, <2>10, <2>11 DEF IInv
<1>2. CASE hw.codec # "held"
  <2>m. ui.mishaps + 1 \in 0 .. MaxMishaps
    BY <1>2, <1>ty, FieldFacts, CountOK DEF module_reboot_before
  <2>f. /\ music'.index = 0 /\ music'.random = FALSE /\ music'.random_index = 0
        /\ music'.random_played = Blank /\ music'.pause = "PAUSE_SONG" /\ music'.change_track = 0
        /\ music'.flags = "DONE" /\ music'.resume = FALSE /\ music'.offset = 0 /\ music'.file = -1
    BY <1>2, <1>ty
       DEF module_reboot_before, Listening, Nobody, InitPlaylist, PlaylistRecord, PlaylistThread,
           DecoderThread, MainThread
  <2>g. /\ pl'.at = "none" /\ pl'.song = -1 /\ pl'.want = -1 /\ pl'.lost = pl.lost
    BY <1>2, <1>ty
       DEF module_reboot_before, Listening, Nobody, InitPlaylist, PlaylistRecord, PlaylistThread,
           DecoderThread, MainThread
  <2>h. /\ dec'.at = "none" /\ dec'.suspended = FALSE /\ dec'.late = FALSE /\ dec'.fd = "none"
        /\ dec'.pos = 0 /\ dec'.ret = "DONE"
    BY <1>2, <1>ty
       DEF module_reboot_before, Listening, Nobody, InitPlaylist, PlaylistRecord, PlaylistThread,
           DecoderThread, MainThread
  <2>i. /\ ui'.at = ui.at /\ ui'.is_paused = ui.is_paused /\ ui'.mishaps = ui.mishaps + 1
    BY <1>2, <1>ty
       DEF module_reboot_before, Listening, Nobody, InitPlaylist, PlaylistRecord, PlaylistThread,
           DecoderThread, MainThread
  <2>j. /\ hw'.init = hw.init /\ hw'.codec = hw.codec
    BY <1>2, <1>ty
       DEF module_reboot_before, Listening, Nobody, InitPlaylist, PlaylistRecord, PlaylistThread,
           DecoderThread, MainThread
  <2>1. /\ UNCHANGED <<ms, heard>>
        /\ ui.at = "idle"
    BY <1>2, <1>ty
       DEF module_reboot_before, Listening, Nobody, InitPlaylist, PlaylistRecord, PlaylistThread,
           DecoderThread, MainThread
  <2>a. music' \in PlaylistRecord
    BY <1>2, <1>ty, IndexOK, BlankOK, CountRange, PosOK, <2>m
       DEF module_reboot_before, Listening, Nobody, InitPlaylist, PlaylistRecord, PlaylistThread,
           DecoderThread, MainThread
  <2>b. dec' \in DecoderThread
    BY <1>2, <1>ty, IndexOK, BlankOK, CountRange, PosOK, <2>m
       DEF module_reboot_before, Listening, Nobody, InitPlaylist, PlaylistRecord, PlaylistThread,
           DecoderThread, MainThread
  <2>c. ui' \in MainThread
    BY <1>2, <1>ty, IndexOK, BlankOK, CountRange, PosOK, <2>m
       DEF module_reboot_before, Listening, Nobody, InitPlaylist, PlaylistRecord, PlaylistThread,
           DecoderThread, MainThread
  <2>d. pl' \in PlaylistThread
    BY <1>2, <1>ty, IndexOK, BlankOK, CountRange, PosOK, <2>m
       DEF module_reboot_before, Listening, Nobody, InitPlaylist, PlaylistRecord, PlaylistThread,
           DecoderThread, MainThread
  <2>e. hw' \in [init : BOOLEAN, codec : {"none", "held", "freed"}]
    BY <1>2, <1>ty, IndexOK, BlankOK, CountRange, PosOK, <2>m
       DEF module_reboot_before, Listening, Nobody, InitPlaylist, PlaylistRecord, PlaylistThread,
           DecoderThread, MainThread
  <2>2. TypeOK'
    BY <2>1, <2>f, <2>g, <2>h, <2>i, <2>j, <2>a, <2>b, <2>c, <2>d, <2>e, <1>ty, IndexOK DEF TypeOK
  <2>3. Placed'
    BY <1>2, <2>1, <2>f, <2>g, <2>h, <2>i, <2>j, FieldFacts DEF IInv, Placed
  <2>4. Codec'
    BY <1>2, <2>1, <2>f, <2>g, <2>h, <2>i, <2>j, FieldFacts DEF IInv, Codec, Placed
  <2>5. Agreed'
    BY <1>2, <2>1, <2>f, <2>g, <2>h, <2>i, <2>j, FieldFacts DEF IInv, Agreed, Codec
  <2>6. PausedQuiet'
    BY <1>2, <2>1, <2>f, <2>g, <2>h, <2>i, <2>j, FieldFacts DEF IInv, PausedQuiet, Placed
  <2>7. HasName'
    BY <1>2, <2>1, <2>f, <2>g, <2>h, <2>i, <2>j, FieldFacts, IndexOK DEF IInv, HasName, Placed
  <2>8. Ordered'
    BY <1>2, <2>1, <2>f, <2>g, <2>h, <2>i, <2>j, FieldFacts DEF IInv, Ordered, Placed, HasName, Following
  <2>9. Owed'
    BY <1>2, <2>1, <2>f, <2>g, <2>h, <2>i, <2>j, FieldFacts
       DEF IInv, Owed, Placed, HasName, Ordered, Following
  <2>10. Offsets'
    BY <1>2, <2>1, <2>f, <2>g, <2>h, <2>i, <2>j, FieldFacts DEF IInv, Offsets, Placed, HasName, HeardNext
  <2>11. RoundDistinct'
    BY <2>1, <2>f, <2>g, <2>h, <2>i, <2>j, RoundNone
  <2>. QED
    BY <2>2, <2>3, <2>4, <2>5, <2>6, <2>7, <2>8, <2>9, <2>10, <2>11 DEF IInv
<1>. QED
  BY <1>1, <1>2 DEF module_reboot_before

LEMMA RestartMusicStep ==
    ASSUME IInv, RestartMusic
    PROVE  IInv'
<1>ty. /\ music \in PlaylistRecord /\ pl \in PlaylistThread /\ dec \in DecoderThread /\ ui \in MainThread
       /\ hw \in [init : BOOLEAN, codec : {"none", "held", "freed"}]
       /\ heard \in [song : SongOrNone, frame : 0 .. Frames]
       /\ ms \in BOOLEAN /\ (music.index \in Songs \/ Count = 1)
  BY TypeFacts
<1>f. /\ music'.index = 0 /\ music'.random = FALSE /\ music'.random_index = 0
      /\ music'.random_played = Blank /\ music'.pause = "PAUSE_SONG" /\ music'.change_track = 0
      /\ music'.flags = "DONE" /\ music'.resume = FALSE /\ music'.offset = 0 /\ music'.file = -1
  BY <1>ty DEF RestartMusic, InitPlaylist, PlaylistRecord, PlaylistThread, DecoderThread, MainThread
<1>g. /\ pl'.at = "choose" /\ pl'.song = -1 /\ pl'.want = -1 /\ pl'.lost = FALSE
  BY <1>ty DEF RestartMusic, InitPlaylist, PlaylistRecord, PlaylistThread, DecoderThread, MainThread
<1>h. /\ ui'.at = "starting" /\ ui'.is_paused = ui.is_paused /\ ui'.mishaps = ui.mishaps
  BY <1>ty DEF RestartMusic, InitPlaylist, PlaylistRecord, PlaylistThread, DecoderThread, MainThread
<1>1. /\ UNCHANGED <<dec, hw, ms, heard>>
      /\ ui.at = "idle" /\ pl.at = "none" /\ ms
  BY <1>ty DEF RestartMusic, InitPlaylist, PlaylistRecord, PlaylistThread, DecoderThread, MainThread
<1>a. music' \in PlaylistRecord
  BY <1>ty, IndexOK, BlankOK, CountRange
     DEF RestartMusic, InitPlaylist, PlaylistRecord, PlaylistThread, DecoderThread, MainThread
<1>b. ui' \in MainThread
  BY <1>ty, IndexOK, BlankOK, CountRange
     DEF RestartMusic, InitPlaylist, PlaylistRecord, PlaylistThread, DecoderThread, MainThread
<1>c. pl' \in PlaylistThread
  BY <1>ty, IndexOK, BlankOK, CountRange
     DEF RestartMusic, InitPlaylist, PlaylistRecord, PlaylistThread, DecoderThread, MainThread
<1>2. TypeOK'
  BY <1>1, <1>f, <1>g, <1>h, <1>a, <1>b, <1>c, <1>ty, IndexOK DEF TypeOK
<1>3. Placed'
  BY <1>1, <1>f, <1>g, <1>h, FieldFacts DEF IInv, Placed
<1>4. Codec'
  BY <1>1, <1>f, <1>g, <1>h, FieldFacts DEF IInv, Codec, Placed
<1>5. Agreed'
  BY <1>1, <1>f, <1>g, <1>h, FieldFacts DEF IInv, Agreed, Codec
<1>6. PausedQuiet'
  BY <1>1, <1>f, <1>g, <1>h, FieldFacts DEF IInv, PausedQuiet, Placed
<1>7. HasName'
  BY <1>1, <1>f, <1>g, <1>h, FieldFacts, IndexOK DEF IInv, HasName, Placed
<1>8. Ordered'
  BY <1>1, <1>f, <1>g, <1>h, FieldFacts DEF IInv, Ordered, Placed, HasName, Following
<1>9. Owed'
  BY <1>1, <1>f, <1>g, <1>h, FieldFacts DEF IInv, Owed, Placed, HasName, Ordered, Following
<1>10. Offsets'
  BY <1>1, <1>f, <1>g, <1>h, FieldFacts DEF IInv, Offsets, Placed, HasName, HeardNext
<1>11. RoundDistinct'
  BY <1>1, <1>f, <1>g, <1>h, RoundNone
<1>. QED
  BY <1>2, <1>3, <1>4, <1>5, <1>6, <1>7, <1>8, <1>9, <1>10, <1>11 DEF IInv

LEMMA StartDecoderStep ==
    ASSUME IInv, StartDecoder
    PROVE  IInv'
<1>ty. /\ music \in PlaylistRecord /\ pl \in PlaylistThread /\ dec \in DecoderThread /\ ui \in MainThread
       /\ hw \in [init : BOOLEAN, codec : {"none", "held", "freed"}]
       /\ heard \in [song : SongOrNone, frame : 0 .. Frames]
       /\ ms \in BOOLEAN /\ (music.index \in Songs \/ Count = 1)
  BY TypeFacts
<1>1. CASE TypeKnown(music.file) /\ music.pause = "PAUSED"
  <2>music. music' = [music EXCEPT !.flags = "PLAYING"]
    BY <1>1 DEF StartDecoder
  <2>dec. dec' = [Nobody EXCEPT !.at = "open", !.late = TRUE]
    BY <1>1 DEF StartDecoder
  <2>f. /\ music'.index = music.index /\ music'.random = music.random
        /\ music'.random_index = music.random_index /\ music'.random_played = music.random_played
        /\ music'.pause = music.pause /\ music'.change_track = music.change_track
        /\ music'.flags = "PLAYING" /\ music'.resume = music.resume /\ music'.offset = music.offset
        /\ music'.file = music.file
    BY <1>1, <1>ty, NobodyOK DEF StartDecoder, PlaylistRecord, PlaylistThread, DecoderThread, MainThread
  <2>g. /\ pl'.at = "loop" /\ pl'.song = pl.song /\ pl'.want = -1 /\ pl'.lost = pl.lost
    BY <1>1, <1>ty, NobodyOK DEF StartDecoder, PlaylistRecord, PlaylistThread, DecoderThread, MainThread
  <2>h. /\ dec'.at = "open" /\ dec'.suspended = FALSE /\ dec'.late = TRUE /\ dec'.fd = "none"
        /\ dec'.pos = 0 /\ dec'.ret = "DONE"
    BY <1>1, <1>ty, NobodyOK DEF StartDecoder, PlaylistRecord, PlaylistThread, DecoderThread, MainThread
  <2>1. /\ UNCHANGED <<ui, hw, ms, heard>>
        /\ pl.at = "start"
    BY <1>1, <1>ty, NobodyOK DEF StartDecoder, PlaylistRecord, PlaylistThread, DecoderThread, MainThread
  <2>a. music' \in PlaylistRecord
    BY <2>music, <1>ty, IndexOK, PosOK, NobodyOK
       DEF PlaylistRecord, PlaylistThread, DecoderThread, MainThread
  <2>b. dec' \in DecoderThread
    BY <2>dec, <1>ty, IndexOK, PosOK, NobodyOK
       DEF PlaylistRecord, PlaylistThread, DecoderThread, MainThread
  <2>c. pl' \in PlaylistThread
    BY <1>1, <1>ty, NobodyOK, IndexOK, PosOK, NobodyOK
       DEF StartDecoder, PlaylistRecord, PlaylistThread, DecoderThread, MainThread
  <2>2. TypeOK'
    BY <2>1, <2>f, <2>g, <2>h, <2>a, <2>b, <2>c, <1>ty DEF TypeOK
  <2>3. Placed'
    BY <1>1, <2>1, <2>f, <2>g, <2>h, FieldFacts DEF IInv, Placed
  <2>4. Codec'
    BY <1>1, <2>1, <2>f, <2>g, <2>h, FieldFacts DEF IInv, Codec, Placed
  <2>5. Agreed'
    BY <1>1, <2>1, <2>f, <2>g, <2>h, FieldFacts DEF IInv, Agreed, Codec
  <2>6. PausedQuiet'
    BY <1>1, <2>1, <2>f, <2>g, <2>h, FieldFacts DEF IInv, PausedQuiet, Placed
  <2>7. HasName'
    BY <1>1, <2>1, <2>f, <2>g, <2>h, FieldFacts, IndexOK DEF IInv, HasName, Placed
  <2>8. Ordered'
    BY <1>1, <2>1, <2>f, <2>g, <2>h, FieldFacts DEF IInv, Ordered, Placed, HasName, Following
  <2>9. Owed'
    BY <1>1, <2>1, <2>f, <2>g, <2>h, FieldFacts DEF IInv, Owed, Placed, HasName, Ordered, Following
  <2>10. Offsets'
    BY <1>1, <2>1, <2>f, <2>g, <2>h, FieldFacts DEF IInv, Offsets, Placed, HasName, HeardNext
  <2>11. RoundDistinct'
    BY <2>1, <2>f, <2>g, <2>h, RoundSame DEF IInv
  <2>. QED
    BY <2>2, <2>3, <2>4, <2>5, <2>6, <2>7, <2>8, <2>9, <2>10, <2>11 DEF IInv
<1>2. CASE TypeKnown(music.file) /\ music.pause # "PAUSED"
  <2>music. music' = [music EXCEPT !.flags = "PLAYING"]
    BY <1>2 DEF StartDecoder
  <2>dec. dec' = [Nobody EXCEPT !.at = "open", !.late = FALSE]
    BY <1>2 DEF StartDecoder
  <2>f. /\ music'.index = music.index /\ music'.random = music.random
        /\ music'.random_index = music.random_index /\ music'.random_played = music.random_played
        /\ music'.pause = music.pause /\ music'.change_track = music.change_track
        /\ music'.flags = "PLAYING" /\ music'.resume = music.resume /\ music'.offset = music.offset
        /\ music'.file = music.file
    BY <1>2, <1>ty, NobodyOK DEF StartDecoder, PlaylistRecord, PlaylistThread, DecoderThread, MainThread
  <2>g. /\ pl'.at = "loop" /\ pl'.song = pl.song /\ pl'.want = -1 /\ pl'.lost = pl.lost
    BY <1>2, <1>ty, NobodyOK DEF StartDecoder, PlaylistRecord, PlaylistThread, DecoderThread, MainThread
  <2>h. /\ dec'.at = "open" /\ dec'.suspended = FALSE /\ dec'.late = FALSE /\ dec'.fd = "none"
        /\ dec'.pos = 0 /\ dec'.ret = "DONE"
    BY <1>2, <1>ty, NobodyOK DEF StartDecoder, PlaylistRecord, PlaylistThread, DecoderThread, MainThread
  <2>1. /\ UNCHANGED <<ui, hw, ms, heard>>
        /\ pl.at = "start"
    BY <1>2, <1>ty, NobodyOK DEF StartDecoder, PlaylistRecord, PlaylistThread, DecoderThread, MainThread
  <2>a. music' \in PlaylistRecord
    BY <2>music, <1>ty, IndexOK, PosOK, NobodyOK
       DEF PlaylistRecord, PlaylistThread, DecoderThread, MainThread
  <2>b. dec' \in DecoderThread
    BY <2>dec, <1>ty, IndexOK, PosOK, NobodyOK
       DEF PlaylistRecord, PlaylistThread, DecoderThread, MainThread
  <2>c. pl' \in PlaylistThread
    BY <1>2, <1>ty, NobodyOK, IndexOK, PosOK, NobodyOK
       DEF StartDecoder, PlaylistRecord, PlaylistThread, DecoderThread, MainThread
  <2>2. TypeOK'
    BY <2>1, <2>f, <2>g, <2>h, <2>a, <2>b, <2>c, <1>ty DEF TypeOK
  <2>3. Placed'
    BY <1>2, <2>1, <2>f, <2>g, <2>h, FieldFacts DEF IInv, Placed
  <2>4. Codec'
    BY <1>2, <2>1, <2>f, <2>g, <2>h, FieldFacts DEF IInv, Codec, Placed
  <2>5. Agreed'
    BY <1>2, <2>1, <2>f, <2>g, <2>h, FieldFacts DEF IInv, Agreed, Codec
  <2>6. PausedQuiet'
    BY <1>2, <2>1, <2>f, <2>g, <2>h, FieldFacts DEF IInv, PausedQuiet, Placed
  <2>7. HasName'
    BY <1>2, <2>1, <2>f, <2>g, <2>h, FieldFacts, IndexOK DEF IInv, HasName, Placed
  <2>8. Ordered'
    BY <1>2, <2>1, <2>f, <2>g, <2>h, FieldFacts DEF IInv, Ordered, Placed, HasName, Following
  <2>9. Owed'
    BY <1>2, <2>1, <2>f, <2>g, <2>h, FieldFacts DEF IInv, Owed, Placed, HasName, Ordered, Following
  <2>10. Offsets'
    BY <1>2, <2>1, <2>f, <2>g, <2>h, FieldFacts DEF IInv, Offsets, Placed, HasName, HeardNext
  <2>11. RoundDistinct'
    BY <2>1, <2>f, <2>g, <2>h, RoundSame DEF IInv
  <2>. QED
    BY <2>2, <2>3, <2>4, <2>5, <2>6, <2>7, <2>8, <2>9, <2>10, <2>11 DEF IInv
<1>3. CASE ~TypeKnown(music.file)
  <2>f. /\ pl'.at = "wait_ms" /\ pl'.song = pl.song /\ pl'.want = -1 /\ pl'.lost = pl.lost
    BY <1>3, <1>ty DEF StartDecoder, PlaylistRecord, PlaylistThread, DecoderThread, MainThread
  <2>1. /\ UNCHANGED <<music, dec, ui, hw, ms, heard>>
        /\ pl.at = "start"
    BY <1>3, <1>ty DEF StartDecoder, PlaylistRecord, PlaylistThread, DecoderThread, MainThread
  <2>a. pl' \in PlaylistThread
    BY <1>3, <1>ty, IndexOK DEF StartDecoder, PlaylistRecord, PlaylistThread, DecoderThread, MainThread
  <2>2. TypeOK'
    BY <2>1, <2>f, <2>a, <1>ty DEF TypeOK
  <2>3. Placed'
    BY <1>3, <2>1, <2>f, FieldFacts DEF IInv, Placed
  <2>4. Codec'
    BY <1>3, <2>1, <2>f, FieldFacts DEF IInv, Codec, Placed
  <2>5. Agreed'
    BY <1>3, <2>1, <2>f, FieldFacts DEF IInv, Agreed, Codec
  <2>6. PausedQuiet'
    BY <1>3, <2>1, <2>f, FieldFacts DEF IInv, PausedQuiet, Placed
  <2>7. HasName'
    BY <1>3, <2>1, <2>f, FieldFacts, IndexOK DEF IInv, HasName, Placed
  <2>8. Ordered'
    BY <1>3, <2>1, <2>f, FieldFacts DEF IInv, Ordered, Placed, HasName, Following
  <2>9. Owed'
    BY <1>3, <2>1, <2>f, FieldFacts DEF IInv, Owed, Placed, HasName, Ordered, Following
  <2>10. Offsets'
    BY <1>3, <2>1, <2>f, FieldFacts DEF IInv, Offsets, Placed, HasName, HeardNext
  <2>11. RoundDistinct'
    BY <2>1, <2>f, RoundSame DEF IInv
  <2>. QED
    BY <2>2, <2>3, <2>4, <2>5, <2>6, <2>7, <2>8, <2>9, <2>10, <2>11 DEF IInv
<1>. QED
  BY <1>1, <1>2, <1>3 DEF StartDecoder

LEMMA PlayFileStep ==
    ASSUME IInv, PlayFile
    PROVE  IInv'
<1>ty. /\ music \in PlaylistRecord /\ pl \in PlaylistThread /\ dec \in DecoderThread /\ ui \in MainThread
       /\ hw \in [init : BOOLEAN, codec : {"none", "held", "freed"}]
       /\ heard \in [song : SongOrNone, frame : 0 .. Frames]
       /\ ms \in BOOLEAN /\ (music.index \in Songs \/ Count = 1)
  BY TypeFacts
<1>1. CASE dec.ret = "DONE"
  <2>f. /\ music'.index = music.index /\ music'.random = music.random
        /\ music'.random_index = music.random_index /\ music'.random_played = music.random_played
        /\ music'.pause = music.pause /\ music'.change_track = music.change_track
        /\ music'.flags = music.flags /\ music'.resume = music.resume /\ music'.offset = 0
        /\ music'.file = music.file
    BY <1>1, <1>ty DEF PlayFile, Noted, PlaylistRecord, PlaylistThread, DecoderThread, MainThread
  <2>g. /\ dec'.at = "cleaned" /\ dec'.suspended = dec.suspended /\ dec'.late = dec.late
        /\ dec'.fd = "none" /\ dec'.pos = dec.pos /\ dec'.ret = "DONE"
    BY <1>1, <1>ty DEF PlayFile, Noted, PlaylistRecord, PlaylistThread, DecoderThread, MainThread
  <2>1. /\ UNCHANGED <<pl, ui, hw, ms, heard>>
        /\ dec.at = "end"
    BY <1>1, <1>ty DEF PlayFile, Noted, PlaylistRecord, PlaylistThread, DecoderThread, MainThread
  <2>a. music' \in PlaylistRecord
    BY <1>1, <1>ty, LenOK DEF PlayFile, Noted, PlaylistRecord, PlaylistThread, DecoderThread, MainThread
  <2>b. dec' \in DecoderThread
    BY <1>1, <1>ty, LenOK DEF PlayFile, Noted, PlaylistRecord, PlaylistThread, DecoderThread, MainThread
  <2>2. TypeOK'
    BY <2>1, <2>f, <2>g, <2>a, <2>b, <1>ty DEF TypeOK
  <2>3. Placed'
    BY <1>1, <2>1, <2>f, <2>g, FieldFacts DEF IInv, Placed
  <2>4. Codec'
    BY <1>1, <2>1, <2>f, <2>g, FieldFacts DEF IInv, Codec, Placed
  <2>5. Agreed'
    BY <1>1, <2>1, <2>f, <2>g, FieldFacts DEF IInv, Agreed, Codec
  <2>6. PausedQuiet'
    BY <1>1, <2>1, <2>f, <2>g, FieldFacts DEF IInv, PausedQuiet, Placed
  <2>7. HasName'
    BY <1>1, <2>1, <2>f, <2>g, FieldFacts, IndexOK DEF IInv, HasName, Placed
  <2>8. Ordered'
    BY <1>1, <2>1, <2>f, <2>g, FieldFacts DEF IInv, Ordered, Placed, HasName, Following
  <2>9. Owed'
    BY <1>1, <2>1, <2>f, <2>g, FieldFacts DEF IInv, Owed, Placed, HasName, Ordered, Following
  <2>10. Offsets'
    BY <1>1, <2>1, <2>f, <2>g, FieldFacts DEF IInv, Offsets, Placed, HasName, HeardNext
  <2>11. RoundDistinct'
    BY <2>1, <2>f, <2>g, RoundSame DEF IInv
  <2>. QED
    BY <2>2, <2>3, <2>4, <2>5, <2>6, <2>7, <2>8, <2>9, <2>10, <2>11 DEF IInv
<1>2. CASE dec.ret # "DONE" /\ pl.at = "clean"
  <2>f. /\ music'.index = music.index /\ music'.random = music.random
        /\ music'.random_index = music.random_index /\ music'.random_played = music.random_played
        /\ music'.pause = music.pause /\ music'.change_track = music.change_track
        /\ music'.flags = music.flags /\ music'.resume = TRUE /\ music'.offset = music.offset
        /\ music'.file = music.file
    BY <1>2, <1>ty DEF PlayFile, Noted, PlaylistRecord, PlaylistThread, DecoderThread, MainThread
  <2>g. /\ pl'.at = pl.at /\ pl'.song = pl.song /\ pl'.want = -1 /\ pl'.lost = TRUE
    BY <1>2, <1>ty DEF PlayFile, Noted, PlaylistRecord, PlaylistThread, DecoderThread, MainThread
  <2>h. /\ dec'.at = "cleaned" /\ dec'.suspended = dec.suspended /\ dec'.late = dec.late
        /\ dec'.fd = "none" /\ dec'.pos = dec.pos /\ dec'.ret = "DONE"
    BY <1>2, <1>ty DEF PlayFile, Noted, PlaylistRecord, PlaylistThread, DecoderThread, MainThread
  <2>1. /\ UNCHANGED <<ui, hw, ms, heard>>
        /\ dec.at = "end"
    BY <1>2, <1>ty DEF PlayFile, Noted, PlaylistRecord, PlaylistThread, DecoderThread, MainThread
  <2>a. music' \in PlaylistRecord
    BY <1>2, <1>ty, IndexOK DEF PlayFile, Noted, PlaylistRecord, PlaylistThread, DecoderThread, MainThread
  <2>b. dec' \in DecoderThread
    BY <1>2, <1>ty, IndexOK DEF PlayFile, Noted, PlaylistRecord, PlaylistThread, DecoderThread, MainThread
  <2>c. pl' \in PlaylistThread
    BY <1>2, <1>ty, IndexOK DEF PlayFile, Noted, PlaylistRecord, PlaylistThread, DecoderThread, MainThread
  <2>2. TypeOK'
    BY <2>1, <2>f, <2>g, <2>h, <2>a, <2>b, <2>c, <1>ty DEF TypeOK
  <2>3. Placed'
    BY <1>2, <2>1, <2>f, <2>g, <2>h, FieldFacts DEF IInv, Placed
  <2>4. Codec'
    BY <1>2, <2>1, <2>f, <2>g, <2>h, FieldFacts DEF IInv, Codec, Placed
  <2>5. Agreed'
    BY <1>2, <2>1, <2>f, <2>g, <2>h, FieldFacts DEF IInv, Agreed, Codec
  <2>6. PausedQuiet'
    BY <1>2, <2>1, <2>f, <2>g, <2>h, FieldFacts DEF IInv, PausedQuiet, Placed
  <2>7. HasName'
    BY <1>2, <2>1, <2>f, <2>g, <2>h, FieldFacts, IndexOK DEF IInv, HasName, Placed
  <2>8. Ordered'
    BY <1>2, <2>1, <2>f, <2>g, <2>h, FieldFacts DEF IInv, Ordered, Placed, HasName, Following
  <2>9. Owed'
    BY <1>2, <2>1, <2>f, <2>g, <2>h, FieldFacts DEF IInv, Owed, Placed, HasName, Ordered, Following
  <2>10. Offsets'
    BY <1>2, <2>1, <2>f, <2>g, <2>h, FieldFacts DEF IInv, Offsets, Placed, HasName, HeardNext
  <2>11. RoundDistinct'
    BY <2>1, <2>f, <2>g, <2>h, RoundSame DEF IInv
  <2>. QED
    BY <2>2, <2>3, <2>4, <2>5, <2>6, <2>7, <2>8, <2>9, <2>10, <2>11 DEF IInv
<1>3. CASE dec.ret # "DONE" /\ pl.at # "clean"
  <2>m. music.file \in Songs
    BY <1>3, <1>ty DEF PlayFile, IInv, Placed, HasName
  <2>n. music.file # -1
    BY <1>3, <1>ty, <2>m, IndexOK
  <2>f. /\ music'.index = music.index /\ music'.random = music.random
        /\ music'.random_index = music.random_index /\ music'.random_played = music.random_played
        /\ music'.pause = music.pause /\ music'.change_track = music.change_track
        /\ music'.flags = music.flags /\ music'.resume = TRUE /\ music'.offset = music.offset
        /\ music'.file = music.file
    BY <1>3, <1>ty DEF PlayFile, Noted, PlaylistRecord, PlaylistThread, DecoderThread, MainThread
  <2>g. /\ dec'.at = "cleaned" /\ dec'.suspended = dec.suspended /\ dec'.late = dec.late
        /\ dec'.fd = "none" /\ dec'.pos = dec.pos /\ dec'.ret = "DONE"
    BY <1>3, <1>ty DEF PlayFile, Noted, PlaylistRecord, PlaylistThread, DecoderThread, MainThread
  <2>1. /\ UNCHANGED <<pl, ui, hw, ms, heard>>
        /\ dec.at = "end"
    BY <1>3, <1>ty DEF PlayFile, Noted, PlaylistRecord, PlaylistThread, DecoderThread, MainThread
  <2>a. music' \in PlaylistRecord
    BY <1>3, <1>ty, <2>m, <2>n
       DEF PlayFile, Noted, PlaylistRecord, PlaylistThread, DecoderThread, MainThread
  <2>b. dec' \in DecoderThread
    BY <1>3, <1>ty, <2>m, <2>n
       DEF PlayFile, Noted, PlaylistRecord, PlaylistThread, DecoderThread, MainThread
  <2>2. TypeOK'
    BY <2>1, <2>f, <2>g, <2>a, <2>b, <1>ty DEF TypeOK
  <2>3. Placed'
    BY <1>3, <2>1, <2>f, <2>g, FieldFacts DEF IInv, Placed
  <2>4. Codec'
    BY <1>3, <2>1, <2>f, <2>g, FieldFacts DEF IInv, Codec, Placed
  <2>5. Agreed'
    BY <1>3, <2>1, <2>f, <2>g, FieldFacts DEF IInv, Agreed, Codec
  <2>6. PausedQuiet'
    BY <1>3, <2>1, <2>f, <2>g, FieldFacts DEF IInv, PausedQuiet, Placed
  <2>7. HasName'
    BY <1>3, <2>1, <2>f, <2>g, FieldFacts, <2>m, <2>n DEF IInv, HasName, Placed
  <2>8. Ordered'
    BY <1>3, <2>1, <2>f, <2>g, FieldFacts DEF IInv, Ordered, Placed, HasName, Following
  <2>9. Owed'
    BY <1>3, <2>1, <2>f, <2>g, FieldFacts DEF IInv, Owed, Placed, HasName, Ordered, Following
  <2>10. Offsets'
    BY <1>3, <2>1, <2>f, <2>g, FieldFacts DEF IInv, Offsets, Placed, HasName, HeardNext
  <2>11. RoundDistinct'
    BY <2>1, <2>f, <2>g, RoundSame DEF IInv
  <2>. QED
    BY <2>2, <2>3, <2>4, <2>5, <2>6, <2>7, <2>8, <2>9, <2>10, <2>11 DEF IInv
<1>. QED
  BY <1>1, <1>2, <1>3 DEF PlayFile


(* The songs before and after a song.                                         *)
LEMMA Neighbours ==
    ASSUME NEW f \in Songs
    PROVE  /\ Following(f) = IF f + 1 = Count THEN 0 ELSE f + 1
           /\ Preceding(f) = IF f = 0 THEN Count - 1 ELSE f - 1
           /\ Following(f) \in Songs /\ Preceding(f) \in Songs
<1>1. f \in 0 .. Count - 1 /\ Count \in Nat \ {0}
  BY MusicAssumption DEF Songs
<1>2. (f + 1) % Count = IF f + 1 = Count THEN 0 ELSE f + 1
  <2>1. CASE f + 1 = Count
    BY <1>1, <2>1
  <2>2. CASE f + 1 # Count
    BY <1>1, <2>2
  <2>. QED
    BY <2>1, <2>2
<1>3. (f - 1) % Count = IF f = 0 THEN Count - 1 ELSE f - 1
  <2>1. CASE f = 0
    BY <1>1, <2>1
  <2>2. CASE f # 0
    BY <1>1, <2>2
  <2>. QED
    BY <2>1, <2>2
<1>. QED
  BY <1>1, <1>2, <1>3 DEF Following, Preceding, Songs

(* A change of track that is not a step back.                                 *)
LEMMA TrackForward ==
    ASSUME NEW m \in PlaylistRecord, m.index \in Songs \/ Count = 1
    PROVE  LET n == TrackChanged([m EXCEPT !.change_track = 1])
           IN  /\ n \in PlaylistRecord
               /\ n.index = m.index
               /\ n.change_track = 0 /\ n.offset = 0 /\ n.resume = FALSE
               /\ n.pause = m.pause /\ n.random_index = m.random_index /\ n.random_played = m.random_played
               /\ n.random = m.random /\ n.flags = m.flags /\ n.file = m.file
<1>. DEFINE e == [m EXCEPT !.change_track = 1]
<1>1. /\ e \in PlaylistRecord
      /\ e.change_track = 1 /\ e.index = m.index
      /\ e.pause = m.pause /\ e.random_index = m.random_index /\ e.random_played = m.random_played
      /\ e.random = m.random /\ e.flags = m.flags /\ e.file = m.file
  BY DEF PlaylistRecord
<1>. HIDE DEF e
<1>2. e.index \in Songs \/ Count = 1
  BY <1>1
<1>. DEFINE n == TrackChanged(e)
<1>3. /\ n \in PlaylistRecord
      /\ n.index = IF e.change_track # -1 THEN e.index
                   ELSE IF e.index - 2 < 0 THEN e.index - 2 + Count ELSE e.index - 2
      /\ n.change_track = 0 /\ n.offset = 0 /\ n.resume = FALSE
      /\ n.pause = e.pause /\ n.random_index = e.random_index /\ n.random_played = e.random_played
      /\ n.random = e.random /\ n.flags = e.flags /\ n.file = e.file
  BY <1>1, <1>2, TrackChangedFacts
<1>. HIDE DEF n
<1>4. /\ n \in PlaylistRecord
      /\ n.index = m.index
      /\ n.change_track = 0 /\ n.offset = 0 /\ n.resume = FALSE
      /\ n.pause = m.pause /\ n.random_index = m.random_index /\ n.random_played = m.random_played
      /\ n.random = m.random /\ n.flags = m.flags /\ n.file = m.file
  BY <1>1, <1>3
<1>. QED
  BY <1>4 DEF n, e

LEMMA UnpauseWaitStep ==
    ASSUME IInv, UnpauseWait
    PROVE  IInv'
<1>ty. /\ music \in PlaylistRecord /\ pl \in PlaylistThread /\ dec \in DecoderThread /\ ui \in MainThread
       /\ hw \in [init : BOOLEAN, codec : {"none", "held", "freed"}]
       /\ heard \in [song : SongOrNone, frame : 0 .. Frames]
       /\ ms \in BOOLEAN /\ (music.index \in Songs \/ Count = 1)
  BY TypeFacts
<1>1. CASE music.change_track = 0
  <2>hw. hw' = [init |-> TRUE, codec |-> "held"]
    BY <1>1 DEF UnpauseWait
  <2>f. /\ pl'.at = "start" /\ pl'.song = pl.song /\ pl'.want = pl.want /\ pl'.lost = pl.lost
    BY <1>1, <1>ty, <2>hw DEF UnpauseWait, PlaylistRecord, PlaylistThread, DecoderThread, MainThread
  <2>g. /\ hw'.init = TRUE /\ hw'.codec = "held"
    BY <1>1, <1>ty, <2>hw DEF UnpauseWait, PlaylistRecord, PlaylistThread, DecoderThread, MainThread
  <2>1. /\ UNCHANGED <<music, dec, ui, ms, heard>>
        /\ pl.at = "unpause"
    BY <1>1, <1>ty, <2>hw DEF UnpauseWait, PlaylistRecord, PlaylistThread, DecoderThread, MainThread
  <2>a. hw' \in [init : BOOLEAN, codec : {"none", "held", "freed"}]
    BY <2>hw, <1>ty DEF PlaylistRecord, PlaylistThread, DecoderThread, MainThread
  <2>b. pl' \in PlaylistThread
    BY <1>1, <1>ty, <2>hw DEF UnpauseWait, PlaylistRecord, PlaylistThread, DecoderThread, MainThread
  <2>2. TypeOK'
    BY <2>1, <2>f, <2>g, <2>a, <2>b, <1>ty DEF TypeOK
  <2>3. Placed'
    BY <1>1, <2>1, <2>f, <2>g, FieldFacts DEF IInv, Placed
  <2>4. Codec'
    BY <1>1, <2>1, <2>f, <2>g, FieldFacts DEF IInv, Codec, Placed
  <2>5. Agreed'
    BY <1>1, <2>1, <2>f, <2>g, FieldFacts DEF IInv, Agreed, Codec
  <2>6. PausedQuiet'
    BY <1>1, <2>1, <2>f, <2>g, FieldFacts DEF IInv, PausedQuiet, Placed
  <2>7. HasName'
    BY <1>1, <2>1, <2>f, <2>g, FieldFacts, IndexOK DEF IInv, HasName, Placed
  <2>8. Ordered'
    BY <1>1, <2>1, <2>f, <2>g, FieldFacts DEF IInv, Ordered, Placed, HasName, Following
  <2>9. Owed'
    BY <1>1, <2>1, <2>f, <2>g, FieldFacts DEF IInv, Owed, Placed, HasName, Ordered, Following
  <2>10. Offsets'
    BY <1>1, <2>1, <2>f, <2>g, FieldFacts DEF IInv, Offsets, Placed, HasName, HeardNext
  <2>11. RoundDistinct'
    BY <2>1, <2>f, <2>g, RoundSame DEF IInv
  <2>. QED
    BY <2>2, <2>3, <2>4, <2>5, <2>6, <2>7, <2>8, <2>9, <2>10, <2>11 DEF IInv
<1>2. CASE music.change_track # 0 /\ music.pause = "PAUSED"
  <2>music. music' = TrackChanged(music)
    BY <1>2 DEF UnpauseWait
  <2>pl. pl' = [pl EXCEPT !.at = "choose", !.want = -1]
    BY <1>2 DEF UnpauseWait
  <2>f. /\ music'.random = music.random /\ music'.random_index = music.random_index
        /\ music'.random_played = music.random_played /\ music'.pause = music.pause
        /\ music'.change_track = 0 /\ music'.flags = music.flags /\ music'.resume = FALSE
        /\ music'.offset = 0 /\ music'.file = music.file
    BY <1>2, <1>ty, <2>music, TrackChangedFacts
       DEF UnpauseWait, PlaylistRecord, PlaylistThread, DecoderThread, MainThread
  <2>g. /\ pl'.at = "choose" /\ pl'.song = pl.song /\ pl'.want = -1 /\ pl'.lost = pl.lost
    BY <1>2, <1>ty, <2>music, TrackChangedFacts
       DEF UnpauseWait, PlaylistRecord, PlaylistThread, DecoderThread, MainThread
  <2>1. /\ UNCHANGED <<dec, ui, hw, ms, heard>>
        /\ pl.at = "unpause"
        /\ music'.index = IF music.change_track # -1 THEN music.index
             ELSE IF music.index - 2 < 0 THEN music.index - 2 + Count ELSE music.index - 2
    BY <1>2, <1>ty, <2>music, TrackChangedFacts
       DEF UnpauseWait, PlaylistRecord, PlaylistThread, DecoderThread, MainThread
  <2>a. music' \in PlaylistRecord
    BY <2>music, <1>ty, TrackChangedFacts, IndexOK
       DEF PlaylistRecord, PlaylistThread, DecoderThread, MainThread
  <2>b. pl' \in PlaylistThread
    BY <2>pl, <1>ty, TrackChangedFacts, IndexOK
       DEF PlaylistRecord, PlaylistThread, DecoderThread, MainThread
  <2>2. TypeOK'
    BY <2>1, <2>f, <2>g, <2>a, <2>b, <1>ty, TrackChangedFacts, <2>music DEF TypeOK
  <2>3. Placed'
    BY <1>2, <2>1, <2>f, <2>g, FieldFacts DEF IInv, Placed
  <2>4. Codec'
    BY <1>2, <2>1, <2>f, <2>g, FieldFacts DEF IInv, Codec, Placed
  <2>5. Agreed'
    BY <1>2, <2>1, <2>f, <2>g, FieldFacts DEF IInv, Agreed, Codec
  <2>6. PausedQuiet'
    BY <1>2, <2>1, <2>f, <2>g, FieldFacts DEF IInv, PausedQuiet, Placed
  <2>7. HasName'
    BY <1>2, <2>1, <2>f, <2>g, FieldFacts, IndexOK DEF IInv, HasName, Placed
  <2>8. Ordered'
    BY <1>2, <2>1, <2>f, <2>g, FieldFacts DEF IInv, Ordered, Placed, HasName, Following
  <2>9. Owed'
    BY <1>2, <2>1, <2>f, <2>g, FieldFacts DEF IInv, Owed, Placed, HasName, Ordered, Following
  <2>10. Offsets'
    BY <1>2, <2>1, <2>f, <2>g, FieldFacts DEF IInv, Offsets, Placed, HasName, HeardNext
  <2>11. RoundDistinct'
    BY <2>1, <2>f, <2>g, RoundSame DEF IInv
  <2>. QED
    BY <2>2, <2>3, <2>4, <2>5, <2>6, <2>7, <2>8, <2>9, <2>10, <2>11 DEF IInv
<1>3. CASE music.change_track # 0 /\ music.pause # "PAUSED"
  <2>m. music' = TrackChanged([music EXCEPT !.change_track = 1])
    BY <1>3, <1>ty DEF UnpauseWait
  <2>pl. pl' = [pl EXCEPT !.at = "choose", !.want = -1]
    BY <1>3 DEF UnpauseWait
  <2>f. /\ music'.index = music.index /\ music'.random = music.random
        /\ music'.random_index = music.random_index /\ music'.random_played = music.random_played
        /\ music'.pause = music.pause /\ music'.change_track = 0 /\ music'.flags = music.flags
        /\ music'.resume = FALSE /\ music'.offset = 0 /\ music'.file = music.file
    BY <2>m, <1>ty, TrackForward
  <2>g. /\ pl'.at = "choose" /\ pl'.song = pl.song /\ pl'.want = -1 /\ pl'.lost = pl.lost
    BY <1>3, <1>ty DEF UnpauseWait, PlaylistRecord, PlaylistThread, DecoderThread, MainThread
  <2>1. /\ UNCHANGED <<dec, ui, hw, ms, heard>>
        /\ pl.at = "unpause"
    BY <1>3, <1>ty DEF UnpauseWait, PlaylistRecord, PlaylistThread, DecoderThread, MainThread
  <2>a. music' \in PlaylistRecord
    BY <2>m, <1>ty, TrackForward
  <2>b. pl' \in PlaylistThread
    BY <2>pl, <1>ty, IndexOK, <2>m DEF PlaylistRecord, PlaylistThread, DecoderThread, MainThread
  <2>2. TypeOK'
    BY <2>1, <2>f, <2>g, <2>a, <2>b, <1>ty DEF TypeOK
  <2>3. Placed'
    BY <1>3, <2>1, <2>f, <2>g, FieldFacts DEF IInv, Placed
  <2>4. Codec'
    BY <1>3, <2>1, <2>f, <2>g, FieldFacts DEF IInv, Codec, Placed
  <2>5. Agreed'
    BY <1>3, <2>1, <2>f, <2>g, FieldFacts DEF IInv, Agreed, Codec
  <2>6. PausedQuiet'
    BY <1>3, <2>1, <2>f, <2>g, FieldFacts DEF IInv, PausedQuiet, Placed
  <2>7. HasName'
    BY <1>3, <2>1, <2>f, <2>g, FieldFacts, IndexOK DEF IInv, HasName, Placed
  <2>8. Ordered'
    BY <1>3, <2>1, <2>f, <2>g, FieldFacts DEF IInv, Ordered, Placed, HasName, Following
  <2>9. Owed'
    BY <1>3, <2>1, <2>f, <2>g, FieldFacts DEF IInv, Owed, Placed, HasName, Ordered, Following
  <2>10. Offsets'
    BY <1>3, <2>1, <2>f, <2>g, FieldFacts DEF IInv, Offsets, Placed, HasName, HeardNext
  <2>11. RoundDistinct'
    BY <2>1, <2>f, <2>g, RoundSame DEF IInv
  <2>. QED
    BY <2>2, <2>3, <2>4, <2>5, <2>6, <2>7, <2>8, <2>9, <2>10, <2>11 DEF IInv
<1>. QED
  BY <1>1, <1>2, <1>3 DEF UnpauseWait


(* A song not played yet, noted after those that were.                        *)
LEMMA PlayedOnce ==
    ASSUME NEW rp \in Orders, NEW k \in 0 .. Count - 1, NEW s \in Songs,
           \A i \in 0 .. k - 1 : rp[i] # s,
           \A i, j \in 0 .. k - 1 : i # j /\ rp[i] # -1 => rp[i] # rp[j]
    PROVE  LET q == [rp EXCEPT ![k] = s]
           IN  q \in Orders /\ \A i, j \in 0 .. k : i # j /\ q[i] # -1 => q[i] # q[j]
<1>. DEFINE q == [rp EXCEPT ![k] = s]
<1>1. k \in Int /\ 0 <= k /\ k < Count /\ Count \in Int
  BY CountOK
<1>2. q \in Orders
  BY <1>1, IndexOK DEF Orders
<1>3. q[k] = s /\ (\A i \in 0 .. k - 1 : q[i] = rp[i])
  BY <1>1 DEF Orders, Songs
<1>. HIDE DEF q
<1>4. ASSUME NEW i \in 0 .. k, NEW j \in 0 .. k, i # j, q[i] # -1
      PROVE  q[i] # q[j]
  <2>1. CASE i = k
    BY <1>1, <1>3, <1>4, <2>1
  <2>2. CASE j = k
    BY <1>1, <1>3, <1>4, <2>2
  <2>3. CASE i # k /\ j # k
    BY <1>1, <1>3, <1>4, <2>3
  <2>. QED
    BY <2>1, <2>2, <2>3
<1>. QED
  BY <1>2, <1>4 DEF q

LEMMA ChooseSongStep ==
    ASSUME IInv, ChooseSong
    PROVE  IInv'
<1>ty. /\ music \in PlaylistRecord /\ pl \in PlaylistThread /\ dec \in DecoderThread /\ ui \in MainThread
       /\ hw \in [init : BOOLEAN, codec : {"none", "held", "freed"}]
       /\ heard \in [song : SongOrNone, frame : 0 .. Frames]
       /\ ms \in BOOLEAN /\ (music.index \in Songs \/ Count = 1)
  BY TypeFacts
<1>1. CASE music.random /\ music.random_index >= Count /\ music.resume
  <2>m. music' = ResetPlaylist(music) /\ ResetPlaylist(music).resume
    BY <1>1, <1>ty, ResetFacts DEF ChooseSong
  <2>l. pl' = [pl EXCEPT !.at = "title"]
    BY <1>1, <1>ty, ResetFacts DEF ChooseSong
  <2>f. /\ music'.index = 0 /\ music'.random = music.random /\ music'.random_index = 0
        /\ music'.random_played = Blank /\ music'.pause = music.pause
        /\ music'.change_track = music.change_track /\ music'.flags = music.flags
        /\ music'.resume = music.resume /\ music'.offset = music.offset /\ music'.file = music.file
    BY <2>m, <1>ty, ResetFacts
  <2>g. /\ pl'.at = "title" /\ pl'.song = pl.song /\ pl'.want = pl.want /\ pl'.lost = pl.lost
    BY <2>l, <1>ty DEF PlaylistThread
  <2>1. /\ UNCHANGED <<dec, ui, hw, ms, heard>>
        /\ pl.at = "choose"
    BY <1>1, <1>ty, ResetFacts DEF ChooseSong, PlaylistRecord, PlaylistThread, DecoderThread, MainThread
  <2>a. music' \in PlaylistRecord
    BY <2>m, <1>ty, ResetFacts
  <2>b. pl' \in PlaylistThread
    BY <2>l, <1>ty DEF PlaylistThread
  <2>2. TypeOK'
    BY <2>1, <2>f, <2>g, <2>a, <2>b, <1>ty, IndexOK DEF TypeOK
  <2>3. Placed'
    BY <1>1, <2>1, <2>f, <2>g, FieldFacts DEF IInv, Placed
  <2>4. Codec'
    BY <1>1, <2>1, <2>f, <2>g, FieldFacts DEF IInv, Codec, Placed
  <2>5. Agreed'
    BY <1>1, <2>1, <2>f, <2>g, FieldFacts DEF IInv, Agreed, Codec
  <2>6. PausedQuiet'
    BY <1>1, <2>1, <2>f, <2>g, FieldFacts DEF IInv, PausedQuiet, Placed
  <2>7. HasName'
    BY <1>1, <2>1, <2>f, <2>g, FieldFacts, IndexOK DEF IInv, HasName, Placed
  <2>8. Ordered'
    BY <1>1, <2>1, <2>f, <2>g, FieldFacts DEF IInv, Ordered, Placed, HasName, Following
  <2>9. Owed'
    BY <1>1, <2>1, <2>f, <2>g, FieldFacts DEF IInv, Owed, Placed, HasName, Ordered, Following
  <2>10. Offsets'
    BY <1>1, <2>1, <2>f, <2>g, FieldFacts DEF IInv, Offsets, Placed, HasName, HeardNext
  <2>11. RoundDistinct'
    BY <2>1, <2>f, <2>g, RoundNone
  <2>. QED
    BY <2>2, <2>3, <2>4, <2>5, <2>6, <2>7, <2>8, <2>9, <2>10, <2>11 DEF IInv
<1>2. CASE ~(music.random /\ music.random_index >= Count) /\ music.resume
  <2>f. /\ music'.index = music.index /\ music'.random = music.random
        /\ music'.random_index = music.random_index /\ music'.random_played = music.random_played
        /\ music'.pause = music.pause /\ music'.change_track = music.change_track
        /\ music'.flags = music.flags /\ music'.resume = music.resume /\ music'.offset = music.offset
        /\ music'.file = music.file
    BY <1>2, <1>ty DEF ChooseSong, PlaylistRecord, PlaylistThread, DecoderThread, MainThread
  <2>g. /\ pl'.at = "title" /\ pl'.song = pl.song /\ pl'.want = pl.want /\ pl'.lost = pl.lost
    BY <1>2, <1>ty DEF ChooseSong, PlaylistRecord, PlaylistThread, DecoderThread, MainThread
  <2>1. /\ UNCHANGED <<dec, ui, hw, ms, heard>>
        /\ pl.at = "choose"
    BY <1>2, <1>ty DEF ChooseSong, PlaylistRecord, PlaylistThread, DecoderThread, MainThread
  <2>a. music' \in PlaylistRecord
    BY <1>2, <1>ty DEF ChooseSong, PlaylistRecord, PlaylistThread, DecoderThread, MainThread
  <2>b. pl' \in PlaylistThread
    BY <1>2, <1>ty DEF ChooseSong, PlaylistRecord, PlaylistThread, DecoderThread, MainThread
  <2>2. TypeOK'
    BY <2>1, <2>f, <2>g, <2>a, <2>b, <1>ty DEF TypeOK
  <2>3. Placed'
    BY <1>2, <2>1, <2>f, <2>g, FieldFacts DEF IInv, Placed
  <2>4. Codec'
    BY <1>2, <2>1, <2>f, <2>g, FieldFacts DEF IInv, Codec, Placed
  <2>5. Agreed'
    BY <1>2, <2>1, <2>f, <2>g, FieldFacts DEF IInv, Agreed, Codec
  <2>6. PausedQuiet'
    BY <1>2, <2>1, <2>f, <2>g, FieldFacts DEF IInv, PausedQuiet, Placed
  <2>7. HasName'
    BY <1>2, <2>1, <2>f, <2>g, FieldFacts, IndexOK DEF IInv, HasName, Placed
  <2>8. Ordered'
    BY <1>2, <2>1, <2>f, <2>g, FieldFacts DEF IInv, Ordered, Placed, HasName, Following
  <2>9. Owed'
    BY <1>2, <2>1, <2>f, <2>g, FieldFacts DEF IInv, Owed, Placed, HasName, Ordered, Following
  <2>10. Offsets'
    BY <1>2, <2>1, <2>f, <2>g, FieldFacts DEF IInv, Offsets, Placed, HasName, HeardNext
  <2>11. RoundDistinct'
    BY <2>1, <2>f, <2>g, RoundSame DEF IInv
  <2>. QED
    BY <2>2, <2>3, <2>4, <2>5, <2>6, <2>7, <2>8, <2>9, <2>10, <2>11 DEF IInv
<1>3. CASE ~music.random /\ ~music.resume
  <2>m. music.index \in Indices
    BY <1>3, <1>ty DEF PlaylistRecord
  <2>f. /\ pl'.at = "name_in_turn" /\ pl'.song = music.index /\ pl'.want = pl.want /\ pl'.lost = FALSE
    BY <1>3, <1>ty DEF ChooseSong, PlaylistRecord, PlaylistThread, DecoderThread, MainThread
  <2>1. /\ UNCHANGED <<music, dec, ui, hw, ms, heard>>
        /\ pl.at = "choose"
    BY <1>3, <1>ty DEF ChooseSong, PlaylistRecord, PlaylistThread, DecoderThread, MainThread
  <2>a. pl' \in PlaylistThread
    BY <1>3, <1>ty, <2>m DEF ChooseSong, PlaylistRecord, PlaylistThread, DecoderThread, MainThread
  <2>2. TypeOK'
    BY <2>1, <2>f, <2>a, <1>ty DEF TypeOK
  <2>3. Placed'
    BY <1>3, <2>1, <2>f, FieldFacts DEF IInv, Placed
  <2>4. Codec'
    BY <1>3, <2>1, <2>f, FieldFacts DEF IInv, Codec, Placed
  <2>5. Agreed'
    BY <1>3, <2>1, <2>f, FieldFacts DEF IInv, Agreed, Codec
  <2>6. PausedQuiet'
    BY <1>3, <2>1, <2>f, FieldFacts DEF IInv, PausedQuiet, Placed
  <2>7. HasName'
    BY <1>3, <2>1, <2>f, FieldFacts, IndexOK DEF IInv, HasName, Placed
  <2>8. Ordered'
    BY <1>3, <2>1, <2>f, FieldFacts DEF IInv, Ordered, Placed, HasName, Following
  <2>9. Owed'
    BY <1>3, <2>1, <2>f, FieldFacts DEF IInv, Owed, Placed, HasName, Ordered, Following
  <2>10. Offsets'
    BY <1>3, <2>1, <2>f, FieldFacts DEF IInv, Offsets, Placed, HasName, HeardNext
  <2>11. RoundDistinct'
    BY <2>1, <2>f, RoundSame DEF IInv
  <2>. QED
    BY <2>2, <2>3, <2>4, <2>5, <2>6, <2>7, <2>8, <2>9, <2>10, <2>11 DEF IInv
<1>4. CASE music.random /\ ~music.resume
  <2>p. PICK m \in PlaylistRecord, s \in Songs :
               /\ m.random_index < Count /\ s \in RandomSongs(m)
               /\ m.random_index = 0 \/ (m.random_index = music.random_index /\
                    m.random_played = music.random_played)
               /\ m.random = music.random /\ m.resume = music.resume /\ m.offset = music.offset
               /\ m.file = music.file
               /\ m.pause = music.pause /\ m.change_track = music.change_track /\ m.flags = music.flags
               /\ music' = [m EXCEPT !.index = s, !.random_played[m.random_index] = s, !.random_index = @ + 1]
               /\ pl' = [pl EXCEPT !.at = "name", !.song = s]
    <3>1. CASE music.random /\ music.random_index >= Count
      <4>1. /\ ResetPlaylist(music) \in PlaylistRecord
            /\ ResetPlaylist(music).random_index = 0
            /\ ResetPlaylist(music).random = music.random
            /\ ResetPlaylist(music).resume = music.resume
            /\ ResetPlaylist(music).offset = music.offset
            /\ ResetPlaylist(music).file = music.file
            /\ ResetPlaylist(music).pause = music.pause
            /\ ResetPlaylist(music).change_track = music.change_track
            /\ ResetPlaylist(music).flags = music.flags
        BY <1>ty, ResetFacts
      <4>2. PICK s \in RandomSongs(ResetPlaylist(music)) :
               /\ music' = [ResetPlaylist(music) EXCEPT !.index = s,
                              !.random_played[ResetPlaylist(music).random_index] = s, !.random_index = @ + 1]
               /\ pl' = [pl EXCEPT !.at = "name", !.song = s]
        BY <1>4, <3>1, <4>1 DEF ChooseSong
      <4>3. s \in Songs
        BY DEF RandomSongs
      <4>. QED
        BY <4>1, <4>2, <4>3, CountOK
    <3>2. CASE ~(music.random /\ music.random_index >= Count)
      <4>1. PICK s \in RandomSongs(music) :
               /\ music' = [music EXCEPT !.index = s, !.random_played[music.random_index] = s,
                    !.random_index = @ + 1]
               /\ pl' = [pl EXCEPT !.at = "name", !.song = s]
        BY <1>4, <3>2 DEF ChooseSong
      <4>2. s \in Songs
        BY DEF RandomSongs
      <4>3. music.random_index < Count
        BY <1>4, <3>2, FieldFacts, CountOK
      <4>. QED
        BY <1>ty, <4>1, <4>2, <4>3
    <3>. QED
      BY <3>1, <3>2
  <2>k. /\ m.random_index \in 0 .. Count - 1 /\ m.random_index + 1 \in 0 .. Count
        /\ m.random_played \in Orders /\ s \in Indices
    BY <1>4, <1>ty, <2>p, CountOK, IndexOK DEF PlaylistRecord
  <2>q. /\ \A i \in 0 .. m.random_index - 1 : m.random_played[i] # s
        /\ \A i, j \in 0 .. m.random_index - 1 :
              i # j /\ m.random_played[i] # -1 => m.random_played[i] # m.random_played[j]
    BY <1>4, <1>ty, <2>p, <2>k DEF RandomSongs, IInv, RoundDistinct
  <2>r. /\ [m.random_played EXCEPT ![m.random_index] = s] \in Orders
        /\ \A i, j \in 0 .. m.random_index : i # j /\ [m.random_played EXCEPT ![m.random_index] = s][i] # -1
              => [m.random_played EXCEPT ![m.random_index] = s][i] # [m.random_played EXCEPT ![m.random_index] = s][j]
    BY <1>4, <1>ty, <2>k, <2>q, PlayedOnce
  <2>f. /\ music'.index = s /\ music'.random = music.random /\ music'.random_index = m.random_index + 1
        /\ music'.random_played = [m.random_played EXCEPT ![m.random_index] = s]
        /\ music'.pause = music.pause /\ music'.change_track = music.change_track
        /\ music'.flags = music.flags /\ music'.resume = music.resume /\ music'.offset = music.offset
        /\ music'.file = music.file
    BY <2>p, <2>k, <2>r DEF PlaylistRecord
  <2>g. /\ pl'.at = "name" /\ pl'.song = s /\ pl'.want = pl.want /\ pl'.lost = pl.lost
    BY <2>p, <2>k, <1>ty DEF PlaylistThread
  <2>1. /\ UNCHANGED <<dec, ui, hw, ms, heard>>
        /\ pl.at = "choose"
    BY <1>4, <1>ty DEF ChooseSong, PlaylistRecord, PlaylistThread, DecoderThread, MainThread
  <2>a. music' \in PlaylistRecord
    BY <2>p, <2>k, <2>r DEF PlaylistRecord
  <2>b. pl' \in PlaylistThread
    BY <2>p, <2>k, <1>ty DEF PlaylistThread
  <2>2. TypeOK'
    BY <2>1, <2>f, <2>g, <2>a, <2>b, <1>ty, <2>p DEF TypeOK
  <2>3. Placed'
    BY <1>4, <2>1, <2>f, <2>g, FieldFacts DEF IInv, Placed
  <2>4. Codec'
    BY <1>4, <2>1, <2>f, <2>g, FieldFacts DEF IInv, Codec, Placed
  <2>5. Agreed'
    BY <1>4, <2>1, <2>f, <2>g, FieldFacts DEF IInv, Agreed, Codec
  <2>6. PausedQuiet'
    BY <1>4, <2>1, <2>f, <2>g, FieldFacts DEF IInv, PausedQuiet, Placed
  <2>7. HasName'
    BY <1>4, <2>1, <2>f, <2>g, FieldFacts, IndexOK DEF IInv, HasName, Placed
  <2>8. Ordered'
    BY <1>4, <2>1, <2>f, <2>g, FieldFacts DEF IInv, Ordered, Placed, HasName, Following
  <2>9. Owed'
    BY <1>4, <2>1, <2>f, <2>g, FieldFacts DEF IInv, Owed, Placed, HasName, Ordered, Following
  <2>10. Offsets'
    BY <1>4, <2>1, <2>f, <2>g, FieldFacts DEF IInv, Offsets, Placed, HasName, HeardNext
  <2>11. RoundDistinct'
    BY <2>f, <2>k, <2>r DEF RoundDistinct
  <2>. QED
    BY <2>2, <2>3, <2>4, <2>5, <2>6, <2>7, <2>8, <2>9, <2>10, <2>11 DEF IInv
<1>. QED
  BY <1>1, <1>2, <1>3, <1>4 DEF ChooseSong


LEMMA NamedFacts ==
    ASSUME NEW m \in PlaylistRecord, NEW s \in Indices
    PROVE  LET n == Named(m, s)
           IN  /\ n \in PlaylistRecord
               /\ n.file = IF ms /\ s \in Songs THEN s ELSE m.file
               /\ n.index = m.index
               /\ n.pause = m.pause /\ n.random_index = m.random_index /\ n.random_played = m.random_played
               /\ n.random = m.random /\ n.change_track = m.change_track
               /\ n.flags = m.flags /\ n.resume = m.resume /\ n.offset = m.offset
BY IndexOK DEF Named, PlaylistRecord

(* The index moves on; after the last song the playlist starts again.         *)
LEMMA AdvancedFacts ==
    ASSUME NEW m \in PlaylistRecord
    PROVE  LET n == Advanced(m)
               again == m.index + 1 >= Count
           IN  /\ n \in PlaylistRecord
               /\ n.index = IF again THEN 0 ELSE m.index + 1
               /\ n.random_index = IF again THEN 0 ELSE m.random_index
               /\ n.random_played = IF again THEN Blank ELSE m.random_played
               /\ n.random = m.random /\ n.pause = m.pause /\ n.change_track = m.change_track
               /\ n.flags = m.flags /\ n.resume = m.resume /\ n.offset = m.offset /\ n.file = m.file
<1>1. m.index \in Int /\ m.index < Count /\ Count \in Nat
  BY IndexOK, CountOK DEF PlaylistRecord
<1>. DEFINE e == [m EXCEPT !.index = m.index + 1]
<1>2. Advanced(m) = IF e.index >= Count THEN ResetPlaylist(e) ELSE e
  BY DEF Advanced
<1>3. /\ e.index = m.index + 1
      /\ e.random = m.random /\ e.pause = m.pause /\ e.change_track = m.change_track
      /\ e.random_index = m.random_index /\ e.random_played = m.random_played
      /\ e.flags = m.flags /\ e.resume = m.resume /\ e.offset = m.offset /\ e.file = m.file
  BY DEF PlaylistRecord
<1>4. CASE m.index + 1 >= Count
  <2>1. m.index + 1 = Count
    BY <1>1, <1>4
  <2>2. Advanced(m) = ResetPlaylist(e)
    BY <1>2, <1>3, <1>4
  <2>3. ResetPlaylist(e) = [m EXCEPT !.index = 0, !.random_index = 0, !.random_played = Blank]
    BY DEF ResetPlaylist, Rewind, PlaylistRecord
  <2>a. [m EXCEPT !.index = 0, !.random_index = 0, !.random_played = Blank] \in PlaylistRecord
    BY IndexOK, BlankOK, CountRange DEF PlaylistRecord
  <2>b. Advanced(m) = [m EXCEPT !.index = 0, !.random_index = 0, !.random_played = Blank]
    BY <2>2, <2>3
  <2>4. /\ Advanced(m) \in PlaylistRecord
        /\ Advanced(m).index = 0 /\ Advanced(m).random_index = 0 /\ Advanced(m).random_played = Blank
    BY <2>a, <2>b DEF PlaylistRecord
  <2>5. /\ Advanced(m).random = m.random /\ Advanced(m).pause = m.pause /\
             Advanced(m).change_track = m.change_track
        /\ Advanced(m).flags = m.flags /\ Advanced(m).resume = m.resume /\ Advanced(m).offset = m.offset
        /\ Advanced(m).file = m.file
    BY <2>2, <2>3 DEF PlaylistRecord
  <2>. QED
    BY <1>4, <2>4, <2>5
<1>5. CASE ~(m.index + 1 >= Count)
  <2>1. m.index + 1 \in Indices
    BY <1>1, <1>5 DEF Indices
  <2>2. e \in PlaylistRecord
    BY <2>1 DEF PlaylistRecord
  <2>3. Advanced(m) = e
    BY <1>2, <1>3, <1>5
  <2>. HIDE DEF e
  <2>. QED
    BY <1>3, <1>5, <2>2, <2>3
<1>. QED
  BY <1>4, <1>5

LEMMA NameSongStep ==
    ASSUME IInv, NameSong
    PROVE  IInv'
<1>ty. /\ music \in PlaylistRecord /\ pl \in PlaylistThread /\ dec \in DecoderThread /\ ui \in MainThread
       /\ hw \in [init : BOOLEAN, codec : {"none", "held", "freed"}]
       /\ heard \in [song : SongOrNone, frame : 0 .. Frames]
       /\ ms \in BOOLEAN /\ (music.index \in Songs \/ Count = 1)
  BY TypeFacts
<1>1. CASE pl.at = "name"
  <2>s. pl.song \in Indices
    BY <1>1, <1>ty DEF PlaylistThread
  <2>l. pl' = [pl EXCEPT !.at = "title", !.song = -1, !.lost = pl.lost \/ ~ms]
    BY <1>1, <1>ty DEF NameSong
  <2>n. /\ Named(music, pl.song) \in PlaylistRecord
        /\ Named(music, pl.song).file = IF ms /\ pl.song \in Songs THEN pl.song ELSE music.file
        /\ Named(music, pl.song).index = music.index
        /\ Named(music, pl.song).random = music.random
        /\ Named(music, pl.song).random_index = music.random_index
        /\ Named(music, pl.song).random_played = music.random_played
        /\ Named(music, pl.song).pause = music.pause
        /\ Named(music, pl.song).change_track = music.change_track
        /\ Named(music, pl.song).flags = music.flags
        /\ Named(music, pl.song).resume = music.resume
        /\ Named(music, pl.song).offset = music.offset
    BY <1>1, <1>ty, <2>s, NamedFacts
  <2>m. music' = Named(music, pl.song)
    BY <1>1, <1>ty DEF NameSong
  <2>f. /\ music'.index = music.index /\ music'.random = music.random
        /\ music'.random_index = music.random_index /\ music'.random_played = music.random_played
        /\ music'.pause = music.pause /\ music'.change_track = music.change_track
        /\ music'.flags = music.flags /\ music'.resume = music.resume /\ music'.offset = music.offset
        /\ music'.file = IF ms /\ pl.song \in Songs THEN pl.song ELSE music.file
    BY <2>m, <2>n
  <2>g. /\ pl'.at = "title" /\ pl'.song = -1 /\ pl'.want = pl.want /\ pl'.lost = (pl.lost \/ ~ms)
    BY <2>l, <1>ty, IndexOK DEF PlaylistThread
  <2>1. /\ UNCHANGED <<dec, ui, hw, ms, heard>>
    BY <1>1, <1>ty DEF NameSong, PlaylistRecord, PlaylistThread, DecoderThread, MainThread
  <2>a. music' \in PlaylistRecord
    BY <2>m, <2>n
  <2>b. pl' \in PlaylistThread
    BY <2>l, <1>ty, IndexOK DEF PlaylistThread
  <2>2. TypeOK'
    BY <2>1, <2>f, <2>g, <2>a, <2>b, <1>ty DEF TypeOK
  <2>3. Placed'
    BY <1>1, <2>1, <2>f, <2>g, FieldFacts DEF IInv, Placed
  <2>4. Codec'
    BY <1>1, <2>1, <2>f, <2>g, FieldFacts DEF IInv, Codec, Placed
  <2>5. Agreed'
    BY <1>1, <2>1, <2>f, <2>g, FieldFacts DEF IInv, Agreed, Codec
  <2>6. PausedQuiet'
    BY <1>1, <2>1, <2>f, <2>g, FieldFacts DEF IInv, PausedQuiet, Placed
  <2>7. HasName'
    BY <1>1, <2>1, <2>f, <2>g, FieldFacts, IndexOK DEF IInv, HasName, Placed
  <2>8. Ordered'
    BY <1>1, <2>1, <2>f, <2>g, FieldFacts DEF IInv, Ordered, Placed, HasName, Following
  <2>9. Owed'
    BY <1>1, <2>1, <2>f, <2>g, FieldFacts DEF IInv, Owed, Placed, HasName, Ordered, Following
  <2>10. Offsets'
    BY <1>1, <2>1, <2>f, <2>g, FieldFacts DEF IInv, Offsets, Placed, HasName, HeardNext
  <2>11. RoundDistinct'
    BY <2>1, <2>f, <2>g, RoundSame DEF IInv
  <2>. QED
    BY <2>2, <2>3, <2>4, <2>5, <2>6, <2>7, <2>8, <2>9, <2>10, <2>11 DEF IInv
<1>2. CASE pl.at = "name_in_turn" /\ music.index + 1 < Count
  <2>s. pl.song \in Indices
    BY <1>2, <1>ty DEF PlaylistThread
  <2>l. pl' = [pl EXCEPT !.at = "title", !.song = -1, !.lost = pl.lost \/ ~ms]
    BY <1>2, <1>ty DEF NameSong
  <2>n. /\ Named(music, pl.song) \in PlaylistRecord
        /\ Named(music, pl.song).file = IF ms /\ pl.song \in Songs THEN pl.song ELSE music.file
        /\ Named(music, pl.song).index = music.index
        /\ Named(music, pl.song).random = music.random
        /\ Named(music, pl.song).random_index = music.random_index
        /\ Named(music, pl.song).random_played = music.random_played
        /\ Named(music, pl.song).pause = music.pause
        /\ Named(music, pl.song).change_track = music.change_track
        /\ Named(music, pl.song).flags = music.flags
        /\ Named(music, pl.song).resume = music.resume
        /\ Named(music, pl.song).offset = music.offset
    BY <1>2, <1>ty, <2>s, NamedFacts
  <2>m. music' = Advanced(Named(music, pl.song))
    BY <1>2, <1>ty DEF NameSong
  <2>t. ~(Named(music, pl.song).index + 1 >= Count)
    BY <1>2, <1>ty, <2>n, FieldFacts, CountOK
  <2>v. (IF ms /\ pl.song \in Songs THEN pl.song ELSE music.file) \in Songs
    BY <1>2, <1>ty, FieldFacts DEF IInv, HasName
  <2>w. pl.at = "name_in_turn" => (~pl.lost /\ ms /\ ~music.random /\ Count # 1 =>
          music.index \in Songs /\ pl.song = music.index)
    BY <1>2, <1>ty DEF IInv, Ordered
  <2>x. music.index \in Songs => Following(music.index) = music.index + 1
    BY <1>2, <1>ty, FieldFacts, CountOK, Neighbours DEF Songs
  <2>u. music.index + 1 \in Songs \/ Count = 1
    BY <1>2, <1>ty, CountOK DEF Songs
  <2>f. /\ music'.index = music.index + 1 /\ music'.random = music.random
        /\ music'.random_index = music.random_index /\ music'.random_played = music.random_played
        /\ music'.pause = music.pause /\ music'.change_track = music.change_track
        /\ music'.flags = music.flags /\ music'.resume = music.resume /\ music'.offset = music.offset
        /\ music'.file = IF ms /\ pl.song \in Songs THEN pl.song ELSE music.file
    BY <2>m, <2>n, <2>t, AdvancedFacts
  <2>g. /\ pl'.at = "title" /\ pl'.song = -1 /\ pl'.want = pl.want /\ pl'.lost = (pl.lost \/ ~ms)
    BY <2>l, <1>ty, IndexOK DEF PlaylistThread
  <2>1. /\ UNCHANGED <<dec, ui, hw, ms, heard>>
    BY <1>2, <1>ty DEF NameSong, PlaylistRecord, PlaylistThread, DecoderThread, MainThread
  <2>a. music' \in PlaylistRecord
    BY <2>m, <2>n, <2>t, AdvancedFacts
  <2>b. pl' \in PlaylistThread
    BY <2>l, <1>ty, IndexOK DEF PlaylistThread
  <2>2. TypeOK'
    BY <2>1, <2>f, <2>g, <2>a, <2>b, <1>ty, <2>u DEF TypeOK
  <2>3. Placed'
    BY <1>2, <2>1, <2>f, <2>g, FieldFacts DEF IInv, Placed
  <2>4. Codec'
    BY <1>2, <2>1, <2>f, <2>g, FieldFacts DEF IInv, Codec, Placed
  <2>5. Agreed'
    BY <1>2, <2>1, <2>f, <2>g, FieldFacts DEF IInv, Agreed, Codec
  <2>6. PausedQuiet'
    BY <1>2, <2>1, <2>f, <2>g, FieldFacts DEF IInv, PausedQuiet, Placed
  <2>7. HasName'
    BY <1>2, <2>1, <2>f, <2>g, FieldFacts, <2>v, IndexOK DEF IInv, HasName, Placed
  <2>8. Ordered'
    BY <1>2, <2>1, <2>f, <2>g, FieldFacts, <2>v, <2>w, <2>x DEF IInv, Ordered, Placed, HasName, Following
  <2>9. Owed'
    BY <1>2, <2>1, <2>f, <2>g, FieldFacts DEF IInv, Owed, Placed, HasName, Ordered, Following
  <2>10. Offsets'
    BY <1>2, <2>1, <2>f, <2>g, FieldFacts DEF IInv, Offsets, Placed, HasName, HeardNext
  <2>11. RoundDistinct'
    BY <2>1, <2>f, <2>g, RoundSame DEF IInv
  <2>. QED
    BY <2>2, <2>3, <2>4, <2>5, <2>6, <2>7, <2>8, <2>9, <2>10, <2>11 DEF IInv
<1>3. CASE pl.at = "name_in_turn" /\ music.index + 1 >= Count
  <2>s. pl.song \in Indices
    BY <1>3, <1>ty DEF PlaylistThread
  <2>l. pl' = [pl EXCEPT !.at = "title", !.song = -1, !.lost = pl.lost \/ ~ms]
    BY <1>3, <1>ty DEF NameSong
  <2>n. /\ Named(music, pl.song) \in PlaylistRecord
        /\ Named(music, pl.song).file = IF ms /\ pl.song \in Songs THEN pl.song ELSE music.file
        /\ Named(music, pl.song).index = music.index
        /\ Named(music, pl.song).random = music.random
        /\ Named(music, pl.song).random_index = music.random_index
        /\ Named(music, pl.song).random_played = music.random_played
        /\ Named(music, pl.song).pause = music.pause
        /\ Named(music, pl.song).change_track = music.change_track
        /\ Named(music, pl.song).flags = music.flags
        /\ Named(music, pl.song).resume = music.resume
        /\ Named(music, pl.song).offset = music.offset
    BY <1>3, <1>ty, <2>s, NamedFacts
  <2>m. music' = Advanced(Named(music, pl.song))
    BY <1>3, <1>ty DEF NameSong
  <2>t. (Named(music, pl.song).index + 1 >= Count)
    BY <1>3, <1>ty, <2>n, FieldFacts, CountOK
  <2>v. (IF ms /\ pl.song \in Songs THEN pl.song ELSE music.file) \in Songs
    BY <1>3, <1>ty, FieldFacts DEF IInv, HasName
  <2>w. pl.at = "name_in_turn" => (~pl.lost /\ ms /\ ~music.random /\ Count # 1 =>
          music.index \in Songs /\ pl.song = music.index)
    BY <1>3, <1>ty DEF IInv, Ordered
  <2>x. music.index \in Songs => Following(music.index) = 0
    BY <1>3, <1>ty, FieldFacts, CountOK, Neighbours DEF Songs
  <2>f. /\ music'.index = 0 /\ music'.random = music.random /\ music'.random_index = 0
        /\ music'.random_played = Blank /\ music'.pause = music.pause
        /\ music'.change_track = music.change_track /\ music'.flags = music.flags
        /\ music'.resume = music.resume /\ music'.offset = music.offset
        /\ music'.file = IF ms /\ pl.song \in Songs THEN pl.song ELSE music.file
    BY <2>m, <2>n, <2>t, AdvancedFacts
  <2>g. /\ pl'.at = "title" /\ pl'.song = -1 /\ pl'.want = pl.want /\ pl'.lost = (pl.lost \/ ~ms)
    BY <2>l, <1>ty, IndexOK DEF PlaylistThread
  <2>1. /\ UNCHANGED <<dec, ui, hw, ms, heard>>
    BY <1>3, <1>ty DEF NameSong, PlaylistRecord, PlaylistThread, DecoderThread, MainThread
  <2>a. music' \in PlaylistRecord
    BY <2>m, <2>n, <2>t, AdvancedFacts
  <2>b. pl' \in PlaylistThread
    BY <2>l, <1>ty, IndexOK DEF PlaylistThread
  <2>2. TypeOK'
    BY <2>1, <2>f, <2>g, <2>a, <2>b, <1>ty, IndexOK DEF TypeOK
  <2>3. Placed'
    BY <1>3, <2>1, <2>f, <2>g, FieldFacts DEF IInv, Placed
  <2>4. Codec'
    BY <1>3, <2>1, <2>f, <2>g, FieldFacts DEF IInv, Codec, Placed
  <2>5. Agreed'
    BY <1>3, <2>1, <2>f, <2>g, FieldFacts DEF IInv, Agreed, Codec
  <2>6. PausedQuiet'
    BY <1>3, <2>1, <2>f, <2>g, FieldFacts DEF IInv, PausedQuiet, Placed
  <2>7. HasName'
    BY <1>3, <2>1, <2>f, <2>g, FieldFacts, <2>v, IndexOK DEF IInv, HasName, Placed
  <2>8. Ordered'
    BY <1>3, <2>1, <2>f, <2>g, FieldFacts, <2>v, <2>w, <2>x DEF IInv, Ordered, Placed, HasName, Following
  <2>9. Owed'
    BY <1>3, <2>1, <2>f, <2>g, FieldFacts DEF IInv, Owed, Placed, HasName, Ordered, Following
  <2>10. Offsets'
    BY <1>3, <2>1, <2>f, <2>g, FieldFacts DEF IInv, Offsets, Placed, HasName, HeardNext
  <2>11. RoundDistinct'
    BY <2>1, <2>f, <2>g, RoundNone
  <2>. QED
    BY <2>2, <2>3, <2>4, <2>5, <2>6, <2>7, <2>8, <2>9, <2>10, <2>11 DEF IInv
<1>8. pl.at \in {"name", "name_in_turn"} /\ music.index \in Int /\ Count \in Int
  BY FieldFacts, CountOK DEF NameSong
<1>9. music.index + 1 < Count \/ music.index + 1 >= Count
  BY <1>8
<1>. QED
  BY <1>1, <1>2, <1>3, <1>8, <1>9


(* In turn, NEXT has index at the song after the one playing and PREV, two    *)
(* songs back, at the one before.                                             *)
LEMMA Turned ==
    ASSUME NEW f \in Songs, NEW i \in Int, NEW c \in {-1, 1}, Count # 1, i = Following(f)
    PROVE  (IF c # -1 THEN i ELSE IF i - 2 < 0 THEN i - 2 + Count ELSE i - 2)
               = IF c = 1 THEN Following(f) ELSE Preceding(f)
<1>1. f \in Int /\ 0 <= f /\ f < Count /\ Count \in Nat
  BY IndexOK, CountOK
<1>2. i = IF f + 1 = Count THEN 0 ELSE f + 1
  BY Neighbours
<1>3. (IF i - 2 < 0 THEN i - 2 + Count ELSE i - 2) = IF f = 0 THEN Count - 1 ELSE f - 1
  BY <1>1, <1>2
<1>. QED
  BY <1>3, Neighbours

(* NEXT or PREV, whatever the pause field held.                               *)
LEMMA TakenFacts ==
    ASSUME NEW m \in PlaylistRecord, m.index \in Songs \/ Count = 1
    PROVE  LET n == Released([TrackChanged(PauseTaken(m)) EXCEPT !.flags = "DONE"])
           IN  /\ n \in PlaylistRecord
               /\ n.index = IF m.change_track # -1 THEN m.index
                            ELSE IF m.index - 2 < 0 THEN m.index - 2 + Count ELSE m.index - 2
               /\ n.index \in Songs \/ Count = 1
               /\ n.pause = IF m.pause \in {"PAUSE_SONG", "PAUSED"} THEN "PAUSE_SONG" ELSE "PLAYING"
               /\ n.change_track = 0 /\ n.offset = 0 /\ n.resume = FALSE /\ n.flags = "DONE"
               /\ n.random_index = m.random_index /\ n.random_played = m.random_played
               /\ n.random = m.random /\ n.file = m.file
<1>. DEFINE p == PauseTaken(m)
            t == TrackChanged(p)
            d == [t EXCEPT !.flags = "DONE"]
            n == Released(d)
<1>1. /\ p \in PlaylistRecord
      /\ p.pause = IF m.pause = "PAUSE_SONG" THEN "PAUSED"
                   ELSE IF m.pause = "RESUME_SONG" THEN "PLAYING" ELSE m.pause
      /\ p.index = m.index /\ p.random_index = m.random_index /\ p.random_played = m.random_played
      /\ p.random = m.random /\ p.change_track = m.change_track /\ p.file = m.file
  BY PauseTakenFacts
<1>. HIDE DEF p
<1>2. p.index \in Songs \/ Count = 1
  BY <1>1
<1>3. /\ t \in PlaylistRecord
      /\ t.index = IF p.change_track # -1 THEN p.index
                   ELSE IF p.index - 2 < 0 THEN p.index - 2 + Count ELSE p.index - 2
      /\ t.index \in Songs \/ Count = 1
      /\ t.change_track = 0 /\ t.offset = 0 /\ t.resume = FALSE
      /\ t.pause = p.pause /\ t.random_index = p.random_index /\ t.random_played = p.random_played
      /\ t.random = p.random /\ t.file = p.file
  BY <1>1, <1>2, TrackChangedFacts
<1>. HIDE DEF t
<1>4. /\ d \in PlaylistRecord /\ d.flags = "DONE"
      /\ d.index = t.index /\ d.change_track = 0 /\ d.offset = 0 /\ d.resume = FALSE
      /\ d.pause = p.pause /\ d.random_index = p.random_index /\ d.random_played = p.random_played
      /\ d.random = p.random /\ d.file = p.file
  BY <1>3 DEF PlaylistRecord
<1>. HIDE DEF d
<1>5. /\ n \in PlaylistRecord /\ n.flags = "DONE"
      /\ n.pause = IF d.pause = "PAUSED" THEN "PAUSE_SONG" ELSE d.pause
      /\ n.index = d.index /\ n.change_track = 0 /\ n.offset = 0 /\ n.resume = FALSE
      /\ n.random_index = d.random_index /\ n.random_played = d.random_played
      /\ n.random = d.random /\ n.file = d.file
  BY <1>4 DEF Released, PlaylistRecord
<1>. HIDE DEF n
<1>6. m.pause \in {"PAUSE_SONG", "PAUSED", "RESUME_SONG", "PLAYING"}
  BY DEF PlaylistRecord
<1>7. n.pause = IF m.pause \in {"PAUSE_SONG", "PAUSED"} THEN "PAUSE_SONG" ELSE "PLAYING"
  BY <1>1, <1>4, <1>5, <1>6
<1>. QED
  BY <1>1, <1>3, <1>4, <1>5, <1>7 DEF n, d, t, p

LEMMA TakeTrackStep ==
    ASSUME IInv, TakeTrack
    PROVE  IInv'
<1>ty. /\ music \in PlaylistRecord /\ pl \in PlaylistThread /\ dec \in DecoderThread /\ ui \in MainThread
       /\ hw \in [init : BOOLEAN, codec : {"none", "held", "freed"}]
       /\ heard \in [song : SongOrNone, frame : 0 .. Frames]
       /\ ms \in BOOLEAN /\ (music.index \in Songs \/ Count = 1)
  BY TypeFacts
<1>1. CASE music.pause = "PAUSE_SONG"
  <2>m. music' = Released([TrackChanged(PauseTaken(music)) EXCEPT !.flags = "DONE"])
    BY <1>1, <1>ty DEF TakeTrack
  <2>y. /\ music'.index = IF music.change_track # -1 THEN music.index
             ELSE IF music.index - 2 < 0 THEN music.index - 2 + Count ELSE music.index - 2
        /\ (music'.index \in Songs \/ Count = 1)
    BY <1>1, <1>ty, <2>m, TakenFacts
  <2>q. /\ PauseTaken(music).pause = "PAUSED"
        /\ PauseTaken(music).random = music.random /\ PauseTaken(music).change_track = music.change_track
        /\ PauseTaken(music).file = music.file
    BY <1>1, <1>ty, PauseTakenFacts
  <2>u. /\ Held(dec) \in DecoderThread
        /\ Held(dec).at = dec.at /\ Held(dec).fd = dec.fd /\ Held(dec).pos = dec.pos /\ Held(dec).ret = dec.ret
    BY <1>1, <1>ty, HeldFacts
  <2>v. pl.at = "loop" /\ music.change_track # 0 /\ dec.at # "none"
    BY <1>1, <1>ty DEF TakeTrack, IInv, Placed
  <2>s. music.file \in Songs
    BY <1>1, <1>ty, <2>v DEF IInv, HasName
  <2>z. /\ Following(music.file) = IF music.file + 1 = Count THEN 0 ELSE music.file + 1
        /\ Preceding(music.file) = IF music.file = 0 THEN Count - 1 ELSE music.file - 1
        /\ Following(music.file) \in Songs /\ Preceding(music.file) \in Songs
    BY <1>1, <1>ty, <2>s, Neighbours
  <2>o. (IF music.random \/ pl.lost \/ ~ms THEN -1
          ELSE IF music.change_track = 1 THEN Following(music.file) ELSE Preceding(music.file)) \in SongOrNone
    BY <1>1, <1>ty, <2>z, IndexOK
  <2>w. pl' = [pl EXCEPT !.at = "clean", !.want = IF music.random \/ pl.lost \/ ~ms THEN -1
          ELSE IF music.change_track = 1 THEN Following(music.file) ELSE Preceding(music.file)]
    BY <1>1, <1>ty, <2>q DEF TakeTrack, Wanted
  <2>d. dec' = [Held(dec) EXCEPT !.suspended = FALSE]
    BY <1>1, <1>ty, <2>q DEF TakeTrack
  <2>e. music.change_track \in {-1, 1} /\ music.index \in Int
    BY <1>1, <1>ty, <2>v, FieldFacts
  <2>p. Count # 1 /\ music.index = Following(music.file) =>
        (IF music.change_track # -1 THEN music.index
          ELSE IF music.index - 2 < 0 THEN music.index - 2 + Count ELSE music.index - 2) =
            IF music.change_track = 1 THEN Following(music.file) ELSE Preceding(music.file)
    BY <1>1, <1>ty, <2>s, <2>e, Turned
  <2>n. Count = 1 => /\ Following(music.file) = music.file /\ Preceding(music.file) = music.file
                       /\ \A i \in Songs : i = music.file
    BY <1>1, <1>ty, <2>z, <2>s, IndexOK
  <2>x. ~music.random /\ ~pl.lost => music.index = Following(music.file) \/ Count = 1
    BY <1>1, <1>ty, <2>v DEF IInv, Ordered
  <2>r. ms \in BOOLEAN /\ music.random \in BOOLEAN /\ pl.lost \in BOOLEAN
    BY <1>1, <1>ty, FieldFacts
  <2>f. /\ music'.random = music.random /\ music'.random_index = music.random_index
        /\ music'.random_played = music.random_played /\ music'.pause = "PAUSE_SONG"
        /\ music'.change_track = 0 /\ music'.flags = "DONE" /\ music'.resume = FALSE /\ music'.offset = 0
        /\ music'.file = music.file
    BY <2>m, <1>ty, <1>1, TakenFacts
  <2>g. /\ pl'.at = "clean" /\ pl'.song = pl.song
        /\ pl'.want = IF music.random \/ pl.lost \/ ~ms THEN -1
             ELSE IF music.change_track = 1 THEN Following(music.file) ELSE Preceding(music.file)
        /\ pl'.lost = pl.lost
    BY <2>w, <2>o, <1>ty DEF PlaylistThread
  <2>h. /\ dec'.at = dec.at /\ dec'.suspended = FALSE /\ dec'.fd = dec.fd /\ dec'.pos = dec.pos
        /\ dec'.ret = dec.ret
    BY <2>d, <2>u, <1>ty DEF DecoderThread
  <2>1. /\ UNCHANGED <<ui, hw, ms, heard>>
        /\ pl.at = "loop" /\ music.change_track # 0 /\ dec.at # "none"
    BY <1>1, <1>ty, <2>v DEF TakeTrack, PlaylistRecord, PlaylistThread, DecoderThread, MainThread
  <2>a. music' \in PlaylistRecord
    BY <2>m, <1>ty, <1>1, TakenFacts
  <2>b. pl' \in PlaylistThread
    BY <2>w, <2>o, <1>ty DEF PlaylistThread
  <2>c. dec' \in DecoderThread
    BY <2>d, <2>u, <1>ty DEF DecoderThread
  <2>2. TypeOK'
    BY <2>1, <2>f, <2>g, <2>h, <2>a, <2>b, <2>c, <1>ty, <2>y DEF TypeOK
  <2>3. Placed'
    BY <1>1, <2>1, <2>f, <2>g, <2>h, FieldFacts DEF IInv, Placed
  <2>4. Codec'
    BY <1>1, <2>1, <2>f, <2>g, <2>h, FieldFacts DEF IInv, Codec, Placed
  <2>5. Agreed'
    BY <1>1, <2>1, <2>f, <2>g, <2>h, FieldFacts DEF IInv, Agreed, Codec
  <2>6. PausedQuiet'
    BY <1>1, <2>1, <2>f, <2>g, <2>h, FieldFacts DEF IInv, PausedQuiet, Placed
  <2>7. HasName'
    BY <1>1, <2>1, <2>f, <2>g, <2>h, FieldFacts, <2>s, IndexOK DEF IInv, HasName, Placed
  <2>8. Ordered'
    BY <1>1, <2>1, <2>f, <2>g, <2>h, FieldFacts, <2>v DEF IInv, Ordered, Placed, HasName, Following
  <2>9. Owed'
    <3>1. pl'.want # -1 => IF music'.resume \/ music'.index \notin Songs
                          THEN music'.file = pl'.want ELSE music'.index = pl'.want
      BY <2>f, <2>g, <2>p, <2>n, <2>x, <2>r, <2>y
    <3>. QED
      BY <3>1, <2>1, <2>f, <2>g, <2>r DEF Owed
  <2>10. Offsets'
    BY <1>1, <2>1, <2>f, <2>g, <2>h, FieldFacts DEF IInv, Offsets, Placed, HasName, HeardNext
  <2>11. RoundDistinct'
    BY <2>1, <2>f, <2>g, <2>h, RoundSame DEF IInv
  <2>. QED
    BY <2>2, <2>3, <2>4, <2>5, <2>6, <2>7, <2>8, <2>9, <2>10, <2>11 DEF IInv
<1>2. CASE music.pause = "PAUSED"
  <2>m. music' = Released([TrackChanged(PauseTaken(music)) EXCEPT !.flags = "DONE"])
    BY <1>2, <1>ty DEF TakeTrack
  <2>y. /\ music'.index = IF music.change_track # -1 THEN music.index
             ELSE IF music.index - 2 < 0 THEN music.index - 2 + Count ELSE music.index - 2
        /\ (music'.index \in Songs \/ Count = 1)
    BY <1>2, <1>ty, <2>m, TakenFacts
  <2>q. /\ PauseTaken(music).pause = "PAUSED"
        /\ PauseTaken(music).random = music.random /\ PauseTaken(music).change_track = music.change_track
        /\ PauseTaken(music).file = music.file
    BY <1>2, <1>ty, PauseTakenFacts
  <2>u. /\ Held(dec) \in DecoderThread
        /\ Held(dec).at = dec.at /\ Held(dec).fd = dec.fd /\ Held(dec).pos = dec.pos
        /\ Held(dec).ret = dec.ret /\ Held(dec) = dec
    BY <1>2, <1>ty, HeldFacts
  <2>v. pl.at = "loop" /\ music.change_track # 0 /\ dec.at # "none"
    BY <1>2, <1>ty DEF TakeTrack, IInv, Placed
  <2>s. music.file \in Songs
    BY <1>2, <1>ty, <2>v DEF IInv, HasName
  <2>z. /\ Following(music.file) = IF music.file + 1 = Count THEN 0 ELSE music.file + 1
        /\ Preceding(music.file) = IF music.file = 0 THEN Count - 1 ELSE music.file - 1
        /\ Following(music.file) \in Songs /\ Preceding(music.file) \in Songs
    BY <1>2, <1>ty, <2>s, Neighbours
  <2>o. (IF music.random \/ pl.lost \/ ~ms THEN -1
          ELSE IF music.change_track = 1 THEN Following(music.file) ELSE Preceding(music.file)) \in SongOrNone
    BY <1>2, <1>ty, <2>z, IndexOK
  <2>w. pl' = [pl EXCEPT !.at = "clean", !.want = IF music.random \/ pl.lost \/ ~ms THEN -1
          ELSE IF music.change_track = 1 THEN Following(music.file) ELSE Preceding(music.file)]
    BY <1>2, <1>ty, <2>q DEF TakeTrack, Wanted
  <2>d. dec' = [Held(dec) EXCEPT !.suspended = FALSE]
    BY <1>2, <1>ty, <2>q DEF TakeTrack
  <2>e. music.change_track \in {-1, 1} /\ music.index \in Int
    BY <1>2, <1>ty, <2>v, FieldFacts
  <2>p. Count # 1 /\ music.index = Following(music.file) =>
        (IF music.change_track # -1 THEN music.index
          ELSE IF music.index - 2 < 0 THEN music.index - 2 + Count ELSE music.index - 2) =
            IF music.change_track = 1 THEN Following(music.file) ELSE Preceding(music.file)
    BY <1>2, <1>ty, <2>s, <2>e, Turned
  <2>n. Count = 1 => /\ Following(music.file) = music.file /\ Preceding(music.file) = music.file
                       /\ \A i \in Songs : i = music.file
    BY <1>2, <1>ty, <2>z, <2>s, IndexOK
  <2>x. ~music.random /\ ~pl.lost => music.index = Following(music.file) \/ Count = 1
    BY <1>2, <1>ty, <2>v DEF IInv, Ordered
  <2>r. ms \in BOOLEAN /\ music.random \in BOOLEAN /\ pl.lost \in BOOLEAN
    BY <1>2, <1>ty, FieldFacts
  <2>f. /\ music'.random = music.random /\ music'.random_index = music.random_index
        /\ music'.random_played = music.random_played /\ music'.pause = "PAUSE_SONG"
        /\ music'.change_track = 0 /\ music'.flags = "DONE" /\ music'.resume = FALSE /\ music'.offset = 0
        /\ music'.file = music.file
    BY <2>m, <1>ty, <1>2, TakenFacts
  <2>g. /\ pl'.at = "clean" /\ pl'.song = pl.song
        /\ pl'.want = IF music.random \/ pl.lost \/ ~ms THEN -1
             ELSE IF music.change_track = 1 THEN Following(music.file) ELSE Preceding(music.file)
        /\ pl'.lost = pl.lost
    BY <2>w, <2>o, <1>ty DEF PlaylistThread
  <2>h. /\ dec'.at = dec.at /\ dec'.suspended = FALSE /\ dec'.late = dec.late /\ dec'.fd = dec.fd
        /\ dec'.pos = dec.pos /\ dec'.ret = dec.ret
    BY <2>d, <2>u, <1>ty DEF DecoderThread
  <2>1. /\ UNCHANGED <<ui, hw, ms, heard>>
        /\ pl.at = "loop" /\ music.change_track # 0 /\ dec.at # "none"
    BY <1>2, <1>ty, <2>v DEF TakeTrack, PlaylistRecord, PlaylistThread, DecoderThread, MainThread
  <2>a. music' \in PlaylistRecord
    BY <2>m, <1>ty, <1>2, TakenFacts
  <2>b. pl' \in PlaylistThread
    BY <2>w, <2>o, <1>ty DEF PlaylistThread
  <2>c. dec' \in DecoderThread
    BY <2>d, <2>u, <1>ty DEF DecoderThread
  <2>2. TypeOK'
    BY <2>1, <2>f, <2>g, <2>h, <2>a, <2>b, <2>c, <1>ty, <2>y DEF TypeOK
  <2>3. Placed'
    BY <1>2, <2>1, <2>f, <2>g, <2>h, FieldFacts DEF IInv, Placed
  <2>4. Codec'
    BY <1>2, <2>1, <2>f, <2>g, <2>h, FieldFacts DEF IInv, Codec, Placed
  <2>5. Agreed'
    BY <1>2, <2>1, <2>f, <2>g, <2>h, FieldFacts DEF IInv, Agreed, Codec
  <2>6. PausedQuiet'
    BY <1>2, <2>1, <2>f, <2>g, <2>h, FieldFacts DEF IInv, PausedQuiet, Placed
  <2>7. HasName'
    BY <1>2, <2>1, <2>f, <2>g, <2>h, FieldFacts, <2>s, IndexOK DEF IInv, HasName, Placed
  <2>8. Ordered'
    BY <1>2, <2>1, <2>f, <2>g, <2>h, FieldFacts, <2>v DEF IInv, Ordered, Placed, HasName, Following
  <2>9. Owed'
    <3>1. pl'.want # -1 => IF music'.resume \/ music'.index \notin Songs
                          THEN music'.file = pl'.want ELSE music'.index = pl'.want
      BY <2>f, <2>g, <2>p, <2>n, <2>x, <2>r, <2>y
    <3>. QED
      BY <3>1, <2>1, <2>f, <2>g, <2>r DEF Owed
  <2>10. Offsets'
    BY <1>2, <2>1, <2>f, <2>g, <2>h, FieldFacts DEF IInv, Offsets, Placed, HasName, HeardNext
  <2>11. RoundDistinct'
    BY <2>1, <2>f, <2>g, <2>h, RoundSame DEF IInv
  <2>. QED
    BY <2>2, <2>3, <2>4, <2>5, <2>6, <2>7, <2>8, <2>9, <2>10, <2>11 DEF IInv
<1>3. CASE music.pause = "RESUME_SONG"
  <2>m. music' = Released([TrackChanged(PauseTaken(music)) EXCEPT !.flags = "DONE"])
    BY <1>3, <1>ty DEF TakeTrack
  <2>y. /\ music'.index = IF music.change_track # -1 THEN music.index
             ELSE IF music.index - 2 < 0 THEN music.index - 2 + Count ELSE music.index - 2
        /\ (music'.index \in Songs \/ Count = 1)
    BY <1>3, <1>ty, <2>m, TakenFacts
  <2>q. /\ PauseTaken(music).pause = "PLAYING"
        /\ PauseTaken(music).random = music.random /\ PauseTaken(music).change_track = music.change_track
        /\ PauseTaken(music).file = music.file
    BY <1>3, <1>ty, PauseTakenFacts
  <2>u. /\ Held(dec) \in DecoderThread
        /\ Held(dec).at = dec.at /\ Held(dec).fd = dec.fd /\ Held(dec).pos = dec.pos /\ Held(dec).ret = dec.ret
        /\ Held(dec).suspended = FALSE /\ Held(dec).late = FALSE
    BY <1>3, <1>ty, HeldFacts
  <2>v. pl.at = "loop" /\ music.change_track # 0 /\ dec.at # "none"
    BY <1>3, <1>ty DEF TakeTrack, IInv, Placed
  <2>s. music.file \in Songs
    BY <1>3, <1>ty, <2>v DEF IInv, HasName
  <2>z. /\ Following(music.file) = IF music.file + 1 = Count THEN 0 ELSE music.file + 1
        /\ Preceding(music.file) = IF music.file = 0 THEN Count - 1 ELSE music.file - 1
        /\ Following(music.file) \in Songs /\ Preceding(music.file) \in Songs
    BY <1>3, <1>ty, <2>s, Neighbours
  <2>o. (IF music.random \/ pl.lost \/ ~ms THEN -1
          ELSE IF music.change_track = 1 THEN Following(music.file) ELSE Preceding(music.file)) \in SongOrNone
    BY <1>3, <1>ty, <2>z, IndexOK
  <2>w. pl' = [pl EXCEPT !.at = "clean", !.want = IF music.random \/ pl.lost \/ ~ms THEN -1
          ELSE IF music.change_track = 1 THEN Following(music.file) ELSE Preceding(music.file)]
    BY <1>3, <1>ty, <2>q DEF TakeTrack, Wanted
  <2>d. dec' = [Held(dec) EXCEPT !.suspended = Held(dec).suspended]
    BY <1>3, <1>ty, <2>q DEF TakeTrack
  <2>e. music.change_track \in {-1, 1} /\ music.index \in Int
    BY <1>3, <1>ty, <2>v, FieldFacts
  <2>p. Count # 1 /\ music.index = Following(music.file) =>
        (IF music.change_track # -1 THEN music.index
          ELSE IF music.index - 2 < 0 THEN music.index - 2 + Count ELSE music.index - 2) =
            IF music.change_track = 1 THEN Following(music.file) ELSE Preceding(music.file)
    BY <1>3, <1>ty, <2>s, <2>e, Turned
  <2>n. Count = 1 => /\ Following(music.file) = music.file /\ Preceding(music.file) = music.file
                       /\ \A i \in Songs : i = music.file
    BY <1>3, <1>ty, <2>z, <2>s, IndexOK
  <2>x. ~music.random /\ ~pl.lost => music.index = Following(music.file) \/ Count = 1
    BY <1>3, <1>ty, <2>v DEF IInv, Ordered
  <2>r. ms \in BOOLEAN /\ music.random \in BOOLEAN /\ pl.lost \in BOOLEAN
    BY <1>3, <1>ty, FieldFacts
  <2>f. /\ music'.random = music.random /\ music'.random_index = music.random_index
        /\ music'.random_played = music.random_played /\ music'.pause = "PLAYING"
        /\ music'.change_track = 0 /\ music'.flags = "DONE" /\ music'.resume = FALSE /\ music'.offset = 0
        /\ music'.file = music.file
    BY <2>m, <1>ty, <1>3, TakenFacts
  <2>g. /\ pl'.at = "clean" /\ pl'.song = pl.song
        /\ pl'.want = IF music.random \/ pl.lost \/ ~ms THEN -1
             ELSE IF music.change_track = 1 THEN Following(music.file) ELSE Preceding(music.file)
        /\ pl'.lost = pl.lost
    BY <2>w, <2>o, <1>ty DEF PlaylistThread
  <2>h. /\ dec'.at = dec.at /\ dec'.suspended = FALSE /\ dec'.late = FALSE /\ dec'.fd = dec.fd
        /\ dec'.pos = dec.pos /\ dec'.ret = dec.ret
    BY <2>d, <2>u, <1>ty DEF DecoderThread
  <2>1. /\ UNCHANGED <<ui, hw, ms, heard>>
        /\ pl.at = "loop" /\ music.change_track # 0 /\ dec.at # "none"
    BY <1>3, <1>ty, <2>v DEF TakeTrack, PlaylistRecord, PlaylistThread, DecoderThread, MainThread
  <2>a. music' \in PlaylistRecord
    BY <2>m, <1>ty, <1>3, TakenFacts
  <2>b. pl' \in PlaylistThread
    BY <2>w, <2>o, <1>ty DEF PlaylistThread
  <2>c. dec' \in DecoderThread
    BY <2>d, <2>u, <1>ty DEF DecoderThread
  <2>2. TypeOK'
    BY <2>1, <2>f, <2>g, <2>h, <2>a, <2>b, <2>c, <1>ty, <2>y DEF TypeOK
  <2>3. Placed'
    BY <1>3, <2>1, <2>f, <2>g, <2>h, FieldFacts DEF IInv, Placed
  <2>4. Codec'
    BY <1>3, <2>1, <2>f, <2>g, <2>h, FieldFacts DEF IInv, Codec, Placed
  <2>5. Agreed'
    BY <1>3, <2>1, <2>f, <2>g, <2>h, FieldFacts DEF IInv, Agreed, Codec
  <2>6. PausedQuiet'
    BY <1>3, <2>1, <2>f, <2>g, <2>h, FieldFacts DEF IInv, PausedQuiet, Placed
  <2>7. HasName'
    BY <1>3, <2>1, <2>f, <2>g, <2>h, FieldFacts, <2>s, IndexOK DEF IInv, HasName, Placed
  <2>8. Ordered'
    BY <1>3, <2>1, <2>f, <2>g, <2>h, FieldFacts, <2>v DEF IInv, Ordered, Placed, HasName, Following
  <2>9. Owed'
    <3>1. pl'.want # -1 => IF music'.resume \/ music'.index \notin Songs
                          THEN music'.file = pl'.want ELSE music'.index = pl'.want
      BY <2>f, <2>g, <2>p, <2>n, <2>x, <2>r, <2>y
    <3>. QED
      BY <3>1, <2>1, <2>f, <2>g, <2>r DEF Owed
  <2>10. Offsets'
    BY <1>3, <2>1, <2>f, <2>g, <2>h, FieldFacts DEF IInv, Offsets, Placed, HasName, HeardNext
  <2>11. RoundDistinct'
    BY <2>1, <2>f, <2>g, <2>h, RoundSame DEF IInv
  <2>. QED
    BY <2>2, <2>3, <2>4, <2>5, <2>6, <2>7, <2>8, <2>9, <2>10, <2>11 DEF IInv
<1>4. CASE music.pause = "PLAYING"
  <2>m. music' = Released([TrackChanged(PauseTaken(music)) EXCEPT !.flags = "DONE"])
    BY <1>4, <1>ty DEF TakeTrack
  <2>y. /\ music'.index = IF music.change_track # -1 THEN music.index
             ELSE IF music.index - 2 < 0 THEN music.index - 2 + Count ELSE music.index - 2
        /\ (music'.index \in Songs \/ Count = 1)
    BY <1>4, <1>ty, <2>m, TakenFacts
  <2>q. /\ PauseTaken(music).pause = "PLAYING"
        /\ PauseTaken(music).random = music.random /\ PauseTaken(music).change_track = music.change_track
        /\ PauseTaken(music).file = music.file
    BY <1>4, <1>ty, PauseTakenFacts
  <2>u. /\ Held(dec) \in DecoderThread
        /\ Held(dec).at = dec.at /\ Held(dec).fd = dec.fd /\ Held(dec).pos = dec.pos
        /\ Held(dec).ret = dec.ret /\ Held(dec) = dec
    BY <1>4, <1>ty, HeldFacts
  <2>v. pl.at = "loop" /\ music.change_track # 0 /\ dec.at # "none"
    BY <1>4, <1>ty DEF TakeTrack, IInv, Placed
  <2>s. music.file \in Songs
    BY <1>4, <1>ty, <2>v DEF IInv, HasName
  <2>z. /\ Following(music.file) = IF music.file + 1 = Count THEN 0 ELSE music.file + 1
        /\ Preceding(music.file) = IF music.file = 0 THEN Count - 1 ELSE music.file - 1
        /\ Following(music.file) \in Songs /\ Preceding(music.file) \in Songs
    BY <1>4, <1>ty, <2>s, Neighbours
  <2>o. (IF music.random \/ pl.lost \/ ~ms THEN -1
          ELSE IF music.change_track = 1 THEN Following(music.file) ELSE Preceding(music.file)) \in SongOrNone
    BY <1>4, <1>ty, <2>z, IndexOK
  <2>w. pl' = [pl EXCEPT !.at = "clean", !.want = IF music.random \/ pl.lost \/ ~ms THEN -1
          ELSE IF music.change_track = 1 THEN Following(music.file) ELSE Preceding(music.file)]
    BY <1>4, <1>ty, <2>q DEF TakeTrack, Wanted
  <2>d. dec' = [Held(dec) EXCEPT !.suspended = Held(dec).suspended]
    BY <1>4, <1>ty, <2>q DEF TakeTrack
  <2>e. music.change_track \in {-1, 1} /\ music.index \in Int
    BY <1>4, <1>ty, <2>v, FieldFacts
  <2>p. Count # 1 /\ music.index = Following(music.file) =>
        (IF music.change_track # -1 THEN music.index
          ELSE IF music.index - 2 < 0 THEN music.index - 2 + Count ELSE music.index - 2) =
            IF music.change_track = 1 THEN Following(music.file) ELSE Preceding(music.file)
    BY <1>4, <1>ty, <2>s, <2>e, Turned
  <2>n. Count = 1 => /\ Following(music.file) = music.file /\ Preceding(music.file) = music.file
                       /\ \A i \in Songs : i = music.file
    BY <1>4, <1>ty, <2>z, <2>s, IndexOK
  <2>x. ~music.random /\ ~pl.lost => music.index = Following(music.file) \/ Count = 1
    BY <1>4, <1>ty, <2>v DEF IInv, Ordered
  <2>r. ms \in BOOLEAN /\ music.random \in BOOLEAN /\ pl.lost \in BOOLEAN
    BY <1>4, <1>ty, FieldFacts
  <2>f. /\ music'.random = music.random /\ music'.random_index = music.random_index
        /\ music'.random_played = music.random_played /\ music'.pause = "PLAYING"
        /\ music'.change_track = 0 /\ music'.flags = "DONE" /\ music'.resume = FALSE /\ music'.offset = 0
        /\ music'.file = music.file
    BY <2>m, <1>ty, <1>4, TakenFacts
  <2>g. /\ pl'.at = "clean" /\ pl'.song = pl.song
        /\ pl'.want = IF music.random \/ pl.lost \/ ~ms THEN -1
             ELSE IF music.change_track = 1 THEN Following(music.file) ELSE Preceding(music.file)
        /\ pl'.lost = pl.lost
    BY <2>w, <2>o, <1>ty DEF PlaylistThread
  <2>h. /\ dec'.at = dec.at /\ dec'.suspended = dec.suspended /\ dec'.late = dec.late /\ dec'.fd = dec.fd
        /\ dec'.pos = dec.pos /\ dec'.ret = dec.ret
    BY <2>d, <2>u, <1>ty DEF DecoderThread
  <2>1. /\ UNCHANGED <<ui, hw, ms, heard>>
        /\ pl.at = "loop" /\ music.change_track # 0 /\ dec.at # "none"
    BY <1>4, <1>ty, <2>v DEF TakeTrack, PlaylistRecord, PlaylistThread, DecoderThread, MainThread
  <2>a. music' \in PlaylistRecord
    BY <2>m, <1>ty, <1>4, TakenFacts
  <2>b. pl' \in PlaylistThread
    BY <2>w, <2>o, <1>ty DEF PlaylistThread
  <2>c. dec' \in DecoderThread
    BY <2>d, <2>u, <1>ty DEF DecoderThread
  <2>2. TypeOK'
    BY <2>1, <2>f, <2>g, <2>h, <2>a, <2>b, <2>c, <1>ty, <2>y DEF TypeOK
  <2>3. Placed'
    BY <1>4, <2>1, <2>f, <2>g, <2>h, FieldFacts DEF IInv, Placed
  <2>4. Codec'
    BY <1>4, <2>1, <2>f, <2>g, <2>h, FieldFacts DEF IInv, Codec, Placed
  <2>5. Agreed'
    BY <1>4, <2>1, <2>f, <2>g, <2>h, FieldFacts DEF IInv, Agreed, Codec
  <2>6. PausedQuiet'
    BY <1>4, <2>1, <2>f, <2>g, <2>h, FieldFacts DEF IInv, PausedQuiet, Placed
  <2>7. HasName'
    BY <1>4, <2>1, <2>f, <2>g, <2>h, FieldFacts, <2>s, IndexOK DEF IInv, HasName, Placed
  <2>8. Ordered'
    BY <1>4, <2>1, <2>f, <2>g, <2>h, FieldFacts, <2>v DEF IInv, Ordered, Placed, HasName, Following
  <2>9. Owed'
    <3>1. pl'.want # -1 => IF music'.resume \/ music'.index \notin Songs
                          THEN music'.file = pl'.want ELSE music'.index = pl'.want
      BY <2>f, <2>g, <2>p, <2>n, <2>x, <2>r, <2>y
    <3>. QED
      BY <3>1, <2>1, <2>f, <2>g, <2>r DEF Owed
  <2>10. Offsets'
    BY <1>4, <2>1, <2>f, <2>g, <2>h, FieldFacts DEF IInv, Offsets, Placed, HasName, HeardNext
  <2>11. RoundDistinct'
    BY <2>1, <2>f, <2>g, <2>h, RoundSame DEF IInv
  <2>. QED
    BY <2>2, <2>3, <2>4, <2>5, <2>6, <2>7, <2>8, <2>9, <2>10, <2>11 DEF IInv
<1>. QED
  BY <1>ty, <1>1, <1>2, <1>3, <1>4 DEF PlaylistRecord


LEMMA SongEndedStep ==
    ASSUME IInv, SongEnded
    PROVE  IInv'
<1>ty. /\ music \in PlaylistRecord /\ pl \in PlaylistThread /\ dec \in DecoderThread /\ ui \in MainThread
       /\ hw \in [init : BOOLEAN, codec : {"none", "held", "freed"}]
       /\ heard \in [song : SongOrNone, frame : 0 .. Frames]
       /\ ms \in BOOLEAN /\ (music.index \in Songs \/ Count = 1)
  BY TypeFacts
<1>m. music' = PauseTaken(music)
  BY <1>ty DEF SongEnded
<1>w. pl' = [pl EXCEPT !.at = "ms_ready", !.want = IF music.random \/ pl.lost \/ ~ms THEN -1
        ELSE IF music.resume THEN music.file ELSE Following(music.file)]
  BY <1>ty DEF SongEnded
<1>d. dec' = Nobody
  BY <1>ty DEF SongEnded
<1>v. pl.at = "loop" /\ music.flags = "CLEANED_UP" /\ dec.at = "cleaned"
  BY <1>ty DEF SongEnded, IInv, Placed
<1>s. music.file \in Songs
  BY <1>ty, <1>v DEF IInv, HasName
<1>z. Following(music.file) \in Songs
  BY <1>ty, <1>s, Neighbours
<1>o. (IF music.random \/ pl.lost \/ ~ms THEN -1 ELSE IF music.resume THEN music.file
        ELSE Following(music.file)) \in SongOrNone
  BY <1>ty, <1>z, <1>s, IndexOK
<1>n. Count = 1 => Following(music.file) = music.file /\ (\A i \in Songs : i = music.file)
  BY <1>ty, <1>z, <1>s, IndexOK
<1>x. ~music.random /\ ~pl.lost => music.index = Following(music.file) \/ Count = 1
  BY <1>ty, <1>v DEF IInv, Ordered
<1>r. ms \in BOOLEAN /\ music.random \in BOOLEAN /\ pl.lost \in BOOLEAN
  BY <1>ty, FieldFacts
<1>f. /\ music'.index = music.index /\ music'.random = music.random
      /\ music'.random_index = music.random_index /\ music'.random_played = music.random_played
      /\ music'.pause = IF music.pause = "PAUSE_SONG" THEN "PAUSED"
           ELSE IF music.pause = "RESUME_SONG" THEN "PLAYING" ELSE music.pause
      /\ music'.change_track = music.change_track /\ music'.flags = music.flags
      /\ music'.resume = music.resume /\ music'.offset = music.offset /\ music'.file = music.file
  BY <1>m, <1>ty, PauseTakenFacts
<1>g. /\ pl'.at = "ms_ready" /\ pl'.song = pl.song
      /\ pl'.want = IF music.random \/ pl.lost \/ ~ms THEN -1 ELSE IF music.resume THEN music.file
           ELSE Following(music.file)
      /\ pl'.lost = pl.lost
  BY <1>w, <1>o, <1>ty DEF PlaylistThread
<1>h. /\ dec'.at = "none" /\ dec'.suspended = FALSE /\ dec'.late = FALSE /\ dec'.fd = "none"
      /\ dec'.pos = 0 /\ dec'.ret = "DONE"
  BY <1>d, NobodyOK DEF Nobody
<1>1. /\ UNCHANGED <<ui, hw, ms, heard>>
      /\ pl.at = "loop" /\ music.flags = "CLEANED_UP" /\ dec.at = "cleaned"
  BY <1>ty, <1>v DEF SongEnded, PlaylistRecord, PlaylistThread, DecoderThread, MainThread
<1>a. music' \in PlaylistRecord
  BY <1>m, <1>ty, PauseTakenFacts
<1>b. dec' \in DecoderThread
  BY <1>d, NobodyOK DEF Nobody
<1>c. pl' \in PlaylistThread
  BY <1>w, <1>o, <1>ty DEF PlaylistThread
<1>2. TypeOK'
  BY <1>1, <1>f, <1>g, <1>h, <1>a, <1>b, <1>c, <1>ty DEF TypeOK
<1>3. Placed'
  BY <1>1, <1>f, <1>g, <1>h, FieldFacts DEF IInv, Placed
<1>4. Codec'
  BY <1>1, <1>f, <1>g, <1>h, FieldFacts DEF IInv, Codec, Placed
<1>5. Agreed'
  BY <1>1, <1>f, <1>g, <1>h, FieldFacts DEF IInv, Agreed, Codec
<1>6. PausedQuiet'
  BY <1>1, <1>f, <1>g, <1>h, FieldFacts DEF IInv, PausedQuiet, Placed
<1>7. HasName'
  BY <1>1, <1>f, <1>g, <1>h, FieldFacts, <1>s, IndexOK DEF IInv, HasName, Placed
<1>8. Ordered'
  BY <1>1, <1>f, <1>g, <1>h, FieldFacts, <1>v DEF IInv, Ordered, Placed, HasName, Following
<1>9. Owed'
  <2>1. pl'.want # -1 => IF music'.resume \/ music'.index \notin Songs
                        THEN music'.file = pl'.want ELSE music'.index = pl'.want
    BY <1>ty, <1>f, <1>g, <1>z, <1>n, <1>x, <1>r
  <2>. QED
    BY <2>1, <1>1, <1>f, <1>g, <1>h, <1>r DEF Owed
<1>10. Offsets'
  BY <1>1, <1>f, <1>g, <1>h, FieldFacts DEF IInv, Offsets, Placed, HasName, HeardNext
<1>11. RoundDistinct'
  BY <1>1, <1>f, <1>g, <1>h, RoundSame DEF IInv
<1>. QED
  BY <1>2, <1>3, <1>4, <1>5, <1>6, <1>7, <1>8, <1>9, <1>10, <1>11 DEF IInv

LEMMA OpenSongStep ==
    ASSUME IInv, OpenSong
    PROVE  IInv'
<1>ty. /\ music \in PlaylistRecord /\ pl \in PlaylistThread /\ dec \in DecoderThread /\ ui \in MainThread
       /\ hw \in [init : BOOLEAN, codec : {"none", "held", "freed"}]
       /\ heard \in [song : SongOrNone, frame : 0 .. Frames]
       /\ ms \in BOOLEAN /\ (music.index \in Songs \/ Count = 1)
  BY TypeFacts
<1>1. CASE ms /\ Kind[music.file] = "mp3" /\ music.resume
  <2>v. pl.at \in {"loop", "clean"} /\ music.file \in Songs /\ music.file # -1
    BY <1>1, <1>ty, IndexOK DEF OpenSong, IInv, Placed, HasName
  <2>o. music.offset \in 0 .. Frames + 1
    BY <1>1, <1>ty, FieldFacts, CountOK
  <2>d. dec' = [dec EXCEPT !.at = "play", !.fd = "open", !.pos = music.offset]
    BY <1>1, <1>ty DEF OpenSong
  <2>l. dec'.suspended = FALSE
    BY <1>1, <1>ty, <2>d DEF OpenSong, DecoderThread
  <2>music. music' = [music EXCEPT !.resume = FALSE]
    BY <1>1 DEF OpenSong
  <2>f. /\ music'.index = music.index /\ music'.random = music.random
        /\ music'.random_index = music.random_index /\ music'.random_played = music.random_played
        /\ music'.pause = music.pause /\ music'.change_track = music.change_track
        /\ music'.flags = music.flags /\ music'.resume = FALSE /\ music'.offset = music.offset
        /\ music'.file = music.file
    BY <1>1, <1>ty, <2>v DEF OpenSong, PlaylistRecord, PlaylistThread, DecoderThread, MainThread
  <2>g. /\ dec'.at = "play" /\ dec'.suspended = dec.suspended /\ dec'.late = dec.late /\ dec'.fd = "open"
        /\ dec'.pos = music.offset /\ dec'.ret = dec.ret
    BY <2>d, <2>o, <1>ty DEF DecoderThread
  <2>1. /\ UNCHANGED <<pl, ui, hw, ms, heard>>
        /\ pl.at \in {"loop", "clean"} /\ dec.at = "open"
    BY <1>1, <1>ty, <2>v DEF OpenSong, PlaylistRecord, PlaylistThread, DecoderThread, MainThread
  <2>a. music' \in PlaylistRecord
    BY <2>music, <1>ty, <2>v, <2>o, <2>d, <2>l
       DEF PlaylistRecord, PlaylistThread, DecoderThread, MainThread
  <2>b. dec' \in DecoderThread
    BY <2>d, <2>o, <1>ty DEF DecoderThread
  <2>2. TypeOK'
    BY <2>1, <2>f, <2>g, <2>a, <2>b, <1>ty DEF TypeOK
  <2>3. Placed'
    BY <1>1, <2>1, <2>f, <2>g, FieldFacts DEF IInv, Placed
  <2>4. Codec'
    BY <1>1, <2>1, <2>f, <2>g, FieldFacts DEF IInv, Codec, Placed
  <2>5. Agreed'
    BY <1>1, <2>1, <2>f, <2>g, FieldFacts DEF IInv, Agreed, Codec
  <2>6. PausedQuiet'
    BY <1>1, <2>1, <2>f, <2>g, FieldFacts DEF IInv, PausedQuiet, Placed
  <2>7. HasName'
    BY <1>1, <2>1, <2>f, <2>g, FieldFacts, <2>v DEF IInv, HasName, Placed
  <2>8. Ordered'
    BY <1>1, <2>1, <2>f, <2>g, FieldFacts DEF IInv, Ordered, Placed, HasName, Following
  <2>9. Owed'
    BY <1>1, <2>1, <2>f, <2>g, FieldFacts DEF IInv, Owed, Placed, HasName, Ordered, Following
  <2>10. Offsets'
    BY <1>1, <2>1, <2>f, <2>g, FieldFacts DEF IInv, Offsets, Placed, HasName, HeardNext
  <2>11. RoundDistinct'
    BY <2>1, <2>f, <2>g, RoundSame DEF IInv
  <2>. QED
    BY <2>2, <2>3, <2>4, <2>5, <2>6, <2>7, <2>8, <2>9, <2>10, <2>11 DEF IInv
<1>2. CASE ms /\ ~(Kind[music.file] = "mp3" /\ music.resume)
  <2>v. pl.at \in {"loop", "clean"} /\ music.file \in Songs /\ music.file # -1
    BY <1>2, <1>ty, IndexOK DEF OpenSong, IInv, Placed, HasName
  <2>d. dec' = [dec EXCEPT !.at = "header", !.fd = "open", !.pos = 0]
    BY <1>2, <1>ty DEF OpenSong
  <2>f. /\ dec'.at = "header" /\ dec'.suspended = dec.suspended /\ dec'.late = dec.late /\ dec'.fd = "open"
        /\ dec'.pos = 0 /\ dec'.ret = dec.ret
    BY <2>d, PosOK, <1>ty DEF DecoderThread
  <2>1. /\ UNCHANGED <<music, pl, ui, hw, ms, heard>>
        /\ pl.at \in {"loop", "clean"} /\ dec.at = "open"
    BY <1>2, <1>ty, <2>v DEF OpenSong, PlaylistRecord, PlaylistThread, DecoderThread, MainThread
  <2>a. dec' \in DecoderThread
    BY <2>d, PosOK, <1>ty DEF DecoderThread
  <2>2. TypeOK'
    BY <2>1, <2>f, <2>a, <1>ty DEF TypeOK
  <2>3. Placed'
    BY <1>2, <2>1, <2>f, FieldFacts DEF IInv, Placed
  <2>4. Codec'
    BY <1>2, <2>1, <2>f, FieldFacts DEF IInv, Codec, Placed
  <2>5. Agreed'
    BY <1>2, <2>1, <2>f, FieldFacts DEF IInv, Agreed, Codec
  <2>6. PausedQuiet'
    BY <1>2, <2>1, <2>f, FieldFacts DEF IInv, PausedQuiet, Placed
  <2>7. HasName'
    BY <1>2, <2>1, <2>f, FieldFacts, <2>v DEF IInv, HasName, Placed
  <2>8. Ordered'
    BY <1>2, <2>1, <2>f, FieldFacts DEF IInv, Ordered, Placed, HasName, Following
  <2>9. Owed'
    BY <1>2, <2>1, <2>f, FieldFacts DEF IInv, Owed, Placed, HasName, Ordered, Following
  <2>10. Offsets'
    BY <1>2, <2>1, <2>f, FieldFacts DEF IInv, Offsets, Placed, HasName, HeardNext
  <2>11. RoundDistinct'
    BY <2>1, <2>f, RoundSame DEF IInv
  <2>. QED
    BY <2>2, <2>3, <2>4, <2>5, <2>6, <2>7, <2>8, <2>9, <2>10, <2>11 DEF IInv
<1>3. CASE ~ms
  <2>v. pl.at \in {"loop", "clean"} /\ music.file \in Songs /\ music.file # -1
    BY <1>3, <1>ty, IndexOK DEF OpenSong, IInv, Placed, HasName
  <2>d. dec' = [dec EXCEPT !.at = "end", !.pos = 0, !.ret = "ERR"]
    BY <1>3, <1>ty DEF OpenSong, Ends
  <2>f. /\ dec'.at = "end" /\ dec'.suspended = dec.suspended /\ dec'.late = dec.late /\ dec'.fd = dec.fd
        /\ dec'.pos = 0 /\ dec'.ret = "ERR"
    BY <2>d, PosOK, <1>ty DEF DecoderThread
  <2>1. /\ UNCHANGED <<music, pl, ui, hw, ms, heard>>
        /\ pl.at \in {"loop", "clean"} /\ dec.at = "open"
    BY <1>3, <1>ty, <2>v DEF OpenSong, PlaylistRecord, PlaylistThread, DecoderThread, MainThread
  <2>a. dec' \in DecoderThread
    BY <2>d, PosOK, <1>ty DEF DecoderThread
  <2>2. TypeOK'
    BY <2>1, <2>f, <2>a, <1>ty DEF TypeOK
  <2>3. Placed'
    BY <1>3, <2>1, <2>f, FieldFacts DEF IInv, Placed
  <2>4. Codec'
    BY <1>3, <2>1, <2>f, FieldFacts DEF IInv, Codec, Placed
  <2>5. Agreed'
    BY <1>3, <2>1, <2>f, FieldFacts DEF IInv, Agreed, Codec
  <2>6. PausedQuiet'
    BY <1>3, <2>1, <2>f, FieldFacts DEF IInv, PausedQuiet, Placed
  <2>7. HasName'
    BY <1>3, <2>1, <2>f, FieldFacts, <2>v DEF IInv, HasName, Placed
  <2>8. Ordered'
    BY <1>3, <2>1, <2>f, FieldFacts DEF IInv, Ordered, Placed, HasName, Following
  <2>9. Owed'
    BY <1>3, <2>1, <2>f, FieldFacts DEF IInv, Owed, Placed, HasName, Ordered, Following
  <2>10. Offsets'
    BY <1>3, <2>1, <2>f, FieldFacts DEF IInv, Offsets, Placed, HasName, HeardNext
  <2>11. RoundDistinct'
    BY <2>1, <2>f, RoundSame DEF IInv
  <2>. QED
    BY <2>2, <2>3, <2>4, <2>5, <2>6, <2>7, <2>8, <2>9, <2>10, <2>11 DEF IInv
<1>. QED
  BY <1>1, <1>2, <1>3 DEF OpenSong

LEMMA HeaderStep ==
    ASSUME IInv, NEW kinds, Header(kinds)
    PROVE  IInv'
<1>ty. /\ music \in PlaylistRecord /\ pl \in PlaylistThread /\ dec \in DecoderThread /\ ui \in MainThread
       /\ hw \in [init : BOOLEAN, codec : {"none", "held", "freed"}]
       /\ heard \in [song : SongOrNone, frame : 0 .. Frames]
       /\ ms \in BOOLEAN /\ (music.index \in Songs \/ Count = 1)
  BY TypeFacts
<1>1. CASE dec.fd # "open"
  <2>v. pl.at \in {"loop", "clean"} /\ music.file \in Songs /\ music.file # -1
    BY <1>1, <1>ty, IndexOK DEF Header, IInv, Placed, HasName
  <2>d. dec' = [dec EXCEPT !.at = "end", !.pos = 0, !.ret = "DONE"]
    BY <1>1, <1>ty DEF Header, Ends
  <2>o. 0 \in 0 .. Frames + 1
    BY <1>1, <1>ty, FieldFacts, CountOK
  <2>f. /\ dec'.at = "end" /\ dec'.suspended = dec.suspended /\ dec'.late = dec.late /\ dec'.fd = dec.fd
        /\ dec'.pos = 0 /\ dec'.ret = "DONE"
    BY <2>d, <2>o, <1>ty DEF DecoderThread
  <2>1. /\ UNCHANGED <<music, pl, ui, hw, ms, heard>>
        /\ pl.at \in {"loop", "clean"} /\ dec.at = "header"
    BY <1>1, <1>ty, <2>v DEF Header, PlaylistRecord, PlaylistThread, DecoderThread, MainThread
  <2>a. dec' \in DecoderThread
    BY <2>d, <2>o, <1>ty DEF DecoderThread
  <2>2. TypeOK'
    BY <2>1, <2>f, <2>a, <1>ty DEF TypeOK
  <2>3. Placed'
    BY <1>1, <2>1, <2>f, FieldFacts DEF IInv, Placed
  <2>4. Codec'
    BY <1>1, <2>1, <2>f, FieldFacts DEF IInv, Codec, Placed
  <2>5. Agreed'
    BY <1>1, <2>1, <2>f, FieldFacts DEF IInv, Agreed, Codec
  <2>6. PausedQuiet'
    BY <1>1, <2>1, <2>f, FieldFacts DEF IInv, PausedQuiet, Placed
  <2>7. HasName'
    BY <1>1, <2>1, <2>f, FieldFacts, <2>v DEF IInv, HasName, Placed
  <2>8. Ordered'
    BY <1>1, <2>1, <2>f, FieldFacts DEF IInv, Ordered, Placed, HasName, Following
  <2>9. Owed'
    BY <1>1, <2>1, <2>f, FieldFacts DEF IInv, Owed, Placed, HasName, Ordered, Following
  <2>10. Offsets'
    BY <1>1, <2>1, <2>f, FieldFacts DEF IInv, Offsets, Placed, HasName, HeardNext
  <2>11. RoundDistinct'
    BY <2>1, <2>f, RoundSame DEF IInv
  <2>. QED
    BY <2>2, <2>3, <2>4, <2>5, <2>6, <2>7, <2>8, <2>9, <2>10, <2>11 DEF IInv
<1>2. CASE dec.fd = "open" /\ "mp3" \in kinds
  <2>v. pl.at \in {"loop", "clean"} /\ music.file \in Songs /\ music.file # -1
    BY <1>2, <1>ty, IndexOK DEF Header, IInv, Placed, HasName
  <2>d. dec' = [dec EXCEPT !.at = "play", !.pos = 1]
    BY <1>2, <1>ty DEF Header, Ends
  <2>o. 1 \in 0 .. Frames + 1
    BY <1>2, <1>ty, FieldFacts, CountOK
  <2>f. /\ dec'.at = "play" /\ dec'.suspended = dec.suspended /\ dec'.late = dec.late /\ dec'.fd = dec.fd
        /\ dec'.pos = 1 /\ dec'.ret = dec.ret
    BY <2>d, <2>o, <1>ty DEF DecoderThread
  <2>1. /\ UNCHANGED <<music, pl, ui, hw, ms, heard>>
        /\ pl.at \in {"loop", "clean"} /\ dec.at = "header"
    BY <1>2, <1>ty, <2>v DEF Header, PlaylistRecord, PlaylistThread, DecoderThread, MainThread
  <2>a. dec' \in DecoderThread
    BY <2>d, <2>o, <1>ty DEF DecoderThread
  <2>2. TypeOK'
    BY <2>1, <2>f, <2>a, <1>ty DEF TypeOK
  <2>3. Placed'
    BY <1>2, <2>1, <2>f, FieldFacts DEF IInv, Placed
  <2>4. Codec'
    BY <1>2, <2>1, <2>f, FieldFacts DEF IInv, Codec, Placed
  <2>5. Agreed'
    BY <1>2, <2>1, <2>f, FieldFacts DEF IInv, Agreed, Codec
  <2>6. PausedQuiet'
    BY <1>2, <2>1, <2>f, FieldFacts DEF IInv, PausedQuiet, Placed
  <2>7. HasName'
    BY <1>2, <2>1, <2>f, FieldFacts, <2>v DEF IInv, HasName, Placed
  <2>8. Ordered'
    BY <1>2, <2>1, <2>f, FieldFacts DEF IInv, Ordered, Placed, HasName, Following
  <2>9. Owed'
    BY <1>2, <2>1, <2>f, FieldFacts DEF IInv, Owed, Placed, HasName, Ordered, Following
  <2>10. Offsets'
    BY <1>2, <2>1, <2>f, FieldFacts DEF IInv, Offsets, Placed, HasName, HeardNext
  <2>11. RoundDistinct'
    BY <2>1, <2>f, RoundSame DEF IInv
  <2>. QED
    BY <2>2, <2>3, <2>4, <2>5, <2>6, <2>7, <2>8, <2>9, <2>10, <2>11 DEF IInv
<1>3. CASE dec.fd = "open" /\ "mp3" \notin kinds /\ music.resume
  <2>v. pl.at \in {"loop", "clean"} /\ music.file \in Songs /\ music.file # -1
    BY <1>3, <1>ty, IndexOK DEF Header, IInv, Placed, HasName
  <2>d. dec' = [dec EXCEPT !.at = "play", !.pos = music.offset]
    BY <1>3, <1>ty DEF Header, Ends
  <2>o. music.offset \in 0 .. Frames + 1
    BY <1>3, <1>ty, FieldFacts, CountOK
  <2>music. music' = [music EXCEPT !.resume = FALSE]
    BY <1>3 DEF Header
  <2>f. /\ music'.index = music.index /\ music'.random = music.random
        /\ music'.random_index = music.random_index /\ music'.random_played = music.random_played
        /\ music'.pause = music.pause /\ music'.change_track = music.change_track
        /\ music'.flags = music.flags /\ music'.resume = FALSE /\ music'.offset = music.offset
        /\ music'.file = music.file
    BY <1>3, <1>ty, <2>v DEF Header, PlaylistRecord, PlaylistThread, DecoderThread, MainThread
  <2>g. /\ dec'.at = "play" /\ dec'.suspended = dec.suspended /\ dec'.late = dec.late /\ dec'.fd = dec.fd
        /\ dec'.pos = music.offset /\ dec'.ret = dec.ret
    BY <2>d, <2>o, <1>ty DEF DecoderThread
  <2>1. /\ UNCHANGED <<pl, ui, hw, ms, heard>>
        /\ pl.at \in {"loop", "clean"} /\ dec.at = "header"
    BY <1>3, <1>ty, <2>v DEF Header, PlaylistRecord, PlaylistThread, DecoderThread, MainThread
  <2>a. dec' \in DecoderThread
    BY <2>d, <2>o, <1>ty DEF DecoderThread
  <2>b. music' \in PlaylistRecord
    BY <2>music, <1>ty, <2>v, <2>d, <2>o DEF PlaylistRecord, PlaylistThread, DecoderThread, MainThread
  <2>2. TypeOK'
    BY <2>1, <2>f, <2>g, <2>a, <2>b, <1>ty DEF TypeOK
  <2>3. Placed'
    BY <1>3, <2>1, <2>f, <2>g, FieldFacts DEF IInv, Placed
  <2>4. Codec'
    BY <1>3, <2>1, <2>f, <2>g, FieldFacts DEF IInv, Codec, Placed
  <2>5. Agreed'
    BY <1>3, <2>1, <2>f, <2>g, FieldFacts DEF IInv, Agreed, Codec
  <2>6. PausedQuiet'
    BY <1>3, <2>1, <2>f, <2>g, FieldFacts DEF IInv, PausedQuiet, Placed
  <2>7. HasName'
    BY <1>3, <2>1, <2>f, <2>g, FieldFacts, <2>v DEF IInv, HasName, Placed
  <2>8. Ordered'
    BY <1>3, <2>1, <2>f, <2>g, FieldFacts DEF IInv, Ordered, Placed, HasName, Following
  <2>9. Owed'
    BY <1>3, <2>1, <2>f, <2>g, FieldFacts DEF IInv, Owed, Placed, HasName, Ordered, Following
  <2>10. Offsets'
    BY <1>3, <2>1, <2>f, <2>g, FieldFacts DEF IInv, Offsets, Placed, HasName, HeardNext
  <2>11. RoundDistinct'
    BY <2>1, <2>f, <2>g, RoundSame DEF IInv
  <2>. QED
    BY <2>2, <2>3, <2>4, <2>5, <2>6, <2>7, <2>8, <2>9, <2>10, <2>11 DEF IInv
<1>4. CASE dec.fd = "open" /\ "mp3" \notin kinds /\ ~music.resume
  <2>v. pl.at \in {"loop", "clean"} /\ music.file \in Songs /\ music.file # -1
    BY <1>4, <1>ty, IndexOK DEF Header, IInv, Placed, HasName
  <2>d. dec' = [dec EXCEPT !.at = "play", !.pos = 1]
    BY <1>4, <1>ty DEF Header, Ends
  <2>o. 1 \in 0 .. Frames + 1
    BY <1>4, <1>ty, FieldFacts, CountOK
  <2>music. music' = [music EXCEPT !.resume = FALSE]
    BY <1>4 DEF Header
  <2>f. /\ music'.index = music.index /\ music'.random = music.random
        /\ music'.random_index = music.random_index /\ music'.random_played = music.random_played
        /\ music'.pause = music.pause /\ music'.change_track = music.change_track
        /\ music'.flags = music.flags /\ music'.resume = FALSE /\ music'.offset = music.offset
        /\ music'.file = music.file
    BY <1>4, <1>ty, <2>v DEF Header, PlaylistRecord, PlaylistThread, DecoderThread, MainThread
  <2>g. /\ dec'.at = "play" /\ dec'.suspended = dec.suspended /\ dec'.late = dec.late /\ dec'.fd = dec.fd
        /\ dec'.pos = 1 /\ dec'.ret = dec.ret
    BY <2>d, <2>o, <1>ty DEF DecoderThread
  <2>1. /\ UNCHANGED <<pl, ui, hw, ms, heard>>
        /\ pl.at \in {"loop", "clean"} /\ dec.at = "header"
    BY <1>4, <1>ty, <2>v DEF Header, PlaylistRecord, PlaylistThread, DecoderThread, MainThread
  <2>a. dec' \in DecoderThread
    BY <2>d, <2>o, <1>ty DEF DecoderThread
  <2>b. music' \in PlaylistRecord
    BY <2>music, <1>ty, <2>v, <2>d, <2>o DEF PlaylistRecord, PlaylistThread, DecoderThread, MainThread
  <2>2. TypeOK'
    BY <2>1, <2>f, <2>g, <2>a, <2>b, <1>ty DEF TypeOK
  <2>3. Placed'
    BY <1>4, <2>1, <2>f, <2>g, FieldFacts DEF IInv, Placed
  <2>4. Codec'
    BY <1>4, <2>1, <2>f, <2>g, FieldFacts DEF IInv, Codec, Placed
  <2>5. Agreed'
    BY <1>4, <2>1, <2>f, <2>g, FieldFacts DEF IInv, Agreed, Codec
  <2>6. PausedQuiet'
    BY <1>4, <2>1, <2>f, <2>g, FieldFacts DEF IInv, PausedQuiet, Placed
  <2>7. HasName'
    BY <1>4, <2>1, <2>f, <2>g, FieldFacts, <2>v DEF IInv, HasName, Placed
  <2>8. Ordered'
    BY <1>4, <2>1, <2>f, <2>g, FieldFacts DEF IInv, Ordered, Placed, HasName, Following
  <2>9. Owed'
    BY <1>4, <2>1, <2>f, <2>g, FieldFacts DEF IInv, Owed, Placed, HasName, Ordered, Following
  <2>10. Offsets'
    BY <1>4, <2>1, <2>f, <2>g, FieldFacts DEF IInv, Offsets, Placed, HasName, HeardNext
  <2>11. RoundDistinct'
    BY <2>1, <2>f, <2>g, RoundSame DEF IInv
  <2>. QED
    BY <2>2, <2>3, <2>4, <2>5, <2>6, <2>7, <2>8, <2>9, <2>10, <2>11 DEF IInv
<1>. QED
  BY <1>1, <1>2, <1>3, <1>4 DEF Header

(* One frame more is heard, and offset says where a resume goes on.                       *)
LEMMA FramePlayed ==
    ASSUME IInv, NEW place \in 1 .. Frames, NEW off \in {place, place + 1}, off <= Frames,
           dec.at = "play", music.flags = "PLAYING",
           dec' = [dec EXCEPT !.pos = place + 1],
           music' = [music EXCEPT !.offset = off],
           heard' = [song |-> music.file, frame |-> place],
           UNCHANGED <<pl, ui, hw, ms>>
    PROVE  IInv'
<1>ty. /\ music \in PlaylistRecord /\ pl \in PlaylistThread /\ dec \in DecoderThread /\ ui \in MainThread
       /\ hw \in [init : BOOLEAN, codec : {"none", "held", "freed"}]
       /\ heard \in [song : SongOrNone, frame : 0 .. Frames]
       /\ ms \in BOOLEAN /\ (music.index \in Songs \/ Count = 1)
  BY TypeFacts
<1>v. pl.at \in {"loop", "clean"} /\ music.file \in Songs /\ music.file # -1
  BY <1>ty, IndexOK DEF IInv, Placed, HasName
<1>o. /\ place + 1 \in 0 .. Frames + 1 /\ off \in 0 .. Frames /\ place \in 0 .. Frames
      /\ music.file \in SongOrNone
  BY <1>ty, <1>v, IndexOK, CountOK
<1>f. /\ music'.index = music.index /\ music'.random = music.random
      /\ music'.random_index = music.random_index /\ music'.random_played = music.random_played
      /\ music'.pause = music.pause /\ music'.change_track = music.change_track
      /\ music'.flags = music.flags /\ music'.resume = music.resume /\ music'.offset = off
      /\ music'.file = music.file
  BY <1>o, <1>ty DEF PlaylistRecord
<1>g. /\ dec'.at = dec.at /\ dec'.suspended = dec.suspended /\ dec'.late = dec.late /\ dec'.fd = dec.fd
      /\ dec'.pos = place + 1 /\ dec'.ret = dec.ret
  BY <1>o, <1>ty DEF DecoderThread
<1>h. /\ heard'.song = music.file /\ heard'.frame = place
  BY <1>o, <1>ty, IndexOK
<1>1. /\ UNCHANGED <<pl, ui, hw, ms>>
      /\ pl.at \in {"loop", "clean"} /\ dec.at = "play"
  BY <1>ty, <1>v, IndexOK DEF PlaylistRecord, PlaylistThread, DecoderThread, MainThread
<1>a. dec' \in DecoderThread
  BY <1>o, <1>ty DEF DecoderThread
<1>b. music' \in PlaylistRecord
  BY <1>o, <1>ty DEF PlaylistRecord
<1>c. heard' \in [song : SongOrNone, frame : 0 .. Frames]
  BY <1>o, <1>ty, IndexOK
<1>2. TypeOK'
  BY <1>1, <1>f, <1>g, <1>h, <1>a, <1>b, <1>c, <1>ty DEF TypeOK
<1>3. Placed'
  BY <1>1, <1>f, <1>g, <1>h, FieldFacts DEF IInv, Placed
<1>4. Codec'
  BY <1>1, <1>f, <1>g, <1>h, FieldFacts DEF IInv, Codec, Placed
<1>5. Agreed'
  BY <1>1, <1>f, <1>g, <1>h, FieldFacts DEF IInv, Agreed, Codec
<1>6. PausedQuiet'
  BY <1>1, <1>f, <1>g, <1>h, FieldFacts DEF IInv, PausedQuiet, Placed
<1>7. HasName'
  BY <1>1, <1>f, <1>g, <1>h, FieldFacts, <1>v DEF IInv, HasName, Placed
<1>8. Ordered'
  BY <1>1, <1>f, <1>g, <1>h, FieldFacts DEF IInv, Ordered, Placed, HasName, Following
<1>9. Owed'
  BY <1>1, <1>f, <1>g, <1>h, FieldFacts DEF IInv, Owed, Placed, HasName, Ordered, Following
<1>10. Offsets'
  BY <1>1, <1>f, <1>g, <1>h, FieldFacts DEF IInv, Offsets, Placed, HasName, HeardNext
<1>11. RoundDistinct'
  BY <1>1, <1>f, <1>g, <1>h, RoundSame DEF IInv
<1>. QED
  BY <1>2, <1>3, <1>4, <1>5, <1>6, <1>7, <1>8, <1>9, <1>10, <1>11 DEF IInv

(* The loop ends after a frame, or on a read that fails.                      *)
LEMMA FrameEnds ==
    ASSUME IInv, dec.at = "play", NEW r \in {"DONE", "RESET"},
           dec' = [dec EXCEPT !.at = "end", !.pos = 0, !.ret = r],
           UNCHANGED <<pl, ui, hw, ms, music, heard>>
    PROVE  IInv'
<1>ty. /\ music \in PlaylistRecord /\ pl \in PlaylistThread /\ dec \in DecoderThread /\ ui \in MainThread
       /\ hw \in [init : BOOLEAN, codec : {"none", "held", "freed"}]
       /\ heard \in [song : SongOrNone, frame : 0 .. Frames]
       /\ ms \in BOOLEAN /\ (music.index \in Songs \/ Count = 1)
  BY TypeFacts
<1>v. pl.at \in {"loop", "clean"} /\ music.file \in Songs /\ music.file # -1
  BY <1>ty, IndexOK DEF IInv, Placed, HasName
<1>f. /\ dec'.at = "end" /\ dec'.suspended = dec.suspended /\ dec'.late = dec.late /\ dec'.fd = dec.fd
      /\ dec'.pos = 0 /\ dec'.ret = r
  BY PosOK, <1>ty DEF DecoderThread
<1>1. /\ UNCHANGED <<music, pl, ui, hw, ms, heard>>
      /\ pl.at \in {"loop", "clean"} /\ dec.at = "play"
  BY <1>ty, <1>v DEF PlaylistRecord, PlaylistThread, DecoderThread, MainThread
<1>a. dec' \in DecoderThread
  BY PosOK, <1>ty DEF DecoderThread
<1>2. TypeOK'
  BY <1>1, <1>f, <1>a, <1>ty DEF TypeOK
<1>3. Placed'
  BY <1>1, <1>f, FieldFacts DEF IInv, Placed
<1>4. Codec'
  BY <1>1, <1>f, FieldFacts DEF IInv, Codec, Placed
<1>5. Agreed'
  BY <1>1, <1>f, FieldFacts DEF IInv, Agreed, Codec
<1>6. PausedQuiet'
  BY <1>1, <1>f, FieldFacts DEF IInv, PausedQuiet, Placed
<1>7. HasName'
  BY <1>1, <1>f, FieldFacts, <1>v DEF IInv, HasName, Placed
<1>8. Ordered'
  BY <1>1, <1>f, FieldFacts DEF IInv, Ordered, Placed, HasName, Following
<1>9. Owed'
  BY <1>1, <1>f, FieldFacts DEF IInv, Owed, Placed, HasName, Ordered, Following
<1>10. Offsets'
  BY <1>1, <1>f, FieldFacts DEF IInv, Offsets, Placed, HasName, HeardNext
<1>11. RoundDistinct'
  BY <1>1, <1>f, RoundSame DEF IInv
<1>. QED
  BY <1>2, <1>3, <1>4, <1>5, <1>6, <1>7, <1>8, <1>9, <1>10, <1>11 DEF IInv

LEMMA PlayFrameStep ==
    ASSUME IInv, NEW kinds, PlayFrame(kinds)
    PROVE  IInv'
<1>. DEFINE place == IF "mp3" \in kinds THEN SeekNextFrame(dec.pos) ELSE dec.pos
            off == IF "mp3" \in kinds /\ place < Frames THEN place + 1 ELSE place
<1>1. dec.at = "play" /\ UNCHANGED <<pl, ui, hw, ms>>
  BY DEF PlayFrame
<1>2. CASE dec' = Ends("DONE") /\ UNCHANGED <<music, heard>>
  BY <1>1, <1>2, FrameEnds DEF Ends
<1>3. CASE dec' = Ends("RESET") /\ UNCHANGED <<music, heard>>
  BY <1>1, <1>3, FrameEnds DEF Ends
<1>4. CASE /\ music.flags = "PLAYING" /\ place \in 1 .. Frames
           /\ dec' = [dec EXCEPT !.pos = place + 1]
           /\ music' = [music EXCEPT !.offset = off]
           /\ heard' = [song |-> music.file, frame |-> place]
  <2>1. off \in {place, place + 1} /\ off <= Frames
    BY <1>4, CountOK
  <2>. HIDE DEF place, off
  <2>. QED
    BY <1>1, <1>4, <2>1, FramePlayed
<1>. QED
  BY <1>2, <1>3, <1>4 DEF PlayFrame

(* The invariant holds at the start, and every step keeps it.                 *)
LEMMA InitInv ==
    ASSUME Init
    PROVE  IInv
<1>1. /\ music.index = 0 /\ music.random = FALSE /\ music.random_index = 0 /\ music.random_played = Blank
      /\ music.pause = "PAUSE_SONG" /\ music.change_track = 0 /\ music.flags = "DONE" /\ music.resume = FALSE
      /\ music.offset = 0 /\ music.file = -1
  BY DEF Init, InitPlaylist
<1>2. /\ pl.at = "choose" /\ pl.song = -1 /\ pl.want = -1 /\ pl.lost = FALSE
      /\ dec.at = "none" /\ ui.at = "starting" /\ ui.is_paused = FALSE /\ ui.mishaps = 0
      /\ hw.init = FALSE /\ hw.codec = "none" /\ ms = TRUE /\ heard.song = -1 /\ heard.frame = 0
  BY DEF Init, Nobody
<1>3. music \in PlaylistRecord
  BY IndexOK, BlankOK, CountRange DEF Init, InitPlaylist, PlaylistRecord
<1>4. pl \in PlaylistThread /\ dec \in DecoderThread
  BY IndexOK, NobodyOK DEF Init, PlaylistThread
<1>5. ui \in MainThread
  <2>1. 0 \in 0 .. MaxMishaps
    BY CountOK
  <2>. QED
    BY <2>1 DEF Init, MainThread
<1>6. TypeOK
  BY <1>1, <1>2, <1>3, <1>4, <1>5, IndexOK, CountRange DEF Init, TypeOK
<1>7. Placed /\ Codec /\ Agreed /\ PausedQuiet
  BY <1>1, <1>2 DEF Placed, Codec, Agreed, PausedQuiet
<1>8. HasName /\ Ordered /\ Owed /\ Offsets
  BY <1>1, <1>2, IndexOK DEF HasName, Ordered, Owed, Offsets
<1>9. RoundDistinct
  BY <1>1 DEF RoundDistinct
<1>. QED
  BY <1>6, <1>7, <1>8, <1>9 DEF IInv

LEMMA StutterStep ==
    ASSUME IInv, UNCHANGED vars
    PROVE  IInv'
BY DEF vars, IInv, TypeOK, Placed, Codec, Agreed, PausedQuiet, HasName, Ordered, Owed, Offsets, HeardNext,
       RoundDistinct

LEMMA StepInv ==
    ASSUME IInv, [Next]_vars
    PROVE  IInv'
<1>1. CASE Playlist
  BY <1>1, ChooseSongStep, NameSongStep, TitleSongStep, UnpauseWaitStep, StartDecoderStep,
     WaitMSReadyStep,
     TakeTrackStep, DecoderCleanedStep, SongEndedStep, PauseOrResumeStep DEF Playlist
<1>2. CASE Decoder
  <2>1. CASE hw_mp3_play \/ hw_at3_play
    BY <2>1, HeaderStep, PlayFrameStep DEF hw_mp3_play, hw_at3_play
  <2>. QED
    BY <1>2, <2>1, OpenSongStep, PlayFileStep, CleanedUpStep DEF Decoder
<1>3. CASE main_music \/ MenuPlay \/ MenuPlayed \/ MenuTrack \/ MenuRandom
  BY <1>3, main_musicStep, MenuPlayStep, MenuPlayedStep, MenuTrackStep, MenuRandomStep
<1>4. CASE module_reboot_before \/ RestartMusic \/ StickOut \/ StickIn
  BY <1>4, module_reboot_beforeStep, RestartMusicStep, StickOutStep, StickInStep
<1>5. CASE UNCHANGED vars
  BY <1>5, StutterStep
<1>. QED
  BY <1>1, <1>2, <1>3, <1>4, <1>5 DEF Next

LEMMA Invariance == Spec => []IInv
<1>1. Init => IInv
  BY InitInv
<1>2. IInv /\ [Next]_vars => IInv'
  BY StepInv
<1>. QED
  BY <1>1, <1>2, PTL DEF Spec

(* Music that is paused is silent and the menu shows what it asked for last.  *)
THEOREM Paused == Spec => []PauseTrue
<1>1. IInv => PauseTrue
  <2>. SUFFICES ASSUME IInv PROVE PauseTrue
    OBVIOUS
  <2>1. PauseShown
    BY DEF PauseShown, Listening, IInv, Agreed
  <2>. QED
    BY <2>1 DEF PauseTrue, IInv
<1>. QED
  BY <1>1, Invariance, PTL

(* Only a song that begins, resumes or goes on is heard.                      *)
LEMMA FrameHeard ==
    ASSUME IInv, NEW kinds, PlayFrame(kinds), heard' # heard
    PROVE  \/ heard'.frame = 1
           \/ heard'.song = heard.song /\ heard'.frame \in {heard.frame, heard.frame + 1}
<1>. DEFINE place == IF "mp3" \in kinds THEN SeekNextFrame(dec.pos) ELSE dec.pos
<1>1. /\ dec.at = "play"
      /\ place \in 1 .. Frames
      /\ heard'.song = music.file /\ heard'.frame = place
  BY DEF PlayFrame
<1>2. dec.pos \in {0, 1} \/ (heard.song = music.file /\ dec.pos \in {heard.frame, heard.frame + 1})
  BY <1>1 DEF IInv, Offsets, HeardNext
<1>3. place = dec.pos \/ place = 1
  BY DEF SeekNextFrame
<1>4. dec.pos \in Int /\ heard.frame \in Int
  BY FieldFacts, CountOK
<1>5. dec.pos = 0 => place \in {0, 1}
  BY <1>3
<1>. HIDE DEF place
<1>. QED
  BY <1>1, <1>2, <1>3, <1>4, <1>5

(* A resumed song goes on where it was paused, in the song that was paused,  *)
(* whatever the user did to the list meanwhile (mp3player.c, aacplayer.c).    *)
THEOREM ResumedRight == Spec => Resumed
<1>1. ASSUME IInv, [Next]_vars, heard' # heard
      PROVE  \/ heard'.frame = 1
             \/ heard'.song = heard.song /\ heard'.frame \in {heard.frame, heard.frame + 1}
  <2>1. \E kinds : PlayFrame(kinds)
    <3>1. ~UNCHANGED heard
      BY <1>1
    <3>2. ~Playlist
      BY <3>1
         DEF Playlist, ChooseSong, NameSong, TitleSong, UnpauseWait, StartDecoder, WaitMSReady, TakeTrack,
                  DecoderCleaned, SongEnded, PauseOrResume
    <3>3. ~OpenSong /\ ~PlayFile /\ ~CleanedUp /\ (\A kinds : ~Header(kinds))
      BY <3>1 DEF OpenSong, PlayFile, CleanedUp, Header
    <3>4. /\ ~main_music /\ ~MenuPlay /\ ~MenuPlayed /\ ~MenuTrack /\ ~MenuRandom
          /\ ~module_reboot_before /\ ~RestartMusic /\ ~StickOut /\ ~StickIn
      BY <3>1
         DEF main_music, MenuPlay, MenuPlayed, MenuTrack, MenuRandom, module_reboot_before, RestartMusic,
                  StickOut, StickIn
    <3>5. Decoder
      BY <1>1, <3>1, <3>2, <3>4 DEF Next, vars
    <3>. QED
      BY <3>3, <3>5 DEF Decoder, hw_mp3_play, hw_at3_play
  <2>. QED
    BY <1>1, <2>1, FrameHeard
<1>2. IInv /\ [Next]_vars => [heard' # heard =>
         \/ heard'.frame = 1
         \/ heard'.song = heard.song /\ heard'.frame \in {heard.frame, heard.frame + 1}]_vars
  BY <1>1
<1>. QED
  BY <1>2, Invariance, PTL DEF Spec, Resumed

(* The song whose decoder starts is the one that was owed.                    *)
LEMMA SongRight ==
    ASSUME IInv, pl.at = "start", pl.want # -1
    PROVE  music.file = pl.want
BY DEF IInv, Owed

(* Every song that begins is the one the order of play asks for, for any      *)
(* number of songs: no key, codec or loss of the stick changes that.          *)
THEOREM SongsInOrder == Spec => RightSong
<1>1. IInv => RoundDistinct
  BY DEF IInv
<1>2. IInv /\ [Next]_vars => [pl.at = "start" /\ pl.want # -1 /\ dec'.at = "open" => music.file = pl.want]_vars
  BY SongRight
<1>. QED
  BY <1>1, <1>2, Invariance, PTL DEF Spec, RightSong, SongWanted

------------------------------------------------------------------------------
(* The FTP server: memory, sockets and files of the sessions, for any number  *)
(* of connections, commands and sockets.                                      *)

States == {"none", "started", "recv", "pasv", "open", "data", "store", "ending", "dead", "killed"}

(* A connection whose paths are among D.                                      *)
Connection(D) ==
    [at : States, op : Commands \cup {"none"}, cmd : Numbers \cup {0}, data : Numbers \cup {0},
      pasv : Numbers \cup {0},
     passive : BOOLEAN, dir : D, from : D, arg : D, told : Ports, got : Nat, buffer : Nat, fd : BOOLEAN]
SocketRecord == [who : {-1, 0} \cup Session, port : Ports, waiting : {0} \cup Session]
Memory == [memid : {0} \cup Session, memid2 : {0} \cup Session, nodes : SUBSET Session, blocks : SUBSET Session]
Server ==
    [loop : {"accept", "done"}, listen : Numbers, exit : {"wait", "done"}, count : 0 .. MaxSession,
     commands : 0 .. MaxCommands, overlap : BOOLEAN, late : SUBSET Session]

Typed ==
    /\ \E D : con \in [Session -> Connection(D)]
    /\ sock \in [Numbers -> SocketRecord]
    /\ list \subseteq Session
    /\ mem \in Memory
    /\ pasvPort \in Ports
    /\ srv \in Server

(* The sessions that were accepted, the block of the newest one in memid2.    *)
Counted ==
    /\ mem.memid2 = srv.count
    /\ \A s \in Session :
          /\ con[s].at = "none" <=> s > srv.count
          /\ con[s].at = "none" => con[s].data = 0 /\ con[s].pasv = 0
    /\ \A s \in list : s <= srv.count

(* A number that is free does not listen.                                     *)
Closed == \A n \in Numbers : sock[n].who = -1 => sock[n].port = 0

(* One session at a time: what it holds is its own.                           *)
Holds(s, n) == n \in Numbers => sock[n].who \in {-1, s}
Served ==
    Orderly =>
        /\ sock[srv.listen].who = 0 /\ sock[srv.listen].port = 21
        /\ \A s \in Session : Alive(s) =>
              /\ s = srv.count /\ s \in mem.blocks
              /\ Holds(s, con[s].cmd) /\ Holds(s, con[s].data) /\ Holds(s, con[s].pasv)
        /\ \A s \in list : Alive(s) /\ mem.memid = s /\ s \in mem.nodes

(* What was received is in the file or in the buffer.                         *)
Stored ==
    \A s \in Session :
        /\ con[s].buffer <= WriteBuffer
        /\ con[s].at # "store" => con[s].got = 0 /\ con[s].buffer = 0 /\ con[s].fd = FALSE
        /\ Orderly /\ con[s].at = "store" /\ con[s].fd = TRUE =>
              /\ con[s].arg \in DOMAIN files /\ files[con[s].arg] \in Nat
              /\ files[con[s].arg] + con[s].buffer = con[s].got

FtpdIInv == Typed /\ Counted /\ Closed /\ Served /\ Stored

LEMMA Bounds ==
    /\ MaxSession \in Nat \ {0} /\ MaxCommands \in Nat /\ MaxNumber \in Nat /\ WriteBuffer \in Nat \ {0}
    /\ Chunks \subseteq 1 .. WriteBuffer
BY FtpdAssumption

(* A set of numbers that is not empty has a least one.                        *)
LEMMA LeastNumber ==
  ASSUME NEW S \in SUBSET Nat, S # {}
  PROVE  Min(S) \in S /\ \A x \in S : Min(S) <= x
<1>. DEFINE Below(n) == {k \in Nat : k < n}
            T == {Below(n) : n \in S}
<1>1. T \subseteq FiniteSubsetsOf(Nat) /\ T # {}
  <2>1. SUFFICES ASSUME NEW n \in S PROVE Below(n) \in FiniteSubsetsOf(Nat)
    OBVIOUS
  <2>2. Below(n) \in SUBSET Nat /\ \A k \in Below(n) : k <= n
    OBVIOUS
  <2>3. IsFiniteSet(Below(n))
    BY <2>2, FS_BoundedSetOfNaturals
  <2>. QED
    BY <2>2, <2>3 DEF FiniteSubsetsOf
<1>2. PICK B \in T : \A C \in T : <<C, B>> \notin StrictSubsetOrdering(Nat)
  <2>1. IsWellFoundedOn(StrictSubsetOrdering(Nat), FiniteSubsetsOf(Nat))
    BY FS_StrictSubsetOrderingWellFounded
  <2>. HIDE DEF T
  <2>. QED
    BY <1>1, <2>1, WFMin
<1>3. PICK m \in S : B = Below(m)
  OBVIOUS
<1>4. ASSUME NEW x \in S, x < m PROVE FALSE
  <2>1. Below(x) \in T /\ Below(x) \subseteq Nat /\ Below(m) \subseteq Nat
    OBVIOUS
  <2>2. Below(x) \subseteq Below(m)
    BY <1>4
  <2>3. x \in Below(m) /\ x \notin Below(x)
    BY <1>4
  <2>4. <<Below(x), B>> \in StrictSubsetOrdering(Nat)
    BY <1>3, <2>1, <2>2, <2>3 DEF StrictSubsetOrdering
  <2>. QED
    BY <1>2, <2>1, <2>4
<1>5. \A x \in S : m <= x
  BY <1>4
<1>. QED
  BY <1>5 DEF Min

(* A number that is taken was free.                                           *)
LEMMA NumberFree ==
    ASSUME FreeNumbers # {}
    PROVE  NewNumber \in Numbers /\ sock[NewNumber].who = -1
<1>1. FreeNumbers \in SUBSET Nat
  BY Bounds DEF FreeNumbers, Numbers
<1>2. Min(FreeNumbers) \in FreeNumbers
  BY <1>1, LeastNumber
<1>. QED
  BY <1>2 DEF NewNumber, FreeNumbers

(* The paths of a step can be taken among those of the connections.           *)
LEMMA Paths ==
    ASSUME Typed, NEW x, NEW y
    PROVE  \E E : x \in E /\ y \in E /\ con \in [Session -> Connection(E)]
<1>1. PICK D : con \in [Session -> Connection(D)]
  BY DEF Typed
<1>2. Connection(D) \subseteq Connection(D \cup {x, y})
  <2>1. SUFFICES ASSUME NEW S \in SUBSET (D \cup {x, y}), NEW c \in Connection(S)
                 PROVE  c \in Connection(D \cup {x, y})
    OBVIOUS
  <2>. QED
    BY DEF Connection
<1>3. con \in [Session -> Connection(D \cup {x, y})]
  BY <1>1, <1>2
<1>. QED
  BY <1>3

(* What a step of session s does: r is its connection afterwards, ...         *)
Becomes(s, r) == con' = [con EXCEPT ![s] = r] /\ r.at # "none"

(* ... it closes numbers and takes some, but not the one the server listens   *)
(* on, ...                                                                    *)
Sockets(s) ==
    /\ sock' \in [Numbers -> SocketRecord]
    /\ \A n \in Numbers : sock'[n].who = -1 => sock'[n].port = 0
    /\ \A n \in Numbers : sock'[n].who \in {sock[n].who, -1, s}
    /\ Orderly => sock'[srv.listen].who = 0 /\ sock'[srv.listen].port = 21

(* ... what it holds is its own, ...                                          *)
Own(s, r) == \A n \in Numbers : n \in {r.cmd, r.data, r.pasv} => sock'[n].who \in {-1, s}

(* ... it may register or end, ...                                            *)
Lives(r) == r.at \notin {"dead", "killed"}
Registers(s, r) ==
    /\ mem' \in Memory /\ mem'.memid2 = mem.memid2 /\ list' \subseteq list \cup {s}
    /\ Orderly => (Lives(r) => s \in mem'.blocks)
    /\ Orderly => \A t \in list' : t = s /\ Lives(r) /\ mem'.memid = s /\ s \in mem'.nodes

(* ... leaves the server alone, ...                                           *)
Beside ==
    /\ pasvPort' \in Ports /\ srv' \in Server
    /\ srv'.listen = srv.listen /\ srv'.exit = srv.exit /\ srv'.count = srv.count /\ srv'.overlap = srv.overlap

(* ... and accounts for what it received.                                     *)
Accounts(r) ==
    /\ r.buffer <= WriteBuffer
    /\ r.at # "store" => r.got = 0 /\ r.buffer = 0 /\ r.fd = FALSE
    /\ Orderly /\ r.at = "store" /\ r.fd = TRUE =>
          /\ r.arg \in DOMAIN files' /\ files'[r.arg] \in Nat
          /\ files'[r.arg] + r.buffer = r.got

LEMMA BecomesFacts ==
    ASSUME NEW s \in Session, NEW D, con \in [Session -> Connection(D)], NEW r \in Connection(D), Becomes(s, r)
    PROVE  /\ con' \in [Session -> Connection(D)]
           /\ con'[s] = r /\ (\A t \in Session : t # s => con'[t] = con[t])
           /\ r.at # "none"
BY DEF Becomes

LEMMA OrderlySame ==
    ASSUME Beside
    PROVE  Orderly' <=> Orderly
BY DEF Beside, Orderly

LEMMA OnlyOne ==
    ASSUME FtpdIInv, NEW s \in Session, Alive(s), Orderly, NEW t \in Session, Alive(t)
    PROVE  t = s /\ s = srv.count
BY DEF FtpdIInv, Served

LEMMA Accepted ==
    ASSUME FtpdIInv, NEW s \in Session, Alive(s)
    PROVE  con[s].at # "none" /\ ~(s > srv.count) /\ s <= srv.count
<1>1. srv.count \in Int /\ s \in Int
  BY Bounds DEF FtpdIInv, Typed, Server, Session
<1>2. con[s].at # "none"
  BY DEF Alive
<1>3. con[s].at = "none" <=> s > srv.count
  BY DEF FtpdIInv, Counted
<1>. QED
  BY <1>1, <1>2, <1>3

LEMMA StepCounted ==
    ASSUME FtpdIInv, NEW s \in Session, Alive(s),
           NEW D, con \in [Session -> Connection(D)], NEW r \in Connection(D), Becomes(s, r),
           Registers(s, r), Beside
    PROVE  Counted'
<1>1. con'[s] = r /\ (\A t \in Session : t # s => con'[t] = con[t]) /\ r.at # "none"
  BY BecomesFacts
<1>2. Counted /\ ~(s > srv.count) /\ s <= srv.count
  BY Accepted DEF FtpdIInv
<1>3. srv'.count = srv.count
  BY DEF Beside
<1>4. mem'.memid2 = mem.memid2 /\ list' \subseteq list \cup {s}
  BY DEF Registers
<1>5. mem'.memid2 = srv'.count
  BY <1>2, <1>3, <1>4 DEF Counted
<1>6. \A t \in list' : t <= srv'.count
  BY <1>2, <1>3, <1>4 DEF Counted
<1>7. ASSUME NEW t \in Session
      PROVE  (con'[t].at = "none" <=> t > srv'.count) /\ (con'[t].at = "none" => con'[t].data = 0 /\
               con'[t].pasv = 0)
  <2>1. CASE t = s
    BY <1>1, <1>2, <1>3, <2>1
  <2>2. CASE t # s
    BY <1>1, <1>2, <1>3, <2>2 DEF Counted
  <2>. QED
    BY <2>1, <2>2
<1>. QED
  BY <1>5, <1>6, <1>7 DEF Counted

LEMMA StepServed ==
    ASSUME FtpdIInv, NEW s \in Session, Alive(s), Orderly,
           NEW D, con \in [Session -> Connection(D)], NEW r \in Connection(D), Becomes(s, r),
           Sockets(s), Own(s, r), Registers(s, r), Beside
    PROVE  Served'
<1>1. con'[s] = r /\ (\A t \in Session : t # s => con'[t] = con[t]) /\ r.at # "none"
  BY BecomesFacts
<1>2. sock'[srv'.listen].who = 0 /\ sock'[srv'.listen].port = 21
  BY DEF Sockets, Beside
<1>3. s = srv'.count
  BY OnlyOne DEF Beside
<1>4. Alive(s)' <=> Lives(r)
  BY <1>1 DEF Alive, Lives
<1>5. ASSUME NEW t \in Session, Alive(t)' PROVE t = s
  <2>1. t # s => con[t] = con'[t]
    BY <1>1
  <2>2. t # s => Alive(t)
    BY <1>5, <2>1 DEF Alive
  <2>. QED
    BY <2>2, OnlyOne
<1>6. Holds(s, con[s].cmd)' /\ Holds(s, con[s].data)' /\ Holds(s, con[s].pasv)'
  BY <1>1 DEF Own, Holds
<1>7. Alive(s)' => s \in mem'.blocks
  BY <1>4 DEF Registers
<1>8. \A t \in list' : t = s /\ Lives(r) /\ mem'.memid = s /\ s \in mem'.nodes
  BY DEF Registers
<1>9. ASSUME NEW t \in Session, Alive(t)'
      PROVE  (/\ t = srv.count /\ t \in mem.blocks
              /\ Holds(t, con[t].cmd) /\ Holds(t, con[t].data) /\ Holds(t, con[t].pasv))'
  BY <1>3, <1>5, <1>6, <1>7, <1>9
<1>10. \A t \in list' : (Alive(t) /\ mem.memid = t /\ t \in mem.nodes)'
  BY <1>4, <1>8
<1>. QED
  BY <1>2, <1>9, <1>10 DEF Served

LEMMA StepStored ==
    ASSUME FtpdIInv, NEW s \in Session, Alive(s),
           NEW D, con \in [Session -> Connection(D)], NEW r \in Connection(D), Becomes(s, r),
           Beside, Accounts(r)
    PROVE  Stored'
<1>1. con'[s] = r /\ (\A t \in Session : t # s => con'[t] = con[t])
  BY BecomesFacts
<1>2. Orderly' <=> Orderly
  BY OrderlySame
<1>3. SUFFICES ASSUME NEW t \in Session
                PROVE  (/\ con[t].buffer <= WriteBuffer
                        /\ con[t].at # "store" => con[t].got = 0 /\ con[t].buffer = 0 /\ con[t].fd = FALSE
                        /\ Orderly /\ con[t].at = "store" /\ con[t].fd = TRUE =>
                              /\ con[t].arg \in DOMAIN files /\ files[con[t].arg] \in Nat
                              /\ files[con[t].arg] + con[t].buffer = con[t].got)'
  BY DEF Stored
<1>4. CASE t = s
  BY <1>1, <1>2, <1>4 DEF Accounts
<1>5. CASE t # s
  <2>1. con'[t] = con[t]
    BY <1>1, <1>5
  <2>2. Orderly => con[t].at # "store"
    BY <1>5, OnlyOne DEF Alive
  <2>3. /\ con[t].buffer <= WriteBuffer
        /\ con[t].at # "store" => con[t].got = 0 /\ con[t].buffer = 0 /\ con[t].fd = FALSE
    BY DEF FtpdIInv, Stored
  <2>. QED
    BY <1>2, <2>1, <2>2, <2>3
<1>. QED
  BY <1>4, <1>5

LEMMA StepOf ==
    ASSUME FtpdIInv, NEW s \in Session, Alive(s),
           NEW D, con \in [Session -> Connection(D)], NEW r \in Connection(D), Becomes(s, r),
           Sockets(s), Orderly => Own(s, r), Registers(s, r), Beside, Accounts(r)
    PROVE  FtpdIInv'
<1>1. Typed'
  <2>1. con' \in [Session -> Connection(D)]
    BY BecomesFacts
  <2>2. list' \subseteq Session /\ mem' \in Memory
    BY DEF Registers, FtpdIInv, Typed
  <2>3. sock' \in [Numbers -> SocketRecord]
    BY DEF Sockets
  <2>4. pasvPort' \in Ports /\ srv' \in Server
    BY DEF Beside
  <2>. QED
    BY <2>1, <2>2, <2>3, <2>4 DEF Typed
<1>2. Counted'
  BY StepCounted
<1>3. Closed'
  BY DEF Sockets, Closed
<1>4. Served'
  <2>1. CASE Orderly
    BY <2>1, StepServed
  <2>2. CASE ~Orderly
    BY <2>2, OrderlySame DEF Served
  <2>. QED
    BY <2>1, <2>2
<1>5. Stored'
  BY StepStored
<1>. QED
  BY <1>1, <1>2, <1>3, <1>4, <1>5 DEF FtpdIInv

LEMMA FtpdTypeFacts ==
    ASSUME FtpdIInv
    PROVE  /\ sock \in [Numbers -> SocketRecord] /\ list \in SUBSET Session /\ mem \in Memory /\ srv \in Server
           /\ pasvPort \in Ports
BY DEF FtpdIInv, Typed

LEMMA ConFacts ==
    ASSUME FtpdIInv, NEW s \in Session
    PROVE  /\ con[s].cmd \in Numbers \cup {0} /\ con[s].data \in Numbers \cup {0} /\
                con[s].pasv \in Numbers \cup {0}
           /\ con[s].passive \in BOOLEAN /\ con[s].told \in Ports /\ con[s].got \in Nat /\ con[s].buffer \in Nat
           /\ con[s].fd \in BOOLEAN /\ con[s].at \in States
<1>1. PICK D : con \in [Session -> Connection(D)]
  BY DEF FtpdIInv, Typed
<1>. QED
  BY <1>1 DEF Connection

LEMMA SameSockets ==
    ASSUME FtpdIInv, NEW s \in Session, sock' = sock
    PROVE  Sockets(s)
BY DEF Sockets, FtpdIInv, Typed, Closed, Served

LEMMA SameMemory ==
    ASSUME FtpdIInv, NEW s \in Session, Alive(s), NEW r, Lives(r), mem' = mem, list' = list
    PROVE  Registers(s, r)
<1>1. Orderly => s \in mem.blocks
  BY DEF FtpdIInv, Served
<1>2. ASSUME Orderly, NEW t \in list
      PROVE  t = s /\ mem.memid = s /\ s \in mem.nodes
  <2>1. t \in Session /\ Alive(t) /\ mem.memid = t /\ t \in mem.nodes
    BY <1>2, FtpdTypeFacts DEF FtpdIInv, Served
  <2>. QED
    BY <1>2, <2>1, OnlyOne
<1>. QED
  BY <1>1, <1>2, FtpdTypeFacts DEF Registers

LEMMA SameServer ==
    ASSUME FtpdIInv, pasvPort' \in Ports, srv' = srv
    PROVE  Beside
BY FtpdTypeFacts DEF Beside

LEMMA OneCommand ==
    ASSUME FtpdIInv, pasvPort' = pasvPort, srv.commands < MaxCommands, srv' = [srv EXCEPT !.commands = @ + 1]
    PROVE  Beside
<1>1. srv.commands + 1 \in 0 .. MaxCommands
  BY FtpdTypeFacts, Bounds DEF Server
<1>. QED
  BY <1>1, FtpdTypeFacts DEF Beside, Server

(* What a session holds stays its own when it holds no more than before.      *)
LEMMA SameOwn ==
    ASSUME FtpdIInv, NEW s \in Session, Alive(s), Orderly, Sockets(s), NEW r,
           r.cmd = con[s].cmd, r.data \in {con[s].data, 0}, r.pasv \in {con[s].pasv, 0}
    PROVE  Own(s, r)
<1>1. /\ con[s].cmd \in Numbers => sock[con[s].cmd].who \in {-1, s}
      /\ con[s].data \in Numbers => sock[con[s].data].who \in {-1, s}
      /\ con[s].pasv \in Numbers => sock[con[s].pasv].who \in {-1, s}
  BY DEF FtpdIInv, Served, Holds
<1>2. 0 \notin Numbers
  BY Bounds DEF Numbers
<1>3. \A n \in Numbers : sock'[n].who \in {sock[n].who, -1, s}
  BY DEF Sockets
<1>4. ASSUME NEW n \in Numbers, n \in {r.cmd, r.data, r.pasv} PROVE sock'[n].who \in {-1, s}
  BY <1>1, <1>2, <1>3, <1>4
<1>. QED
  BY <1>4 DEF Own

LEMMA FreeOK ==
    /\ Free \in SocketRecord
    /\ Free.who = -1 /\ Free.port = 0
BY DEF Free, SocketRecord, Ports

LEMMA CloseOne ==
    ASSUME NEW k \in [Numbers -> SocketRecord], NEW n
    PROVE  /\ Close(k, n) \in [Numbers -> SocketRecord]
           /\ \A m \in Numbers : Close(k, n)[m] = IF m = n THEN Free ELSE k[m]
BY FreeOK DEF Close

LEMMA CloseFacts ==
    ASSUME FtpdIInv, NEW s \in Session
    PROVE  LET k == closeDataConnection(s)
           IN  /\ k \in [Numbers -> SocketRecord]
               /\ \A m \in Numbers : k[m] = sock[m] \/ (k[m] = Free /\ m \in {con[s].data, con[s].pasv})
<1>1. CASE con[s].passive
  <2>. DEFINE j == Close(sock, con[s].data)
  <2>1. j \in [Numbers -> SocketRecord] /\ (\A m \in Numbers : j[m] = IF m = con[s].data THEN Free ELSE sock[m])
    BY FtpdTypeFacts, CloseOne
  <2>. HIDE DEF j
  <2>2. /\ Close(j, con[s].pasv) \in [Numbers -> SocketRecord]
        /\ \A m \in Numbers : Close(j, con[s].pasv)[m] = IF m = con[s].pasv THEN Free ELSE j[m]
    BY <2>1, CloseOne
  <2>. QED
    BY <1>1, <2>1, <2>2 DEF j, closeDataConnection
<1>2. CASE ~con[s].passive
  BY <1>2, FtpdTypeFacts, CloseOne DEF closeDataConnection
<1>. QED
  BY <1>1, <1>2

(* A session that closes what it holds does not close what the server         *)
(* listens on.                                                                *)
LEMMA ClosedSockets ==
    ASSUME FtpdIInv, NEW s \in Session, Alive(s), sock' \in [Numbers -> SocketRecord],
           \A m \in Numbers : sock'[m] = sock[m] \/ (sock'[m] = Free /\ m \in {con[s].cmd, con[s].data,
             con[s].pasv})
    PROVE  Sockets(s)
<1>1. \A n \in Numbers : sock'[n].who \in {sock[n].who, -1, s}
  BY FreeOK
<1>2. \A n \in Numbers : sock'[n].who = -1 => sock'[n].port = 0
  BY FreeOK DEF FtpdIInv, Closed
<1>3. srv.listen \in Numbers
  BY FtpdTypeFacts DEF Server
<1>4. ASSUME Orderly PROVE sock'[srv.listen].who = 0 /\ sock'[srv.listen].port = 21
  <2>1. sock[srv.listen].who = 0 /\ sock[srv.listen].port = 21
    BY <1>4 DEF FtpdIInv, Served
  <2>2. \A n \in {con[s].cmd, con[s].data, con[s].pasv} : n \in Numbers => sock[n].who \in {-1, s}
    BY <1>4 DEF FtpdIInv, Served, Holds
  <2>3. s # 0
    BY DEF Session
  <2>4. srv.listen \notin {con[s].cmd, con[s].data, con[s].pasv}
    BY <1>3, <2>1, <2>2, <2>3
  <2>. QED
    BY <1>3, <2>1, <2>4
<1>. QED
  BY <1>1, <1>2, <1>4 DEF Sockets

LEMMA TakenSockets ==
    ASSUME FtpdIInv, NEW s \in Session, FreeNumbers # {}, NEW v \in SocketRecord, v.who = s,
           sock' = [sock EXCEPT ![NewNumber] = v]
    PROVE  Sockets(s) /\ sock'[NewNumber].who = s
<1>1. NewNumber \in Numbers /\ sock[NewNumber].who = -1
  BY NumberFree
<1>2. sock' \in [Numbers -> SocketRecord] /\ sock'[NewNumber] = v
  BY <1>1, FtpdTypeFacts
<1>3. \A n \in Numbers : n # NewNumber => sock'[n] = sock[n]
  BY FtpdTypeFacts
<1>4. s # -1
  BY DEF Session
<1>5. \A n \in Numbers : sock'[n].who = -1 => sock'[n].port = 0
  BY <1>2, <1>3, <1>4 DEF FtpdIInv, Closed
<1>6. \A n \in Numbers : sock'[n].who \in {sock[n].who, -1, s}
  BY <1>2, <1>3
<1>7. Orderly => sock'[srv.listen].who = 0 /\ sock'[srv.listen].port = 21
  <2>1. srv.listen \in Numbers
    BY FtpdTypeFacts DEF Server
  <2>. QED
    BY <1>1, <1>3, <2>1 DEF FtpdIInv, Served
<1>. QED
  BY <1>2, <1>5, <1>6, <1>7 DEF Sockets

LEMMA OwnedOK ==
    ASSUME NEW s \in Session, NEW p \in Ports
    PROVE  /\ Owned(s) \in SocketRecord /\ Owned(s).who = s
           /\ ListensOn(s, p) \in SocketRecord /\ ListensOn(s, p).who = s
<1>1. 0 \in Ports
  BY DEF Ports
<1>. QED
  BY <1>1 DEF Owned, ListensOn, SocketRecord

LEMMA NewConOK ==
    ASSUME NEW D, <<>> \in D
    PROVE  NewCon \in Connection(D)
<1>1. "none" \in States /\ 0 \in Ports
  BY DEF States, Ports
<1>. QED
  BY <1>1 DEF NewCon, Connection, NoPath

LEMMA StartSessionStep ==
    ASSUME FtpdIInv, NEW s \in Session, StartSession(s)
    PROVE  FtpdIInv'
<1>. DEFINE r == [NewCon EXCEPT !.at = "recv", !.cmd = con[s].cmd]
<1>1. con[s].at = "started" /\ Alive(s)
  BY DEF StartSession, Alive
<1>2. PICK D : <<>> \in D /\ con \in [Session -> Connection(D)]
  BY Paths DEF FtpdIInv
<1>3. r \in Connection(D)
  <2>1. NewCon \in Connection(D) /\ "recv" \in States
    BY <1>2, NewConOK DEF States
  <2>. QED
    BY <2>1, ConFacts DEF Connection
<1>4. /\ r.at = "recv" /\ r.cmd = con[s].cmd /\ r.data = 0 /\ r.pasv = 0
      /\ r.got = 0 /\ r.buffer = 0 /\ r.fd = FALSE
  BY DEF NewCon
<1>. HIDE DEF r
<1>5. Becomes(s, r)
  BY <1>4 DEF StartSession, Becomes, r
<1>6. Sockets(s)
  BY SameSockets DEF StartSession
<1>7. Orderly => Own(s, r)
  BY <1>1, <1>4, <1>6, SameOwn
<1>8. Registers(s, r)
  <2>1. /\ mem' = [mem EXCEPT !.memid = s, !.nodes = mem.nodes \cup {s}]
        /\ list' = list \cup {s}
    BY DEF StartSession, mftpAddThread
  <2>2. /\ mem' \in Memory /\ mem'.memid2 = mem.memid2 /\ mem'.blocks = mem.blocks
        /\ mem'.memid = s /\ s \in mem'.nodes
    BY <2>1, FtpdTypeFacts DEF Memory
  <2>3. Lives(r)
    BY <1>4 DEF Lives
  <2>4. Orderly => s \in mem.blocks
    BY <1>1 DEF FtpdIInv, Served
  <2>5. Orderly => \A t \in list : t = s
    <3>1. Orderly => \A t \in list : t \in Session /\ Alive(t)
      BY FtpdTypeFacts DEF FtpdIInv, Served
    <3>. QED
      BY <1>1, <3>1, OnlyOne
  <2>. QED
    BY <2>1, <2>2, <2>3, <2>4, <2>5 DEF Registers
<1>9. Beside
  BY SameServer, FtpdTypeFacts DEF StartSession
<1>10. Accounts(r)
  BY <1>4, Bounds DEF Accounts
<1>. QED
  BY <1>1, <1>2, <1>3, <1>5, <1>6, <1>7, <1>8, <1>9, <1>10, StepOf

LEMMA EndSessionStep ==
    ASSUME FtpdIInv, NEW s \in Session, EndSession(s)
    PROVE  FtpdIInv'
<1>. DEFINE r == [NewCon EXCEPT !.at = "dead"]
<1>1. con[s].at = "ending" /\ Alive(s)
  BY DEF EndSession, Alive
<1>2. PICK D : <<>> \in D /\ con \in [Session -> Connection(D)]
  BY Paths DEF FtpdIInv
<1>3. r \in Connection(D)
  <2>1. NewCon \in Connection(D) /\ "dead" \in States
    BY <1>2, NewConOK DEF States
  <2>. QED
    BY <2>1 DEF Connection
<1>4. /\ r.at = "dead" /\ r.cmd = 0 /\ r.data = 0 /\ r.pasv = 0
      /\ r.got = 0 /\ r.buffer = 0 /\ r.fd = FALSE
  BY DEF NewCon
<1>. HIDE DEF r
<1>5. Becomes(s, r)
  BY <1>4 DEF EndSession, Becomes, r
<1>6. Sockets(s)
  <2>1. sock' = Close(sock, con[s].cmd)
    BY DEF EndSession
  <2>. QED
    BY <1>1, <2>1, FtpdTypeFacts, CloseOne, ClosedSockets
<1>7. Own(s, r)
  BY <1>4, Bounds DEF Own, Numbers
<1>8. Registers(s, r)
  <2>. DEFINE m == [mem EXCEPT !.blocks = @ \ {mem.memid2}]
  <2>1. m \in Memory /\ m.memid2 = mem.memid2
    BY FtpdTypeFacts DEF Memory
  <2>. HIDE DEF m
  <2>2. Unlinked(m, s) \in Memory /\ Unlinked(m, s).memid2 = m.memid2
    BY <2>1 DEF Unlinked, Memory
  <2>3. mem' = Unlinked(m, s) /\ list' = list \ {s}
    BY DEF EndSession, m
  <2>4. Orderly => \A t \in list : t = s
    <3>1. Orderly => \A t \in list : t \in Session /\ Alive(t)
      BY FtpdTypeFacts DEF FtpdIInv, Served
    <3>. QED
      BY <1>1, <3>1, OnlyOne
  <2>. QED
    BY <1>4, <2>1, <2>2, <2>3, <2>4 DEF Registers, Lives
<1>9. Beside
  BY SameServer, FtpdTypeFacts DEF EndSession
<1>10. Accounts(r)
  BY <1>4, Bounds DEF Accounts
<1>. QED
  BY <1>1, <1>2, <1>3, <1>5, <1>6, <1>7, <1>8, <1>9, <1>10, StepOf

LEMMA PASVStep ==
    ASSUME FtpdIInv, NEW s \in Session, openDataConnectionPASV(s)
    PROVE  FtpdIInv'
<1>. DEFINE r == [con[s] EXCEPT !.at = "recv", !.passive = TRUE, !.pasv = NewNumber]
<1>1. con[s].at = "pasv" /\ Alive(s) /\ FreeNumbers # {}
  BY DEF openDataConnectionPASV, Alive
<1>2. PICK D : con \in [Session -> Connection(D)]
  BY DEF FtpdIInv, Typed
<1>3. NewNumber \in Numbers
  BY <1>1, NumberFree
<1>4. r \in Connection(D)
  BY <1>2, <1>3 DEF Connection, States
<1>5. /\ r.at = "recv" /\ r.cmd = con[s].cmd /\ r.data = con[s].data /\ r.pasv = NewNumber
      /\ r.got = con[s].got /\ r.buffer = con[s].buffer /\ r.fd = con[s].fd
  BY <1>2 DEF Connection
<1>. HIDE DEF r
<1>6. Becomes(s, r)
  BY <1>5 DEF openDataConnectionPASV, Becomes, r
<1>. DEFINE v == IF InUse(PortToBind) THEN Owned(s) ELSE ListensOn(s, PortToBind)
<1>7. v \in SocketRecord /\ v.who = s
  BY FtpdTypeFacts, OwnedOK DEF PortToBind
<1>8. sock' = [sock EXCEPT ![NewNumber] = v]
  BY DEF openDataConnectionPASV
<1>. HIDE DEF v
<1>9. Sockets(s) /\ sock'[NewNumber].who = s
  BY <1>1, <1>7, <1>8, TakenSockets
<1>10. Orderly => Own(s, r)
  <2>. DEFINE q == [r EXCEPT !.pasv = con[s].pasv]
  <2>1. q.cmd = con[s].cmd /\ q.data = con[s].data /\ q.pasv = con[s].pasv
    BY <1>4, <1>5 DEF Connection
  <2>. HIDE DEF q
  <2>2. Orderly => Own(s, q)
    BY <1>1, <1>9, <2>1, SameOwn
  <2>. QED
    BY <1>5, <1>9, <2>1, <2>2 DEF Own
<1>11. Registers(s, r)
  BY <1>1, <1>5, SameMemory DEF openDataConnectionPASV, Lives
<1>12. Beside
  <2>1. pasvPort' \in {pasvPort, (pasvPort + 1) % 65536}
    BY DEF openDataConnectionPASV, NextPort
  <2>2. pasvPort' \in Ports
    BY <2>1, FtpdTypeFacts DEF Ports
  <2>. QED
    BY <2>2, SameServer DEF openDataConnectionPASV
<1>13. Accounts(r)
  BY <1>1, <1>5 DEF Accounts, FtpdIInv, Stored
<1>. QED
  BY <1>1, <1>2, <1>4, <1>6, <1>9, <1>10, <1>11, <1>12, <1>13, StepOf

LEMMA DispatchedFacts ==
    ASSUME NEW D, NEW c \in Connection(D), NEW f \in D
    PROVE  LET r == Dispatched(c, f)
           IN  /\ r \in Connection(D)
               /\ r.at = c.at /\ r.cmd = c.cmd /\ r.data = c.data /\ r.pasv = c.pasv
               /\ r.got = c.got /\ r.buffer = c.buffer /\ r.fd = c.fd
BY DEF Dispatched, Connection

(* A command between two transfers changes nothing the session accounts for.  *)
LEMMA Answered ==
    ASSUME FtpdIInv, NEW s \in Session, con[s].at = "recv",
           NEW D, con \in [Session -> Connection(D)], NEW c \in Connection(D), NEW f \in D,
           c.at \in {"recv", "pasv", "open"},
           c.cmd = con[s].cmd /\ c.data = con[s].data /\ c.pasv = con[s].pasv,
           c.got = con[s].got /\ c.buffer = con[s].buffer /\ c.fd = con[s].fd,
           con' = [con EXCEPT ![s] = Dispatched(c, f)],
           UNCHANGED <<sock, list, mem>>, Beside
    PROVE  FtpdIInv'
<1>. DEFINE r == Dispatched(c, f)
<1>1. /\ r \in Connection(D)
      /\ r.at = c.at /\ r.cmd = c.cmd /\ r.data = c.data /\ r.pasv = c.pasv
      /\ r.got = c.got /\ r.buffer = c.buffer /\ r.fd = c.fd
  BY DispatchedFacts
<1>2. con' = [con EXCEPT ![s] = r]
  OBVIOUS
<1>. HIDE DEF r
<1>3. Alive(s)
  BY DEF Alive
<1>4. Becomes(s, r) /\ Lives(r)
  BY <1>1, <1>2 DEF Becomes, Lives
<1>5. Sockets(s)
  BY SameSockets
<1>6. Orderly => Own(s, r)
  BY <1>1, <1>3, <1>5, SameOwn
<1>7. Registers(s, r)
  BY <1>3, <1>4, SameMemory
<1>8. Accounts(r)
  BY <1>1 DEF Accounts, FtpdIInv, Stored
<1>. QED
  BY <1>1, <1>3, <1>4, <1>5, <1>6, <1>7, <1>8, StepOf

LEMMA QUITStep ==
    ASSUME FtpdIInv, NEW s \in Session, con[s].at = "recv", mftpCommandQUIT(s), UNCHANGED <<list, mem>>, Beside
    PROVE  FtpdIInv'
<1>1. PICK D : NoPath \in D /\ con \in [Session -> Connection(D)]
  BY Paths DEF FtpdIInv
<1>. DEFINE c == [con[s] EXCEPT !.at = "ending"]
            r == Dispatched(c, NoPath)
<1>2. /\ c \in Connection(D)
      /\ c.at = "ending" /\ c.cmd = con[s].cmd /\ c.data = con[s].data /\ c.pasv = con[s].pasv
      /\ c.got = con[s].got /\ c.buffer = con[s].buffer /\ c.fd = con[s].fd
  BY <1>1 DEF Connection, States
<1>3. con' = [con EXCEPT ![s] = r] /\ sock' = closeDataConnection(s)
  BY DEF mftpCommandQUIT
<1>. HIDE DEF c
<1>4. /\ r \in Connection(D)
      /\ r.at = "ending" /\ r.cmd = con[s].cmd /\ r.data = con[s].data /\ r.pasv = con[s].pasv
      /\ r.got = con[s].got /\ r.buffer = con[s].buffer /\ r.fd = con[s].fd
  BY <1>1, <1>2, DispatchedFacts
<1>. HIDE DEF r
<1>5. Alive(s)
  BY DEF Alive
<1>6. Becomes(s, r) /\ Lives(r)
  BY <1>3, <1>4 DEF Becomes, Lives
<1>7. Sockets(s)
  BY <1>3, <1>5, CloseFacts, ClosedSockets
<1>8. Orderly => Own(s, r)
  BY <1>4, <1>5, <1>7, SameOwn
<1>9. Registers(s, r)
  BY <1>5, <1>6, SameMemory
<1>10. Accounts(r)
  BY <1>4 DEF Accounts, FtpdIInv, Stored
<1>. QED
  BY <1>1, <1>4, <1>5, <1>6, <1>7, <1>8, <1>9, <1>10, StepOf

LEMMA SameConnection ==
    ASSUME FtpdIInv, NEW s \in Session, con[s].at = "recv", NEW f,
           con' = [con EXCEPT ![s] = Dispatched(@, f)], UNCHANGED <<sock, list, mem>>, Beside
    PROVE  FtpdIInv'
<1>1. PICK D : f \in D /\ con \in [Session -> Connection(D)]
  BY Paths DEF FtpdIInv
<1>2. con[s] \in Connection(D) /\ con' = [con EXCEPT ![s] = Dispatched(con[s], f)]
  BY <1>1
<1>. QED
  BY <1>1, <1>2, Answered

LEMMA CWDStep ==
    ASSUME FtpdIInv, NEW s \in Session, con[s].at = "recv", mftpCommandCWD(s), UNCHANGED <<list, mem>>, Beside
    PROVE  FtpdIInv'
<1>1. PICK w \in Walks :
         con' = [con EXCEPT ![s] = Dispatched([con[s] EXCEPT !.dir = Walked(con[s].dir, w)], NoPath)]
  BY DEF mftpCommandCWD
<1>2. PICK D : NoPath \in D /\ Walked(con[s].dir, w) \in D /\ con \in [Session -> Connection(D)]
  BY Paths DEF FtpdIInv
<1>. DEFINE d == Walked(con[s].dir, w)
            c == [con[s] EXCEPT !.dir = d]
<1>3. d \in D
  BY <1>2
<1>4. con' = [con EXCEPT ![s] = Dispatched(c, NoPath)]
  BY <1>1
<1>. HIDE DEF d
<1>5. /\ c \in Connection(D)
      /\ c.at = "recv" /\ c.cmd = con[s].cmd /\ c.data = con[s].data /\ c.pasv = con[s].pasv
      /\ c.got = con[s].got /\ c.buffer = con[s].buffer /\ c.fd = con[s].fd
  BY <1>2, <1>3 DEF Connection
<1>. HIDE DEF c
<1>. QED
  BY <1>2, <1>4, <1>5, Answered DEF mftpCommandCWD

LEMMA PORTStep ==
    ASSUME FtpdIInv, NEW s \in Session, con[s].at = "recv", mftpCommandPORT(s), UNCHANGED <<list, mem>>, Beside
    PROVE  FtpdIInv'
<1>. DEFINE c == [con[s] EXCEPT !.passive = FALSE, !.told = 0]
<1>1. con' = [con EXCEPT ![s] = Dispatched(c, NoPath)] /\ sock' = sock
  BY DEF mftpCommandPORT
<1>2. PICK D : NoPath \in D /\ con \in [Session -> Connection(D)]
  BY Paths DEF FtpdIInv
<1>3. 0 \in Ports
  BY DEF Ports
<1>4. /\ c \in Connection(D)
      /\ c.at = "recv" /\ c.cmd = con[s].cmd /\ c.data = con[s].data /\ c.pasv = con[s].pasv
      /\ c.got = con[s].got /\ c.buffer = con[s].buffer /\ c.fd = con[s].fd
  BY <1>2, <1>3 DEF Connection
<1>. HIDE DEF c
<1>. QED
  BY <1>1, <1>2, <1>4, Answered

LEMMA AnnounceStep ==
    ASSUME FtpdIInv, NEW s \in Session, con[s].at = "recv", mftpCommandPASV(s), UNCHANGED <<list, mem>>, Beside
    PROVE  FtpdIInv'
<1>. DEFINE c == [con[s] EXCEPT !.at = "pasv", !.told = pasvPort]
<1>1. con' = [con EXCEPT ![s] = Dispatched(c, NoPath)] /\ sock' = sock
  BY DEF mftpCommandPASV
<1>2. PICK D : NoPath \in D /\ con \in [Session -> Connection(D)]
  BY Paths DEF FtpdIInv
<1>3. /\ c \in Connection(D)
      /\ c.at = "pasv" /\ c.cmd = con[s].cmd /\ c.data = con[s].data /\ c.pasv = con[s].pasv
      /\ c.got = con[s].got /\ c.buffer = con[s].buffer /\ c.fd = con[s].fd
  BY <1>2, FtpdTypeFacts DEF Connection, States
<1>. HIDE DEF c
<1>. QED
  BY <1>1, <1>2, <1>3, Answered

LEMMA TransferStep ==
    ASSUME FtpdIInv, NEW s \in Session, con[s].at = "recv", NEW op \in Commands, Transfer(s, op),
           UNCHANGED <<list, mem>>, Beside
    PROVE  FtpdIInv'
<1>1. PICK name :
         con' = [con EXCEPT ![s] = Dispatched([con[s] EXCEPT !.at = "open", !.op = op,
           !.arg = FilePath(s, name)],
                                              NoPath)]
  BY DEF Transfer
<1>. DEFINE p == FilePath(s, name)
            c == [con[s] EXCEPT !.at = "open", !.op = op, !.arg = p]
<1>2. con' = [con EXCEPT ![s] = Dispatched(c, NoPath)] /\ sock' = sock
  BY <1>1 DEF Transfer
<1>3. PICK D : NoPath \in D /\ p \in D /\ con \in [Session -> Connection(D)]
  BY Paths DEF FtpdIInv
<1>. HIDE DEF p
<1>4. /\ c \in Connection(D)
      /\ c.at = "open" /\ c.cmd = con[s].cmd /\ c.data = con[s].data /\ c.pasv = con[s].pasv
      /\ c.got = con[s].got /\ c.buffer = con[s].buffer /\ c.fd = con[s].fd
  BY <1>3 DEF Connection, States
<1>. HIDE DEF c
<1>. QED
  BY <1>2, <1>3, <1>4, Answered

LEMMA CommandStep ==
    ASSUME FtpdIInv, NEW s \in Session, con[s].at = "recv", NEW c \in Commands, Command(s, c),
           UNCHANGED <<list, mem>>, pasvPort' = pasvPort => Beside
    PROVE  FtpdIInv'
<1>1. CASE c = "CWD"
  BY <1>1, CWDStep DEF Command, mftpCommandCWD
<1>2. CASE c \in {"DELE", "RMD", "MKD", "RNTO", "NOOP"}
  <2>1. con' = [con EXCEPT ![s] = Dispatched(@, NoPath)] /\ UNCHANGED <<sock, pasvPort>>
    BY <1>2 DEF Command, mftpCommandDELE, mftpCommandRMD, mftpCommandMKD, mftpCommandRNTO, ReplyOnly
  <2>. QED
    BY <2>1, SameConnection
<1>3. CASE c = "RNFR"
  <2>1. PICK name : con' = [con EXCEPT ![s] = Dispatched(@, FilePath(s, name))] /\ UNCHANGED <<sock, pasvPort>>
    BY <1>3 DEF Command, mftpCommandRNFR
  <2>. DEFINE p == FilePath(s, name)
  <2>2. con' = [con EXCEPT ![s] = Dispatched(@, p)]
    BY <2>1
  <2>. HIDE DEF p
  <2>. QED
    BY <2>1, <2>2, SameConnection
<1>4. CASE c = "PORT"
  BY <1>4, PORTStep DEF Command, mftpCommandPORT
<1>5. CASE c = "PASV"
  BY <1>5, AnnounceStep DEF Command, mftpCommandPASV
<1>6. CASE c = "QUIT"
  BY <1>6, QUITStep DEF Command, mftpCommandQUIT
<1>7. CASE c \notin {"CWD", "DELE", "RMD", "MKD", "RNTO", "NOOP", "RNFR", "PORT", "PASV", "QUIT"}
  <2>1. Transfer(s, c)
    BY <1>7 DEF Command
  <2>2. pasvPort' = pasvPort
    BY <2>1 DEF Transfer
  <2>. QED
    BY <2>1, <2>2, TransferStep
<1>. QED
  BY <1>1, <1>2, <1>3, <1>4, <1>5, <1>6, <1>7

LEMMA mftpDispatchStep ==
    ASSUME FtpdIInv, NEW s \in Session, mftpDispatch(s)
    PROVE  FtpdIInv'
<1>1. PICK c \in Commands : Command(s, c)
  BY DEF mftpDispatch
<1>2. pasvPort' = pasvPort => Beside
  BY OneCommand DEF mftpDispatch
<1>. QED
  BY <1>1, <1>2, CommandStep DEF mftpDispatch


(* A session that goes on with the numbers it has.                            *)
LEMMA GoesOn ==
    ASSUME FtpdIInv, NEW s \in Session, Alive(s),
           NEW D, con \in [Session -> Connection(D)], NEW r \in Connection(D),
           con' = [con EXCEPT ![s] = r], r.at \notin {"none", "dead", "killed"},
           r.cmd = con[s].cmd, r.data = con[s].data, r.pasv = con[s].pasv,
           Sockets(s), Accounts(r), UNCHANGED <<list, mem, pasvPort, srv>>
    PROVE  FtpdIInv'
<1>1. Becomes(s, r) /\ Lives(r)
  BY DEF Becomes, Lives
<1>2. Orderly => Own(s, r)
  BY SameOwn
<1>3. Registers(s, r)
  BY <1>1, SameMemory
<1>4. Beside
  BY SameServer, FtpdTypeFacts
<1>. QED
  BY <1>1, <1>2, <1>3, <1>4, StepOf

(* One that goes on receiving commands, or ends, and is in no transfer.       *)
LEMMA NoTransfer ==
    ASSUME NEW r, r.at # "store", r.got = 0, r.buffer = 0, r.fd = FALSE
    PROVE  Accounts(r)
BY Bounds DEF Accounts

LEMMA FinishedFacts ==
    ASSUME NEW s \in Session, NEW D, con \in [Session -> Connection(D)], NoPath \in D
    PROVE  LET r == Finished(s)
           IN  /\ r \in Connection(D)
               /\ r.at = "recv" /\ r.cmd = con[s].cmd /\ r.data = con[s].data /\ r.pasv = con[s].pasv
               /\ r.got = 0 /\ r.buffer = 0 /\ r.fd = FALSE
<1>1. "recv" \in States /\ 0 \in Ports
  BY DEF States, Ports
<1>2. con[s] \in Connection(D)
  OBVIOUS
<1>. QED
  BY <1>1, <1>2 DEF Finished, Connection

LEMMA ClientGoneStep ==
    ASSUME FtpdIInv, NEW s \in Session, ClientGone(s)
    PROVE  FtpdIInv'
<1>. DEFINE r == [con[s] EXCEPT !.at = "ending"]
<1>1. con[s].at = "recv" /\ Alive(s)
  BY DEF ClientGone, Alive
<1>2. PICK D : con \in [Session -> Connection(D)]
  BY DEF FtpdIInv, Typed
<1>3. /\ r \in Connection(D)
      /\ r.at = "ending" /\ r.cmd = con[s].cmd /\ r.data = con[s].data /\ r.pasv = con[s].pasv
      /\ r.got = con[s].got /\ r.buffer = con[s].buffer /\ r.fd = con[s].fd
  BY <1>2 DEF Connection, States
<1>4. con' = [con EXCEPT ![s] = r]
  BY DEF ClientGone
<1>. HIDE DEF r
<1>5. Accounts(r)
  BY <1>1, <1>3, NoTransfer DEF FtpdIInv, Stored
<1>6. Sockets(s)
  BY SameSockets DEF ClientGone
<1>. QED
  BY <1>1, <1>2, <1>3, <1>4, <1>5, <1>6, GoesOn DEF ClientGone

LEMMA ClientConnectsStep ==
    ASSUME FtpdIInv, NEW s \in Session, ClientConnects(s)
    PROVE  FtpdIInv'
<1>1. con[s].at \in {"pasv", "recv", "open"} /\ Alive(s)
  BY DEF ClientConnects, Alive
<1>2. PICK D : con \in [Session -> Connection(D)]
  BY DEF FtpdIInv, Typed
<1>3. CASE InUse(con[s].told)
  <2>1. con' = con /\ sock' = [n \in Numbers |-> Heard(n, s)]
    BY <1>3 DEF ClientConnects
  <2>2. \A n \in Numbers : Heard(n, s) \in SocketRecord /\ Heard(n, s).who = sock[n].who /\ Heard(n,
          s).port = sock[n].port
    BY FtpdTypeFacts DEF Heard, SocketRecord
  <2>3. Sockets(s)
    <3>1. sock' \in [Numbers -> SocketRecord]
      BY <2>1, <2>2
    <3>2. \A n \in Numbers : sock'[n].who = sock[n].who /\ sock'[n].port = sock[n].port
      BY <2>1, <2>2
    <3>3. srv.listen \in Numbers
      BY FtpdTypeFacts DEF Server
    <3>. QED
      BY <3>1, <3>2, <3>3 DEF Sockets, FtpdIInv, Closed, Served
  <2>4. con[s] \in Connection(D) /\ con' = [con EXCEPT ![s] = con[s]]
    BY <1>2, <2>1
  <2>5. Accounts(con[s])
    BY <1>1, NoTransfer DEF FtpdIInv, Stored
  <2>. QED
    BY <1>1, <1>2, <2>3, <2>4, <2>5, GoesOn DEF ClientConnects
<1>4. CASE ~InUse(con[s].told)
  <2>. DEFINE r == [con[s] EXCEPT !.told = 0]
  <2>1. 0 \in Ports
    BY DEF Ports
  <2>2. /\ r \in Connection(D)
        /\ r.at = con[s].at /\ r.cmd = con[s].cmd /\ r.data = con[s].data /\ r.pasv = con[s].pasv
        /\ r.got = con[s].got /\ r.buffer = con[s].buffer /\ r.fd = con[s].fd
    BY <1>2, <2>1 DEF Connection
  <2>3. con' = [con EXCEPT ![s] = r] /\ sock' = sock
    BY <1>4 DEF ClientConnects
  <2>. HIDE DEF r
  <2>4. Accounts(r)
    BY <1>1, <2>2, NoTransfer DEF FtpdIInv, Stored
  <2>5. Sockets(s)
    BY <2>3, SameSockets
  <2>. QED
    BY <1>1, <1>2, <2>2, <2>3, <2>4, <2>5, GoesOn DEF ClientConnects
<1>. QED
  BY <1>3, <1>4

LEMMA SendDataStep ==
    ASSUME FtpdIInv, NEW s \in Session, SendData(s)
    PROVE  FtpdIInv'
<1>. DEFINE r == Finished(s)
<1>1. con[s].at = "data" /\ Alive(s)
  BY DEF SendData, Alive
<1>2. PICK D : NoPath \in D /\ con \in [Session -> Connection(D)]
  BY Paths DEF FtpdIInv
<1>3. /\ r \in Connection(D)
      /\ r.at = "recv" /\ r.cmd = con[s].cmd /\ r.data = con[s].data /\ r.pasv = con[s].pasv
      /\ r.got = 0 /\ r.buffer = 0 /\ r.fd = FALSE
  BY <1>2, FinishedFacts
<1>4. con' = [con EXCEPT ![s] = r] /\ sock' = closeDataConnection(s)
  BY DEF SendData
<1>. HIDE DEF r
<1>5. Accounts(r)
  BY <1>3, NoTransfer
<1>6. Sockets(s)
  BY <1>1, <1>4, CloseFacts, ClosedSockets
<1>. QED
  BY <1>1, <1>2, <1>3, <1>4, <1>5, <1>6, GoesOn DEF SendData

LEMMA StoreOpenStep ==
    ASSUME FtpdIInv, NEW s \in Session, StoreOpen(s)
    PROVE  FtpdIInv'
<1>1. con[s].at = "data" /\ Alive(s)
  BY DEF StoreOpen, Alive
<1>2. PICK D : NoPath \in D /\ con \in [Session -> Connection(D)]
  BY Paths DEF FtpdIInv
<1>3. Sockets(s)
  BY SameSockets DEF StoreOpen
<1>. DEFINE p == con[s].arg
<1>4. CASE Blocked(p)
  <2>. DEFINE r == Finished(s)
  <2>1. /\ r \in Connection(D)
        /\ r.at = "recv" /\ r.cmd = con[s].cmd /\ r.data = con[s].data /\ r.pasv = con[s].pasv
        /\ r.got = 0 /\ r.buffer = 0 /\ r.fd = FALSE
    BY <1>2, FinishedFacts
  <2>2. con' = [con EXCEPT ![s] = r]
    BY <1>4 DEF StoreOpen
  <2>. HIDE DEF r
  <2>3. Accounts(r)
    BY <2>1, NoTransfer
  <2>. QED
    BY <1>1, <1>2, <1>3, <2>1, <2>2, <2>3, GoesOn DEF StoreOpen
<1>5. CASE ~Blocked(p)
  <2>1. PICK opened \in BOOLEAN :
          /\ con' = [con EXCEPT ![s] = [con[s] EXCEPT !.at = "store", !.fd = opened]]
          /\ files' = IF opened THEN With(mftpCreateDirIfNeeded(p), p, 0) ELSE mftpCreateDirIfNeeded(p)
    BY <1>5 DEF StoreOpen
  <2>. DEFINE r == [con[s] EXCEPT !.at = "store", !.fd = opened]
  <2>2. /\ r \in Connection(D) /\ r.arg = p
        /\ r.at = "store" /\ r.cmd = con[s].cmd /\ r.data = con[s].data /\ r.pasv = con[s].pasv
        /\ r.got = con[s].got /\ r.buffer = con[s].buffer /\ r.fd = opened
    BY <1>2 DEF Connection, States
  <2>3. con' = [con EXCEPT ![s] = r]
    BY <2>1
  <2>. HIDE DEF r
  <2>4. con[s].got = 0 /\ con[s].buffer = 0
    BY <1>1 DEF FtpdIInv, Stored
  <2>5. opened = TRUE => p \in DOMAIN files' /\ files'[p] = 0
    BY <2>1 DEF With
  <2>6. Accounts(r)
    BY <2>2, <2>4, <2>5, Bounds DEF Accounts
  <2>. QED
    BY <1>1, <1>2, <1>3, <2>2, <2>3, <2>6, GoesOn DEF StoreOpen
<1>. QED
  BY <1>4, <1>5

(* What is written out is added to the file that is open.                     *)
LEMMA AppendedFacts ==
    ASSUME FtpdIInv, NEW s \in Session, Orderly, con[s].at = "store", con[s].fd = TRUE, NEW n
    PROVE  LET fs == Appended(s, n)
           IN  con[s].arg \in DOMAIN fs /\ fs[con[s].arg] = files[con[s].arg] + n
<1>1. con[s].arg \in DOMAIN files /\ files[con[s].arg] \in Nat
  BY DEF FtpdIInv, Stored
<1>2. IsFile(con[s].arg)
  BY <1>1 DEF IsFile, Content
<1>. QED
  BY <1>2 DEF Appended, With

LEMMA StoreChunkStep ==
    ASSUME FtpdIInv, NEW s \in Session, StoreChunk(s)
    PROVE  FtpdIInv'
<1>1. con[s].at = "store" /\ Alive(s)
  BY DEF StoreChunk, Alive
<1>2. PICK D : con \in [Session -> Connection(D)]
  BY DEF FtpdIInv, Typed
<1>3. Sockets(s)
  BY SameSockets DEF StoreChunk
<1>4. PICK c \in Chunks :
        /\ con' = [con EXCEPT ![s] = [con[s] EXCEPT !.got = con[s].got + c,
                                                    !.buffer = IF Flushes(s, c) THEN c ELSE con[s].buffer + c]]
        /\ files' = IF Flushes(s, c) THEN Appended(s, con[s].buffer) ELSE files
  BY DEF StoreChunk
<1>. DEFINE b == IF Flushes(s, c) THEN c ELSE con[s].buffer + c
            r == [con[s] EXCEPT !.got = con[s].got + c, !.buffer = b]
<1>5. c \in Nat /\ c <= WriteBuffer
  BY Bounds
<1>6. b \in Nat /\ b <= WriteBuffer
  BY <1>5, ConFacts, Bounds DEF Flushes
<1>7. con' = [con EXCEPT ![s] = r]
  BY <1>4
<1>8. Orderly /\ con[s].fd = TRUE =>
         /\ con[s].arg \in DOMAIN files' /\ files'[con[s].arg] \in Nat
         /\ files'[con[s].arg] + b = con[s].got + c
  <2>1. SUFFICES ASSUME Orderly, con[s].fd = TRUE
                 PROVE  /\ con[s].arg \in DOMAIN files' /\ files'[con[s].arg] \in Nat
                        /\ files'[con[s].arg] + b = con[s].got + c
    OBVIOUS
  <2>2. /\ con[s].arg \in DOMAIN files /\ files[con[s].arg] \in Nat
        /\ files[con[s].arg] + con[s].buffer = con[s].got
    BY <1>1, <2>1 DEF FtpdIInv, Stored
  <2>3. con[s].buffer \in Nat /\ con[s].got \in Nat
    BY ConFacts
  <2>4. CASE Flushes(s, c)
    <3>1. con[s].arg \in DOMAIN files' /\ files'[con[s].arg] = files[con[s].arg] + con[s].buffer
      BY <1>1, <1>4, <2>1, <2>4, AppendedFacts
    <3>2. b = c
      BY <2>4
    <3>. QED
      BY <1>5, <2>2, <2>3, <3>1, <3>2
  <2>5. CASE ~Flushes(s, c)
    <3>1. files' = files /\ b = con[s].buffer + c
      BY <1>4, <2>5
    <3>. QED
      BY <1>5, <2>2, <2>3, <3>1
  <2>. QED
    BY <2>4, <2>5
<1>. HIDE DEF b
<1>11. con[s].got + c \in Nat
  BY <1>5, ConFacts
<1>9. /\ r \in Connection(D) /\ r.arg = con[s].arg
      /\ r.at = "store" /\ r.cmd = con[s].cmd /\ r.data = con[s].data /\ r.pasv = con[s].pasv
      /\ r.got = con[s].got + c /\ r.buffer = b /\ r.fd = con[s].fd
  BY <1>1, <1>2, <1>6, <1>11 DEF Connection
<1>. HIDE DEF r
<1>10. Accounts(r)
  BY <1>6, <1>8, <1>9 DEF Accounts
<1>. QED
  BY <1>1, <1>2, <1>3, <1>7, <1>9, <1>10, GoesOn DEF StoreChunk

LEMMA StoreEndStep ==
    ASSUME FtpdIInv, NEW s \in Session, StoreEnd(s)
    PROVE  FtpdIInv'
<1>. DEFINE r == Finished(s)
<1>1. con[s].at = "store" /\ Alive(s)
  BY DEF StoreEnd, Alive
<1>2. PICK D : NoPath \in D /\ con \in [Session -> Connection(D)]
  BY Paths DEF FtpdIInv
<1>3. /\ r \in Connection(D)
      /\ r.at = "recv" /\ r.cmd = con[s].cmd /\ r.data = con[s].data /\ r.pasv = con[s].pasv
      /\ r.got = 0 /\ r.buffer = 0 /\ r.fd = FALSE
  BY <1>2, FinishedFacts
<1>4. con' = [con EXCEPT ![s] = r] /\ sock' = closeDataConnection(s)
  BY DEF StoreEnd
<1>. HIDE DEF r
<1>5. Accounts(r)
  BY <1>3, NoTransfer
<1>6. Sockets(s)
  BY <1>1, <1>4, CloseFacts, ClosedSockets
<1>. QED
  BY <1>1, <1>2, <1>3, <1>4, <1>5, <1>6, GoesOn DEF StoreEnd

(* A session that takes a number for its data connection.                     *)
LEMMA TakesNumber ==
    ASSUME FtpdIInv, NEW s \in Session, con[s].at = "open",
           NEW D, con \in [Session -> Connection(D)], NEW r \in Connection(D),
           con' = [con EXCEPT ![s] = r], r.at \in {"data", "recv"},
           r.cmd = con[s].cmd, r.data = NewNumber, r.pasv = con[s].pasv,
           r.got = 0, r.buffer = 0, r.fd = FALSE,
           Sockets(s), FreeNumbers # {}, sock'[NewNumber].who = s, UNCHANGED <<list, mem, pasvPort, srv>>
    PROVE  FtpdIInv'
<1>1. Alive(s)
  BY DEF Alive
<1>2. Becomes(s, r) /\ Lives(r)
  BY DEF Becomes, Lives
<1>3. Orderly => Own(s, r)
  <2>. DEFINE q == [r EXCEPT !.data = con[s].data]
  <2>1. q.cmd = con[s].cmd /\ q.data = con[s].data /\ q.pasv = con[s].pasv
    BY DEF Connection
  <2>. HIDE DEF q
  <2>2. Orderly => Own(s, q)
    BY <1>1, <2>1, SameOwn
  <2>. QED
    BY <2>1, <2>2 DEF Own
<1>4. Registers(s, r)
  BY <1>1, <1>2, SameMemory
<1>5. Beside
  BY SameServer, FtpdTypeFacts
<1>6. Accounts(r)
  BY NoTransfer
<1>. QED
  BY <1>1, <1>2, <1>3, <1>4, <1>5, <1>6, StepOf

LEMMA AtOpen ==
    ASSUME FtpdIInv, NEW s \in Session, con[s].at = "open"
    PROVE  con[s].got = 0 /\ con[s].buffer = 0 /\ con[s].fd = FALSE
BY DEF FtpdIInv, Stored

LEMMA PassiveStep ==
    ASSUME FtpdIInv, NEW s \in Session, con[s].at = "open", FreeNumbers # {},
           NEW p \in Numbers, p = con[s].pasv, sock[p].port # 0,
           sock' = [sock EXCEPT ![NewNumber] = Owned(s), ![p].waiting = 0],
           con' = [con EXCEPT ![s] = [@ EXCEPT !.at = "data", !.data = NewNumber, !.told = 0]],
           UNCHANGED <<list, mem, pasvPort, srv>>
    PROVE  FtpdIInv'
<1>. DEFINE r == [con[s] EXCEPT !.at = "data", !.data = NewNumber, !.told = 0]
<1>1. NewNumber \in Numbers /\ sock[NewNumber].who = -1 /\ NewNumber # p
  BY NumberFree DEF FtpdIInv, Closed
<1>2. PICK D : con \in [Session -> Connection(D)]
  BY DEF FtpdIInv, Typed
<1>3. con' = [con EXCEPT ![s] = r]
  OBVIOUS
<1>4. 0 \in Ports
  BY DEF Ports
<1>5. /\ r \in Connection(D)
      /\ r.at = "data" /\ r.cmd = con[s].cmd /\ r.data = NewNumber /\ r.pasv = con[s].pasv
      /\ r.got = 0 /\ r.buffer = 0 /\ r.fd = FALSE
  BY <1>1, <1>2, <1>4, AtOpen DEF Connection, States
<1>. HIDE DEF r
<1>. DEFINE k == [sock EXCEPT ![NewNumber] = Owned(s)]
            v == [sock[p] EXCEPT !.waiting = 0]
<1>13. k \in [Numbers -> SocketRecord] /\ k[p] = sock[p] /\ sock' = [k EXCEPT ![p] = v]
  BY <1>1, <1>4, FtpdTypeFacts, OwnedOK
<1>14. k[NewNumber] = Owned(s) /\ \A n \in Numbers : n # NewNumber => k[n] = sock[n]
  BY <1>1, FtpdTypeFacts
<1>15. v \in SocketRecord /\ v.who = sock[p].who /\ v.port = sock[p].port
  BY FtpdTypeFacts DEF SocketRecord
<1>. HIDE DEF k, v
<1>6. sock' \in [Numbers -> SocketRecord] /\ sock'[NewNumber] = Owned(s)
  BY <1>1, <1>13, <1>14, <1>15
<1>7. \A n \in Numbers : n # NewNumber => sock'[n].who = sock[n].who /\ sock'[n].port = sock[n].port
  BY <1>13, <1>14, <1>15
<1>8. sock'[NewNumber].who = s /\ s # -1
  BY <1>4, <1>6, OwnedOK DEF Session
<1>9. Sockets(s)
  <2>1. srv.listen \in Numbers
    BY FtpdTypeFacts DEF Server
  <2>2. \A n \in Numbers : sock'[n].who = -1 => sock'[n].port = 0
    BY <1>7, <1>8 DEF FtpdIInv, Closed
  <2>3. \A n \in Numbers : sock'[n].who \in {sock[n].who, -1, s}
    BY <1>7, <1>8
  <2>4. Orderly => sock'[srv.listen].who = 0 /\ sock'[srv.listen].port = 21
    <3>1. Orderly => sock[srv.listen].who = 0 /\ sock[srv.listen].port = 21
      BY DEF FtpdIInv, Served
    <3>2. Orderly => srv.listen # NewNumber
      BY <1>1, <3>1
    <3>3. srv.listen # NewNumber => sock'[srv.listen].who = sock[srv.listen].who /\
            sock'[srv.listen].port = sock[srv.listen].port
      BY <1>7, <2>1
    <3>. QED
      BY <3>1, <3>2, <3>3
  <2>. QED
    BY <1>6, <2>2, <2>3, <2>4 DEF Sockets
<1>. QED
  BY <1>2, <1>3, <1>5, <1>8, <1>9, TakesNumber

LEMMA openDataConnectionStep ==
    ASSUME FtpdIInv, NEW s \in Session, openDataConnection(s)
    PROVE  FtpdIInv'
<1>. DEFINE p == con[s].pasv
<1>1. con[s].at = "open" /\ Alive(s) /\ UNCHANGED <<list, mem, pasvPort, srv>>
  BY DEF openDataConnection, Alive
<1>2. PICK D : NoPath \in D /\ con \in [Session -> Connection(D)]
  BY Paths DEF FtpdIInv
<1>3. CASE /\ con[s].passive /\ p \in Numbers /\ sock[p].port # 0 /\ sock[p].waiting # 0 /\ FreeNumbers # {}
           /\ sock' = [sock EXCEPT ![NewNumber] = Owned(s), ![p].waiting = 0]
           /\ con' = [con EXCEPT ![s] = [@ EXCEPT !.at = "data", !.data = NewNumber, !.told = 0]]
  BY <1>1, <1>3, PassiveStep
<1>. DEFINE f == Finished(s)
<1>4. /\ f \in Connection(D)
      /\ f.at = "recv" /\ f.cmd = con[s].cmd /\ f.data = con[s].data /\ f.pasv = con[s].pasv
      /\ f.got = 0 /\ f.buffer = 0 /\ f.fd = FALSE
  BY <1>2, FinishedFacts
<1>5. CASE con' = [con EXCEPT ![s] = f] /\ sock' = sock
  <2>. HIDE DEF f
  <2>1. Accounts(f)
    BY <1>4, NoTransfer
  <2>2. Sockets(s)
    BY <1>5, SameSockets
  <2>. QED
    BY <1>1, <1>2, <1>4, <1>5, <2>1, <2>2, GoesOn
<1>6. ASSUME FreeNumbers # {}, sock' = [sock EXCEPT ![NewNumber] = Owned(s)],
             \/ con' = [con EXCEPT ![s] = [@ EXCEPT !.at = "data", !.data = NewNumber]]
             \/ con' = [con EXCEPT ![s] = [f EXCEPT !.data = NewNumber]]
      PROVE  FtpdIInv'
  <2>1. NewNumber \in Numbers
    BY <1>6, NumberFree
  <2>2. Owned(s) \in SocketRecord /\ Owned(s).who = s
    <3>1. 0 \in Ports
      BY DEF Ports
    <3>. QED
      BY <3>1, OwnedOK
  <2>3. Sockets(s) /\ sock'[NewNumber].who = s
    BY <1>6, <2>2, TakenSockets
  <2>4. CASE con' = [con EXCEPT ![s] = [@ EXCEPT !.at = "data", !.data = NewNumber]]
    <3>. DEFINE r == [con[s] EXCEPT !.at = "data", !.data = NewNumber]
    <3>1. /\ r \in Connection(D)
          /\ r.at = "data" /\ r.cmd = con[s].cmd /\ r.data = NewNumber /\ r.pasv = con[s].pasv
          /\ r.got = 0 /\ r.buffer = 0 /\ r.fd = FALSE
      BY <1>1, <1>2, <2>1, AtOpen DEF Connection, States
    <3>2. con' = [con EXCEPT ![s] = r]
      BY <2>4
    <3>. HIDE DEF r, f
    <3>. QED
      BY <1>1, <1>2, <1>6, <2>3, <3>1, <3>2, TakesNumber
  <2>5. CASE con' = [con EXCEPT ![s] = [f EXCEPT !.data = NewNumber]]
    <3>. DEFINE r == [f EXCEPT !.data = NewNumber]
    <3>. HIDE DEF f
    <3>1. /\ r \in Connection(D)
          /\ r.at = "recv" /\ r.cmd = con[s].cmd /\ r.data = NewNumber /\ r.pasv = con[s].pasv
          /\ r.got = 0 /\ r.buffer = 0 /\ r.fd = FALSE
      BY <1>4, <2>1 DEF Connection
    <3>2. con' = [con EXCEPT ![s] = r]
      BY <2>5
    <3>. HIDE DEF r
    <3>. QED
      BY <1>1, <1>2, <1>6, <2>3, <3>1, <3>2, TakesNumber
  <2>. QED
    BY <1>6, <2>4, <2>5
<1>. QED
  BY <1>3, <1>5, <1>6 DEF openDataConnection

LEMMA AcceptFacts ==
    ASSUME FtpdIInv, AcceptClient
    PROVE  LET s == srv.count + 1
           IN  /\ s \in Session /\ con[s].at = "none" /\ con[s].data = 0 /\ con[s].pasv = 0
               /\ NewNumber \in Numbers /\ sock[NewNumber].who = -1
               /\ sock' = [sock EXCEPT ![NewNumber] = Owned(s)]
               /\ con' = [con EXCEPT ![s] = [con[s] EXCEPT !.at = "started", !.cmd = NewNumber]]
               /\ mem' = [mem EXCEPT !.memid2 = s, !.blocks = mem.blocks \cup {s}]
               /\ srv' = [srv EXCEPT !.count = s, !.overlap = srv.overlap \/ \E t \in Session : Alive(t)]
               /\ list' = list /\ pasvPort' = pasvPort /\ files' = files
<1>. DEFINE s == srv.count + 1
<1>1. srv.count \in Nat /\ srv.count < MaxSession
  BY FtpdTypeFacts, Bounds DEF AcceptClient, Server
<1>2. s \in Session /\ s > srv.count
  BY <1>1, Bounds DEF Session
<1>3. con[s].at = "none" /\ con[s].data = 0 /\ con[s].pasv = 0
  BY <1>2 DEF FtpdIInv, Counted
<1>4. NewNumber \in Numbers /\ sock[NewNumber].who = -1
  BY NumberFree DEF AcceptClient
<1>. QED
  BY <1>2, <1>3, <1>4 DEF AcceptClient

LEMMA AcceptOrderly ==
    ASSUME FtpdIInv, AcceptClient, Orderly'
    PROVE  Orderly /\ (\A t \in Session : ~Alive(t)) /\ list = {}
<1>1. srv' = [srv EXCEPT !.count = srv.count + 1, !.overlap = srv.overlap \/ \E t \in Session : Alive(t)]
  BY AcceptFacts
<1>2. srv'.exit = srv.exit /\ srv'.overlap = (srv.overlap \/ \E t \in Session : Alive(t))
  BY <1>1, FtpdTypeFacts DEF Server
<1>3. Orderly /\ \A t \in Session : ~Alive(t)
  BY <1>2 DEF Orderly
<1>4. \A t \in list : t \in Session /\ Alive(t)
  BY <1>3, FtpdTypeFacts DEF FtpdIInv, Served
<1>. QED
  BY <1>3, <1>4

LEMMA AcceptClientStep ==
    ASSUME FtpdIInv, AcceptClient
    PROVE  FtpdIInv'
<1>. PICK s \in Session : s = srv.count + 1
  BY AcceptFacts
<1>. DEFINE r == [con[s] EXCEPT !.at = "started", !.cmd = NewNumber]
<1>1. /\ con[s].at = "none" /\ con[s].data = 0 /\ con[s].pasv = 0
      /\ NewNumber \in Numbers /\ sock[NewNumber].who = -1
  BY AcceptFacts
<1>2. PICK D : con \in [Session -> Connection(D)]
  BY DEF FtpdIInv, Typed
<1>3. /\ r \in Connection(D)
      /\ r.at = "started" /\ r.cmd = NewNumber /\ r.data = 0 /\ r.pasv = 0
      /\ r.got = con[s].got /\ r.buffer = con[s].buffer /\ r.fd = con[s].fd
  BY <1>1, <1>2 DEF Connection, States
<1>4. con' = [con EXCEPT ![s] = r]
  BY AcceptFacts
<1>. HIDE DEF r
<1>5. /\ con' \in [Session -> Connection(D)]
      /\ con'[s] = r /\ (\A t \in Session : t # s => con'[t] = con[t])
  BY <1>1, <1>2, <1>3, <1>4
<1>6. Owned(s) \in SocketRecord /\ Owned(s).who = s /\ s # -1
  <2>1. 0 \in Ports
    BY DEF Ports
  <2>. QED
    BY <1>1, <2>1, OwnedOK DEF Session
<1>7. /\ sock' \in [Numbers -> SocketRecord] /\ sock'[NewNumber] = Owned(s)
      /\ \A n \in Numbers : n # NewNumber => sock'[n] = sock[n]
  BY <1>1, <1>6, AcceptFacts, FtpdTypeFacts
<1>8. mem' \in Memory /\ mem'.memid2 = s /\ s \in mem'.blocks
  <2>1. mem' = [mem EXCEPT !.memid2 = s, !.blocks = mem.blocks \cup {s}]
    BY AcceptFacts
  <2>. QED
    BY <2>1, FtpdTypeFacts DEF Memory
<1>9. srv' \in Server /\ srv'.count = s /\ srv'.listen = srv.listen
  <2>1. srv' = [srv EXCEPT !.count = s, !.overlap = srv.overlap \/ \E t \in Session : Alive(t)]
    BY AcceptFacts
  <2>2. s \in 0 .. MaxSession
    BY DEF Session
  <2>. QED
    BY <2>1, <2>2, FtpdTypeFacts DEF Server
<1>10. list' = list /\ pasvPort' = pasvPort /\ files' = files
  BY AcceptFacts
<1>11. Typed'
  BY <1>5, <1>7, <1>8, <1>9, <1>10, FtpdTypeFacts DEF Typed
<1>12. Counted'
  <2>1. srv.count \in Nat
    BY FtpdTypeFacts, Bounds DEF Server
  <2>2. ASSUME NEW t \in Session
        PROVE  (con'[t].at = "none" <=> t > s) /\ (con'[t].at = "none" => con'[t].data = 0 /\ con'[t].pasv = 0)
    <3>1. CASE t = s
      BY <1>3, <1>5, <2>1, <3>1
    <3>2. CASE t # s
      <4>1. con'[t] = con[t] /\ (con[t].at = "none" <=> t > srv.count)
            /\ (con[t].at = "none" => con[t].data = 0 /\ con[t].pasv = 0)
        BY <1>5, <3>2 DEF FtpdIInv, Counted
      <4>2. t > s <=> t > srv.count
        BY <2>1, <3>2 DEF Session
      <4>. QED
        BY <4>1, <4>2
    <3>. QED
      BY <3>1, <3>2
  <2>3. \A t \in list : t <= s
    <3>1. \A t \in list : t \in Int /\ t <= srv.count
      BY FtpdTypeFacts DEF FtpdIInv, Counted, Session
    <3>. QED
      BY <2>1, <3>1
  <2>. QED
    BY <1>8, <1>9, <1>10, <2>2, <2>3 DEF Counted
<1>13. Closed'
  BY <1>6, <1>7 DEF FtpdIInv, Closed
<1>14. ASSUME Orderly' PROVE Served'
  <2>1. Orderly /\ (\A t \in Session : ~Alive(t)) /\ list = {}
    BY <1>14, AcceptOrderly
  <2>2. sock[srv.listen].who = 0 /\ sock[srv.listen].port = 21 /\ srv.listen \in Numbers
    BY <2>1, FtpdTypeFacts DEF FtpdIInv, Served, Server
  <2>3. sock'[srv'.listen].who = 0 /\ sock'[srv'.listen].port = 21
    BY <1>1, <1>7, <1>9, <2>2
  <2>4. ASSUME NEW t \in Session, Alive(t)' PROVE t = s
    <3>1. t # s => con'[t] = con[t]
      BY <1>5
    <3>. QED
      BY <2>1, <2>4, <3>1 DEF Alive
  <2>5. Holds(s, con[s].cmd)' /\ Holds(s, con[s].data)' /\ Holds(s, con[s].pasv)'
    <3>1. 0 \notin Numbers
      BY Bounds DEF Numbers
    <3>. QED
      BY <1>3, <1>5, <1>6, <1>7, <3>1 DEF Holds
  <2>. QED
    BY <1>8, <1>9, <1>10, <2>1, <2>3, <2>4, <2>5 DEF Served
<1>15. Served'
  BY <1>14 DEF Served
<1>16. Stored'
  <2>1. SUFFICES ASSUME NEW t \in Session
                 PROVE  (/\ con[t].buffer <= WriteBuffer
                         /\ con[t].at # "store" => con[t].got = 0 /\ con[t].buffer = 0 /\ con[t].fd = FALSE
                         /\ Orderly /\ con[t].at = "store" /\ con[t].fd = TRUE =>
                               /\ con[t].arg \in DOMAIN files /\ files[con[t].arg] \in Nat
                               /\ files[con[t].arg] + con[t].buffer = con[t].got)'
    BY DEF Stored
  <2>2. /\ con[t].buffer <= WriteBuffer
        /\ con[t].at # "store" => con[t].got = 0 /\ con[t].buffer = 0 /\ con[t].fd = FALSE
    BY DEF FtpdIInv, Stored
  <2>3. Orderly' => con[t].at # "store"
    BY AcceptOrderly DEF Alive
  <2>4. CASE t = s
    BY <1>1, <1>3, <1>5, <2>2, <2>4
  <2>5. CASE t # s
    <3>1. con'[t] = con[t]
      BY <1>5, <2>5
    <3>. QED
      BY <2>2, <2>3, <3>1
  <2>. QED
    BY <2>4, <2>5
<1>. QED
  BY <1>11, <1>12, <1>13, <1>15, <1>16 DEF FtpdIInv

LEMMA AcceptFailsStep ==
    ASSUME FtpdIInv, AcceptFails
    PROVE  FtpdIInv'
<1>1. /\ sock[srv.listen].port # 21 /\ sock' = Close(sock, srv.listen) /\ srv' = [srv EXCEPT !.loop = "done"]
      /\ UNCHANGED <<con, list, mem, pasvPort, files>>
  BY DEF AcceptFails
<1>2. /\ sock' \in [Numbers -> SocketRecord]
      /\ \A m \in Numbers : sock'[m] = IF m = srv.listen THEN Free ELSE sock[m]
  BY <1>1, FtpdTypeFacts, CloseOne
<1>3. /\ srv' \in Server /\ srv'.count = srv.count /\ srv'.exit = srv.exit /\ srv'.overlap = srv.overlap
  BY <1>1, FtpdTypeFacts DEF Server
<1>4. Orderly' <=> Orderly
  BY <1>3 DEF Orderly
<1>5. ~Orderly
  BY <1>1 DEF FtpdIInv, Served
<1>6. Typed'
  BY <1>1, <1>2, <1>3 DEF FtpdIInv, Typed
<1>7. Counted'
  BY <1>1, <1>3 DEF FtpdIInv, Counted
<1>8. Closed'
  BY <1>2, FreeOK DEF FtpdIInv, Closed
<1>9. Served'
  BY <1>4, <1>5 DEF Served
<1>10. Stored'
  BY <1>1, <1>4, <1>5 DEF FtpdIInv, Stored
<1>. QED
  BY <1>6, <1>7, <1>8, <1>9, <1>10 DEF FtpdIInv

LEMMA mftpExitHandlerStep ==
    ASSUME FtpdIInv, mftpExitHandler
    PROVE  FtpdIInv'
<1>. DEFINE r == [NewCon EXCEPT !.at = "killed"]
<1>1. PICK D : <<>> \in D /\ con \in [Session -> Connection(D)]
  BY Paths DEF FtpdIInv
<1>2. r \in Connection(D)
  <2>1. NewCon \in Connection(D) /\ "killed" \in States
    BY <1>1, NewConOK DEF States
  <2>. QED
    BY <2>1 DEF Connection
<1>3. /\ r.at = "killed" /\ r.got = 0 /\ r.buffer = 0 /\ r.fd = FALSE
  BY DEF NewCon
<1>4. con' = [s \in Session |-> IF s \in list THEN r ELSE con[s]]
  BY DEF mftpExitHandler
<1>. HIDE DEF r
<1>5. con' \in [Session -> Connection(D)]
  BY <1>1, <1>2, <1>4
<1>6. \A t \in Session : con'[t] = r \/ con'[t] = con[t]
  BY <1>4
<1>7. \A t \in Session : t \in list => con'[t] = r
  BY <1>4
<1>8. /\ sock' \in [Numbers -> SocketRecord]
      /\ \A m \in Numbers : sock'[m] = IF m = srv.listen THEN Free ELSE sock[m]
  BY FtpdTypeFacts, CloseOne DEF mftpExitHandler
<1>9. mem' \in Memory /\ mem'.memid2 = mem.memid2
  BY FtpdTypeFacts DEF mftpExitHandler, Memory
<1>10. srv' \in Server /\ srv'.exit = "done" /\ srv'.count = srv.count
  BY FtpdTypeFacts DEF mftpExitHandler, Server
<1>11. list' = {} /\ pasvPort' = pasvPort /\ files' = files
  BY DEF mftpExitHandler
<1>12. ~Orderly'
  BY <1>10 DEF Orderly
<1>13. Typed'
  BY <1>5, <1>8, <1>9, <1>10, <1>11, FtpdTypeFacts DEF Typed
<1>14. Counted'
  <2>1. ASSUME NEW t \in Session
        PROVE  (con'[t].at = "none" <=> t > srv.count) /\ (con'[t].at = "none" => con'[t].data = 0 /\
                 con'[t].pasv = 0)
    <3>1. /\ con[t].at = "none" <=> t > srv.count
          /\ con[t].at = "none" => con[t].data = 0 /\ con[t].pasv = 0
          /\ t \in list => t <= srv.count
      BY DEF FtpdIInv, Counted
    <3>2. t \in Int /\ srv.count \in Int
      BY FtpdTypeFacts, Bounds DEF Server, Session
    <3>3. CASE t \in list
      BY <1>3, <1>7, <3>1, <3>2, <3>3
    <3>4. CASE t \notin list
      <4>1. con'[t] = con[t]
        BY <1>4, <3>4
      <4>. QED
        BY <3>1, <4>1
    <3>. QED
      BY <3>3, <3>4
  <2>. QED
    BY <1>9, <1>10, <1>11, <2>1 DEF FtpdIInv, Counted
<1>15. Closed'
  BY <1>8, FreeOK DEF FtpdIInv, Closed
<1>16. Served'
  BY <1>12 DEF Served
<1>17. Stored'
  BY <1>3, <1>6, <1>12, Bounds DEF FtpdIInv, Stored
<1>. QED
  BY <1>13, <1>14, <1>15, <1>16, <1>17 DEF FtpdIInv

LEMMA FtpdStutterStep ==
    ASSUME FtpdIInv, UNCHANGED ftpdVars
    PROVE  FtpdIInv'
<1>1. Orderly' <=> Orderly
  BY DEF ftpdVars, Orderly
<1>2. \A s \in Session : Alive(s)' <=> Alive(s)
  BY DEF ftpdVars, Alive
<1>3. \A s, n : Holds(s, n)' <=> Holds(s, n)
  BY DEF ftpdVars, Holds
<1>4. Typed' /\ Counted' /\ Closed'
  BY DEF FtpdIInv, ftpdVars, Typed, Counted, Closed
<1>5. Served'
  BY <1>1, <1>2, <1>3 DEF FtpdIInv, ftpdVars, Served, Holds, Alive
<1>6. Stored'
  BY <1>1 DEF FtpdIInv, ftpdVars, Stored
<1>. QED
  BY <1>4, <1>5, <1>6 DEF FtpdIInv

LEMMA FtpdInitInv ==
    ASSUME FtpdInit
    PROVE  FtpdIInv
<1>1. NewCon \in Connection({<<>>})
  BY NewConOK
<1>2. con = [s \in Session |-> NewCon]
  BY DEF FtpdInit
<1>3. con \in [Session -> Connection({<<>>})]
  BY <1>1, <1>2
<1>4. 0 \in Ports /\ 21 \in Ports /\ 59735 \in Ports
  BY DEF Ports
<1>5. Free \in SocketRecord /\ ListensOn(0, 21) \in SocketRecord
  BY <1>4, FreeOK DEF ListensOn, SocketRecord
<1>6. /\ sock \in [Numbers -> SocketRecord] /\ sock[1] = ListensOn(0, 21)
      /\ \A n \in Numbers : n # 1 => sock[n] = Free
      /\ 1 \in Numbers
  BY <1>5, FtpdAssumption DEF FtpdInit, Numbers
<1>7. /\ list = {} /\ mem = [memid |-> 0, memid2 |-> 0, nodes |-> {}, blocks |-> {}] /\ pasvPort = 59735
      /\ srv = [loop |-> "accept", listen |-> 1, exit |-> "wait", count |-> 0, commands |-> 0,
           overlap |-> FALSE,
                late |-> {}]
  BY DEF FtpdInit
<1>8. mem \in Memory /\ srv \in Server
  BY <1>6, <1>7, Bounds DEF Memory, Server
<1>9. Typed
  BY <1>3, <1>4, <1>6, <1>7, <1>8 DEF Typed
<1>10. /\ NewCon.at = "none" /\ NewCon.data = 0 /\ NewCon.pasv = 0 /\ NewCon.got = 0 /\ NewCon.buffer = 0
       /\ NewCon.fd = FALSE
  BY DEF NewCon
<1>11. Counted
  <2>1. \A s \in Session : s > 0
    BY DEF Session
  <2>. QED
    BY <1>2, <1>7, <1>10, <2>1 DEF Counted
<1>12. Closed
  BY <1>6, FreeOK DEF Closed, ListensOn
<1>13. Served
  BY <1>2, <1>6, <1>7, <1>10 DEF Served, Alive, ListensOn
<1>14. Stored
  BY <1>2, <1>10, Bounds DEF Stored
<1>. QED
  BY <1>9, <1>11, <1>12, <1>13, <1>14 DEF FtpdIInv

LEMMA FtpdNextInv ==
    ASSUME FtpdIInv, [FtpdNext]_ftpdVars
    PROVE  FtpdIInv'
<1>1. CASE AcceptClient
  BY <1>1, AcceptClientStep
<1>2. CASE AcceptFails
  BY <1>2, AcceptFailsStep
<1>3. CASE mftpExitHandler
  BY <1>3, mftpExitHandlerStep
<1>4. ASSUME NEW s \in Session, Handler(s) \/ mftpDispatch(s) \/ ClientGone(s) \/ ClientConnects(s)
      PROVE  FtpdIInv'
  BY <1>4, StartSessionStep, PASVStep, openDataConnectionStep, SendDataStep, StoreOpenStep,
     StoreChunkStep,
     StoreEndStep, EndSessionStep, mftpDispatchStep, ClientGoneStep, ClientConnectsStep DEF Handler
<1>5. CASE UNCHANGED ftpdVars
  BY <1>5, FtpdStutterStep
<1>. QED
  BY <1>1, <1>2, <1>3, <1>4, <1>5 DEF FtpdNext

LEMMA FtpdInvariance == FtpdSpec => []FtpdIInv
<1>. QED
  BY FtpdInitInv, FtpdNextInv, PTL DEF FtpdSpec

LEMMA Live ==
    ASSUME FtpdIInv
    PROVE  MemoryLive
<1>1. FtpdTypeOK
  <2>1. ASSUME NEW s \in Session
        PROVE  /\ con[s].at \in {"none", "started", "recv", "pasv", "open", "data", "store", "ending",
                    "dead", "killed"}
               /\ {con[s].cmd, con[s].data, con[s].pasv} \subseteq Numbers \cup {0}
    BY ConFacts DEF States
  <2>2. \A n \in Numbers : sock[n].who \in {-1, 0} \cup Session /\ sock[n].waiting \in {0} \cup Session
    BY FtpdTypeFacts DEF SocketRecord
  <2>3. list \cup mem.nodes \cup mem.blocks \cup srv.late \subseteq Session
    BY FtpdTypeFacts DEF Memory, Server
  <2>4. {mem.memid, mem.memid2, srv.count} \subseteq {0} \cup Session
    BY FtpdTypeFacts, Bounds DEF Memory, Server, Session
  <2>. QED
    BY <2>1, <2>2, <2>3, <2>4, FtpdTypeFacts DEF FtpdTypeOK
<1>2. Orderly => /\ \A s \in Session : Alive(s) => s \in mem.blocks
                 /\ list \subseteq mem.nodes
  BY DEF FtpdIInv, Served
<1>. QED
  BY <1>1, <1>2 DEF MemoryLive

(* For any number of connections and commands, whatever the clients send, the *)
(* blocks a running session works with are allocated, as long as the          *)
(* connections come one after the other: memid and memid2 of ftpd.c name its  *)
(* own when they are freed.                                                   *)
THEOREM SessionsKeepMemory == FtpdSpec => []MemoryLive
<1>. QED
  BY FtpdInvariance, Live, PTL

(* Steps that close nothing: what was taken stays taken.                      *)
Keeps == \A n \in Numbers : sock'[n].who = -1 => sock[n].who = -1

LEMMA TakingKeeps ==
    ASSUME FtpdIInv, NEW v, v.who # -1, FreeNumbers # {}, sock' = [sock EXCEPT ![NewNumber] = v]
    PROVE  Keeps
BY NumberFree, FtpdTypeFacts DEF Keeps

LEMMA OwnedTaken ==
    ASSUME NEW s \in Session, NEW p
    PROVE  Owned(s).who # -1 /\ ListensOn(s, p).who # -1
BY DEF Owned, ListensOn, Session

LEMMA OpenKeeps ==
    ASSUME FtpdIInv, NEW s \in Session, openDataConnection(s)
    PROVE  Keeps
<1>1. CASE sock' = sock
  BY <1>1 DEF Keeps
<1>2. CASE FreeNumbers # {} /\ sock' = [sock EXCEPT ![NewNumber] = Owned(s)]
  BY <1>2, TakingKeeps, OwnedTaken
<1>3. ASSUME NEW p \in Numbers, FreeNumbers # {}, sock[p].port # 0,
             sock' = [sock EXCEPT ![NewNumber] = Owned(s), ![p].waiting = 0]
      PROVE  Keeps
  <2>1. NewNumber \in Numbers /\ sock[NewNumber].who = -1 /\ NewNumber # p
    BY <1>3, NumberFree DEF FtpdIInv, Closed
  <2>. DEFINE k == [sock EXCEPT ![NewNumber] = Owned(s)]
  <2>2. k \in [Numbers -> SocketRecord] /\ k[p] = sock[p] /\
          sock' = [k EXCEPT ![p] = [sock[p] EXCEPT !.waiting = 0]]
    <3>1. 0 \in Ports
      BY DEF Ports
    <3>. QED
      BY <1>3, <2>1, <3>1, FtpdTypeFacts, OwnedOK
  <2>3. k[NewNumber] = Owned(s) /\ \A n \in Numbers : n # NewNumber => k[n] = sock[n]
    BY <2>1, FtpdTypeFacts
  <2>4. [sock[p] EXCEPT !.waiting = 0].who = sock[p].who
    BY FtpdTypeFacts DEF SocketRecord
  <2>. HIDE DEF k
  <2>. QED
    BY <2>1, <2>2, <2>3, <2>4, OwnedTaken DEF Keeps
<1>. QED
  BY <1>1, <1>2, <1>3 DEF openDataConnection

LEMMA ConnectsKeeps ==
    ASSUME FtpdIInv, NEW s \in Session, ClientConnects(s)
    PROVE  Keeps
<1>1. CASE sock' = sock
  BY <1>1 DEF Keeps
<1>2. CASE sock' = [n \in Numbers |-> Heard(n, s)]
  <2>1. \A n \in Numbers : Heard(n, s).who = sock[n].who
    BY FtpdTypeFacts DEF Heard, SocketRecord
  <2>. QED
    BY <1>2, <2>1 DEF Keeps
<1>. QED
  BY <1>1, <1>2 DEF ClientConnects

(* A session that closes what it holds, and is somewhere else then.           *)
LEMMA OwnClosed ==
    ASSUME FtpdIInv, NEW s \in Session, Alive(s), Orderly, con'[s] # con[s],
           \A m \in Numbers : sock'[m] = sock[m] \/ (sock'[m] = Free /\ m \in {con[s].cmd, con[s].data,
             con[s].pasv}),
           NEW n \in Numbers, sock[n].who # -1, sock'[n].who = -1
    PROVE  sock[n].who \in Session /\ con[sock[n].who] # con'[sock[n].who]
<1>1. n \in {con[s].cmd, con[s].data, con[s].pasv}
  OBVIOUS
<1>2. Holds(s, n)
  BY <1>1 DEF FtpdIInv, Served
<1>3. sock[n].who = s
  BY <1>2 DEF Holds
<1>. QED
  BY <1>3

LEMMA ConnectionAt ==
    ASSUME FtpdIInv, NEW s \in Session, NEW r, con' = [con EXCEPT ![s] = r]
    PROVE  con'[s] = r
BY DEF FtpdIInv, Typed

LEMMA EndCloses ==
    ASSUME FtpdIInv, NEW s \in Session,
           SendData(s) \/ StoreEnd(s) \/ EndSession(s) \/ (con[s].at = "recv" /\ mftpCommandQUIT(s))
    PROVE  /\ con'[s] # con[s] /\ Alive(s)
           /\ \A m \in Numbers : sock'[m] = sock[m] \/ (sock'[m] = Free /\ m \in {con[s].cmd,
                con[s].data, con[s].pasv})
<1>1. Alive(s)
  BY DEF SendData, StoreEnd, EndSession, Alive
<1>2. PICK D : NoPath \in D /\ con \in [Session -> Connection(D)]
  BY Paths DEF FtpdIInv
<1>3. CASE SendData(s) \/ StoreEnd(s)
  <2>1. con' = [con EXCEPT ![s] = Finished(s)] /\ con[s].at # "recv" /\ sock' = closeDataConnection(s)
    BY <1>3 DEF SendData, StoreEnd
  <2>2. con'[s] = Finished(s) /\ Finished(s).at = "recv"
    BY <1>2, <2>1, ConnectionAt, FinishedFacts
  <2>. QED
    BY <1>1, <2>1, <2>2, CloseFacts
<1>4. CASE EndSession(s)
  <2>1. con' = [con EXCEPT ![s] = [NewCon EXCEPT !.at = "dead"]] /\ con[s].at = "ending" /\
          sock' = Close(sock, con[s].cmd)
    BY <1>4 DEF EndSession
  <2>2. con'[s] = [NewCon EXCEPT !.at = "dead"]
    BY <2>1, ConnectionAt
  <2>3. con'[s].at = "dead"
    BY <2>2 DEF NewCon
  <2>4. \A m \in Numbers : sock'[m] = IF m = con[s].cmd THEN Free ELSE sock[m]
    BY <2>1, FtpdTypeFacts, CloseOne
  <2>. QED
    BY <1>1, <2>1, <2>3, <2>4
<1>5. CASE con[s].at = "recv" /\ mftpCommandQUIT(s)
  <2>. DEFINE c == [con[s] EXCEPT !.at = "ending"]
  <2>1. con' = [con EXCEPT ![s] = Dispatched(c, NoPath)] /\ con[s].at = "recv" /\ sock' = closeDataConnection(s)
    BY <1>5 DEF mftpCommandQUIT
  <2>2. c \in Connection(D) /\ c.at = "ending"
    BY <1>2 DEF Connection, States
  <2>. HIDE DEF c
  <2>3. con'[s] = Dispatched(c, NoPath) /\ Dispatched(c, NoPath).at = "ending"
    BY <1>2, <2>1, <2>2, ConnectionAt, DispatchedFacts
  <2>. QED
    BY <1>1, <2>1, <2>3, CloseFacts
<1>. QED
  BY <1>3, <1>4, <1>5

LEMMA CommandKeeps ==
    ASSUME NEW s \in Session, NEW c, Command(s, c), c # "QUIT"
    PROVE  sock' = sock
BY
   DEF Command, mftpCommandCWD, mftpCommandDELE, mftpCommandRMD, mftpCommandMKD, mftpCommandRNFR,
       mftpCommandRNTO,
       mftpCommandPORT, mftpCommandPASV, ReplyOnly, Transfer

LEMMA SessionSockets ==
    ASSUME FtpdIInv, Orderly, NEW s \in Session,
           Handler(s) \/ mftpDispatch(s) \/ ClientGone(s) \/ ClientConnects(s),
           NEW n \in Numbers, sock[n].who # -1, sock'[n].who = -1
    PROVE  sock[n].who \in Session /\ con[sock[n].who] # con'[sock[n].who]
<1>1. CASE SendData(s) \/ StoreEnd(s) \/ EndSession(s)
  BY <1>1, EndCloses, OwnClosed
<1>2. CASE mftpDispatch(s)
  <2>1. PICK c \in Commands : Command(s, c)
    BY <1>2 DEF mftpDispatch
  <2>2. CASE c = "QUIT"
    <3>1. con[s].at = "recv" /\ mftpCommandQUIT(s)
      BY <1>2, <2>1, <2>2 DEF mftpDispatch, Command
    <3>. QED
      BY <3>1, EndCloses, OwnClosed
  <2>3. CASE c # "QUIT"
    BY <2>1, <2>3, CommandKeeps
  <2>. QED
    BY <2>2, <2>3
<1>3. CASE StartSession(s) \/ ClientGone(s) \/ StoreOpen(s) \/ StoreChunk(s)
  BY <1>3 DEF StartSession, ClientGone, StoreOpen, StoreChunk
<1>4. CASE openDataConnectionPASV(s)
  BY <1>4, TakingKeeps, OwnedTaken DEF openDataConnectionPASV, Keeps
<1>5. CASE openDataConnection(s)
  BY <1>5, OpenKeeps DEF Keeps
<1>6. CASE ClientConnects(s)
  BY <1>6, ConnectsKeeps DEF Keeps
<1>. QED
  BY <1>1, <1>2, <1>3, <1>4, <1>5, <1>6 DEF Handler

(* For any number of connections, commands and sockets: a number that is in   *)
(* use is closed by the session it belongs to, while the connections come one *)
(* after the other, although closeDataConnection closes numbers it keeps from *)
(* earlier transfers.                                                         *)
THEOREM SocketsStayOwn == FtpdSpec => OwnSockets
<1>1. ASSUME FtpdIInv, [FtpdNext]_ftpdVars
      PROVE  [Orderly /\ Orderly' =>
                \A n \in Numbers : sock[n].who # -1 /\ sock'[n].who = -1 =>
                    sock[n].who \in Session /\ con[sock[n].who] # con'[sock[n].who]]_ftpdVars
  <2>1. SUFFICES ASSUME Orderly, Orderly', NEW n \in Numbers, sock[n].who # -1, sock'[n].who = -1, FtpdNext
                 PROVE  sock[n].who \in Session /\ con[sock[n].who] # con'[sock[n].who]
    BY <1>1
  <2>2. CASE AcceptClient
    <3>1. srv.count + 1 \in Session /\ sock' = [sock EXCEPT ![NewNumber] = Owned(srv.count + 1)] /\
            FreeNumbers # {}
      BY <1>1, <2>2, AcceptFacts DEF AcceptClient
    <3>2. Keeps
      BY <1>1, <3>1, TakingKeeps, OwnedTaken
    <3>. QED
      BY <2>1, <3>2 DEF Keeps
  <2>3. CASE AcceptFails
    BY <1>1, <2>1, <2>3 DEF AcceptFails, FtpdIInv, Served
  <2>4. CASE mftpExitHandler
    <3>1. srv'.exit = "done"
      BY <1>1, <2>4, FtpdTypeFacts DEF mftpExitHandler, Server
    <3>. QED
      BY <2>1, <3>1 DEF Orderly
  <2>5. ASSUME NEW s \in Session, Handler(s) \/ mftpDispatch(s) \/ ClientGone(s) \/ ClientConnects(s)
        PROVE  sock[n].who \in Session /\ con[sock[n].who] # con'[sock[n].who]
    BY <1>1, <2>1, <2>5, SessionSockets
  <2>. QED
    BY <2>1, <2>2, <2>3, <2>4, <2>5 DEF FtpdNext
<1>. QED
  BY <1>1, FtpdInvariance, PTL DEF FtpdSpec, OwnSockets

LEMMA OtherConnections ==
    ASSUME FtpdIInv, NEW s \in Session, NEW t \in Session, t # s, NEW r, con' = [con EXCEPT ![s] = r]
    PROVE  con'[t] = con[t]
BY DEF FtpdIInv, Typed

(* A session changes its own connection only, ...                             *)
LEMMA OwnConnection ==
    ASSUME FtpdIInv, NEW s \in Session, Handler(s) \/ mftpDispatch(s) \/ ClientGone(s) \/ ClientConnects(s),
           NEW t \in Session, t # s
    PROVE  con'[t] = con[t]
<1>1. CASE mftpDispatch(s)
  <2>1. PICK c \in Commands : Command(s, c)
    BY <1>1 DEF mftpDispatch
  <2>2. \E r : con' = [con EXCEPT ![s] = r]
    BY <2>1 DEF Command, mftpCommandCWD, mftpCommandDELE, mftpCommandRMD, mftpCommandMKD, mftpCommandRNFR,
                mftpCommandRNTO, mftpCommandPORT, mftpCommandPASV, mftpCommandQUIT, ReplyOnly, Transfer
  <2>. QED
    BY <2>2, OtherConnections
<1>2. CASE StartSession(s) \/ openDataConnectionPASV(s) \/ SendData(s) \/ StoreEnd(s) \/ EndSession(s)
  BY <1>2, OtherConnections DEF StartSession, openDataConnectionPASV, SendData, StoreEnd, EndSession
<1>3. CASE StoreOpen(s) \/ StoreChunk(s)
  BY <1>3, OtherConnections DEF StoreOpen, StoreChunk
<1>4. CASE openDataConnection(s)
  BY <1>4, OtherConnections DEF openDataConnection
<1>5. CASE ClientGone(s)
  BY <1>5, OtherConnections DEF ClientGone
<1>6. CASE ClientConnects(s)
  BY <1>6, OtherConnections DEF ClientConnects
<1>. QED
  BY <1>1, <1>2, <1>3, <1>4, <1>5, <1>6 DEF Handler

(* ... and leaves the receiving of a file by StoreEnd.                        *)
LEMMA LeavesStore ==
    ASSUME FtpdIInv, NEW s \in Session, Handler(s) \/ mftpDispatch(s) \/ ClientGone(s) \/ ClientConnects(s),
           con[s].at = "store", con'[s].at = "recv"
    PROVE  StoreEnd(s)
<1>1. ~StoreChunk(s)
  <2>1. SUFFICES ASSUME StoreChunk(s) PROVE con'[s].at = con[s].at
    OBVIOUS
  <2>2. PICK c \in Chunks :
          con' = [con EXCEPT ![s] = [con[s] EXCEPT !.got = con[s].got + c,
                                                   !.buffer = IF Flushes(s, c) THEN c ELSE con[s].buffer + c]]
    BY <2>1 DEF StoreChunk
  <2>. DEFINE b == IF Flushes(s, c) THEN c ELSE con[s].buffer + c
              r == [con[s] EXCEPT !.got = con[s].got + c, !.buffer = b]
  <2>. HIDE DEF b
  <2>3. PICK D : con \in [Session -> Connection(D)]
    BY DEF FtpdIInv, Typed
  <2>4. r.at = con[s].at
    BY <2>3 DEF Connection
  <2>5. con' = [con EXCEPT ![s] = r]
    BY <2>2 DEF b
  <2>. HIDE DEF r
  <2>. QED
    BY <2>4, <2>5, ConnectionAt
<1>. QED
  BY <1>1
     DEF Handler, StartSession, openDataConnectionPASV, openDataConnection, SendData, StoreOpen,
         EndSession,
              mftpDispatch, ClientGone, ClientConnects

LEMMA WholeAtEnd ==
    ASSUME FtpdIInv, NEW s \in Session, Orderly, StoreEnd(s), con[s].fd
    PROVE  files'[con[s].arg] = con[s].got
<1>1. con[s].at = "store" /\ files' = Appended(s, con[s].buffer)
  BY DEF StoreEnd
<1>2. con[s].fd = TRUE
  BY ConFacts
<1>3. files[con[s].arg] + con[s].buffer = con[s].got
  BY <1>1, <1>2 DEF FtpdIInv, Stored
<1>4. files'[con[s].arg] = files[con[s].arg] + con[s].buffer
  BY <1>1, <1>2, AppendedFacts
<1>. QED
  BY <1>3, <1>4

LEMMA LeftAlone ==
    ASSUME FtpdIInv, NEW s \in Session, con[s].at = "store", con'[s].at = "recv",
             AcceptClient \/ AcceptFails \/ mftpExitHandler
    PROVE  FALSE
<1>1. CASE AcceptClient
  <2>1. PICK t \in Session : t = srv.count + 1
    BY <1>1, AcceptFacts
  <2>2. con[t].at = "none" /\ con' = [con EXCEPT ![t] = [con[t] EXCEPT !.at = "started", !.cmd = NewNumber]]
    BY <1>1, <2>1, AcceptFacts
  <2>3. con'[s] = con[s]
    BY <2>2, OtherConnections
  <2>. QED
    BY <2>3
<1>2. CASE AcceptFails
  BY <1>2 DEF AcceptFails
<1>3. CASE mftpExitHandler
  BY <1>3 DEF mftpExitHandler, NewCon
<1>. QED
  BY <1>1, <1>2, <1>3

(* Whatever the chunks and the size of the write buffer are: a STOR that is   *)
(* acknowledged has put what it received into its file, while the connections *)
(* come one after the other, and the buffer is never written past its end.    *)
THEOREM StoresWhole == FtpdSpec => StoreWhole
<1>1. ASSUME FtpdIInv, FtpdIInv', [FtpdNext]_ftpdVars
      PROVE  [\A s \in Session :
                /\ con'[s].buffer <= WriteBuffer
                /\ Orderly /\ con[s].at = "store" /\ con'[s].at = "recv" /\ con[s].fd =>
                       files'[con[s].arg] = con[s].got]_ftpdVars
  <2>1. SUFFICES ASSUME FtpdNext, NEW s \in Session
                 PROVE  /\ con'[s].buffer <= WriteBuffer
                        /\ Orderly /\ con[s].at = "store" /\ con'[s].at = "recv" /\ con[s].fd =>
                               files'[con[s].arg] = con[s].got
    BY <1>1
  <2>2. con'[s].buffer <= WriteBuffer
    BY <1>1 DEF FtpdIInv, Stored
  <2>3. ASSUME Orderly, con[s].at = "store", con'[s].at = "recv", con[s].fd
        PROVE  files'[con[s].arg] = con[s].got
    <3>1. PICK t \in Session : Handler(t) \/ mftpDispatch(t) \/ ClientGone(t) \/ ClientConnects(t)
      BY <1>1, <2>1, <2>3, LeftAlone DEF FtpdNext
    <3>2. t = s
      <4>1. con'[s] # con[s]
        BY <2>3
      <4>. QED
        BY <1>1, <3>1, <4>1, OwnConnection
    <3>3. StoreEnd(s)
      BY <1>1, <2>3, <3>1, <3>2, LeavesStore
    <3>. QED
      BY <1>1, <2>3, <3>3, WholeAtEnd
  <2>. QED
    BY <2>2, <2>3
<1>. QED
  BY <1>1, FtpdInvariance, PTL DEF FtpdSpec, StoreWhole

(* CWD: the walk over a path against what the path means, for every path and  *)
(* every directory it starts in.                                              *)

(* A function on 0 .. n can be defined step by step.                          *)
Stepped(X, b, n, g) == \E f \in [0 .. n -> X] : f[0] = b /\ \A i \in 1 .. n : f[i] = g[f[i - 1]][i]

LEMMA StepByStep ==
    ASSUME NEW X, NEW b \in X, NEW n \in Nat, NEW g \in [X -> [1 .. n -> X]]
    PROVE  Stepped(X, b, n, g)
<1>. DEFINE Upto(m, f) == f \in [0 .. m -> X] /\ f[0] = b /\ \A i \in 1 .. m : f[i] = g[f[i - 1]][i]
            Bad == {m \in 0 .. n : ~ \E f : Upto(m, f)}
<1>1. SUFFICES ASSUME Bad # {} PROVE FALSE
  <2>1. n \in 0 .. n
    OBVIOUS
  <2>2. CASE Bad = {}
    <3>1. \E f : Upto(n, f)
      BY <2>1, <2>2
    <3>. QED
      BY <3>1 DEF Stepped
  <2>. QED
    BY <2>2
<1>. DEFINE m == Min(Bad)
<1>2. m \in Bad /\ \A k \in Bad : m <= k
  <2>1. Bad \in SUBSET Nat
    OBVIOUS
  <2>. HIDE DEF Bad
  <2>. QED
    BY <1>1, <2>1, LeastNumber
<1>. HIDE DEF m
<1>3. CASE m = 0
  <2>. DEFINE f == [i \in 0 .. 0 |-> b]
  <2>1. Upto(0, f)
    OBVIOUS
  <2>. QED
    BY <1>2, <1>3, <2>1
<1>4. CASE m # 0
  <2>1. m - 1 \in 0 .. n /\ m \in 1 .. n /\ m - 1 \notin Bad
    <3>1. m \in 0 .. n
      BY <1>2
    <3>2. m - 1 \in 0 .. n /\ m \in 1 .. n /\ ~(m <= m - 1)
      BY <1>4, <3>1
    <3>. HIDE DEF Bad
    <3>. QED
      BY <1>2, <3>2
  <2>2. PICK f : Upto(m - 1, f)
    BY <2>1
  <2>. DEFINE h == [i \in 0 .. m |-> IF i < m THEN f[i] ELSE g[f[m - 1]][m]]
  <2>3. f[m - 1] \in X /\ g[f[m - 1]][m] \in X
    BY <2>1, <2>2
  <2>4. h \in [0 .. m -> X] /\ h[0] = b
    BY <2>1, <2>2, <2>3
  <2>5. ASSUME NEW i \in 1 .. m PROVE h[i] = g[h[i - 1]][i]
    <3>0. i \in 0 .. m /\ i - 1 \in 0 .. m /\ i - 1 < m
      BY <2>1
    <3>1. h[i - 1] = f[i - 1]
      BY <3>0
    <3>2. CASE i < m
      <4>1. h[i] = f[i]
        BY <3>0, <3>2
      <4>2. i \in 1 .. m - 1
        BY <2>1, <3>2
      <4>. QED
        BY <2>2, <3>1, <4>1, <4>2
    <3>3. CASE i = m
      BY <2>1, <3>1, <3>3
    <3>. QED
      BY <2>1, <3>2, <3>3
  <2>6. Upto(m, h)
    BY <2>4, <2>5
  <2>. QED
    BY <1>2, <2>6
<1>. QED
  BY <1>3, <1>4

(* The names a path may add to a directory.                                   *)
Marks == {"/", ".", ".."}
Place(V) == [dir : Seq(V \ Marks), stop : BOOLEAN]

LEMMA StepType ==
    ASSUME NEW V, NEW d \in Place(V), NEW step \in V
    PROVE  WalkStep(d, step) \in Place(V)
<1>1. d.dir \in Seq(V \ Marks) /\ <<>> \in Seq(V \ Marks)
  BY DEF Place
<1>2. d.dir # <<>> => Front(d.dir) \in Seq(V \ Marks)
  BY <1>1 DEF Front
<1>3. step \notin Marks => Append(d.dir, step) \in Seq(V \ Marks)
  BY <1>1
<1>4. ASSUME NEW x \in Seq(V \ Marks), NEW y \in BOOLEAN
      PROVE  [d EXCEPT !.dir = x, !.stop = y] \in Place(V) /\ [d EXCEPT !.dir = x] \in Place(V)
  BY DEF Place
<1>5. CASE step = "/"
  BY <1>1, <1>4, <1>5 DEF WalkStep
<1>6. CASE step = "."
  BY <1>6 DEF WalkStep
<1>7. CASE step = ".."
  <2>1. WalkStep(d, step) =
            [d EXCEPT !.dir = IF d.dir = <<>> THEN <<>> ELSE Front(d.dir), !.stop = d.dir = <<>>]
    BY <1>7 DEF WalkStep
  <2>. QED
    BY <1>1, <1>2, <1>4, <2>1
<1>8. CASE step \notin Marks
  BY <1>3, <1>4, <1>8 DEF WalkStep, Marks
<1>. QED
  BY <1>5, <1>6, <1>7, <1>8 DEF Marks

LEMMA WalkDefined ==
    ASSUME NEW V, NEW dir \in Seq(V \ Marks), NEW walk \in Seq(V)
    PROVE  LET d == Walk(dir, walk)
           IN  /\ d[0] = [dir |-> dir, stop |-> FALSE]
               /\ \A i \in 0 .. Len(walk) : d[i] \in Place(V)
               /\ \A i \in 1 .. Len(walk) :
                     d[i] = IF d[i - 1].stop THEN d[i - 1] ELSE WalkStep(d[i - 1], walk[i])
<1>. DEFINE n == Len(walk)
            X == Place(V)
            b == [dir |-> dir, stop |-> FALSE]
            Next1(x, i) == IF x.stop THEN x ELSE WalkStep(x, walk[i])
            g == [x \in X |-> [i \in 1 .. n |-> Next1(x, i)]]
            Rec(h) == h = [i \in 0 .. n |-> IF i = 0 THEN b ELSE Next1(h[i - 1], i)]
<1>1. n \in Nat /\ b \in X
  BY DEF Place
<1>2. \A x \in X, i \in 1 .. n : Next1(x, i) \in X
  BY StepType
<1>. HIDE DEF X, n, b, Next1
<1>3. g \in [X -> [1 .. n -> X]]
  BY <1>2
<1>4. \A x \in X, i \in 1 .. n : g[x][i] = Next1(x, i)
  OBVIOUS
<1>. HIDE DEF g
<1>5. PICK f \in [0 .. n -> X] : f[0] = b /\ \A i \in 1 .. n : f[i] = g[f[i - 1]][i]
  <2>1. Stepped(X, b, n, g)
    BY <1>1, <1>3, StepByStep
  <2>. QED
    BY <2>1 DEF Stepped
<1>6. ASSUME NEW i \in 0 .. n PROVE f[i] = IF i = 0 THEN b ELSE Next1(f[i - 1], i)
  <2>1. CASE i = 0
    BY <1>5, <2>1
  <2>2. CASE i # 0
    <3>1. i \in 1 .. n /\ i - 1 \in 0 .. n
      BY <1>1, <2>2
    <3>. QED
      BY <1>4, <1>5, <2>2, <3>1
  <2>. QED
    BY <2>1, <2>2
<1>7. Rec(f)
  BY <1>5, <1>6
<1>8. Walk(dir, walk) = CHOOSE h : Rec(h)
  BY DEF Walk, n, b, Next1
<1>. DEFINE d == Walk(dir, walk)
<1>9. Rec(d)
  BY <1>7, <1>8
<1>. HIDE DEF d
<1>10. \A i \in 0 .. n : d[i] = IF i = 0 THEN b ELSE Next1(d[i - 1], i)
  BY <1>9
<1>11. \A i \in 1 .. n : d[i] = Next1(d[i - 1], i)
  BY <1>1, <1>10
<1>12. d[0] = b
  BY <1>1, <1>10
<1>13. \A i \in 0 .. n : d[i] \in X
  <2>. DEFINE Bad == {i \in 0 .. n : d[i] \notin X}
              m == Min(Bad)
  <2>1. SUFFICES ASSUME Bad # {} PROVE FALSE
    OBVIOUS
  <2>2. m \in Bad /\ \A k \in Bad : m <= k
    <3>1. Bad \in SUBSET Nat
      BY <1>1
    <3>. HIDE DEF Bad
    <3>. QED
      BY <2>1, <3>1, LeastNumber
  <2>. HIDE DEF m
  <2>3. m # 0
    BY <1>1, <1>12, <2>2
  <2>4. m \in 1 .. n /\ m - 1 \in 0 .. n /\ m - 1 \notin Bad
    BY <1>1, <2>2, <2>3
  <2>5. d[m - 1] \in X
    BY <2>4
  <2>. QED
    BY <1>2, <1>11, <2>2, <2>4, <2>5
<1>. QED
  BY <1>11, <1>12, <1>13 DEF d, X, n, b, Next1

(* The same for what the path means, where ".." may be left in front.         *)
LEMMA ResolutionsDefined ==
    ASSUME NEW V, NEW dir \in Seq(V), NEW walk \in Seq(V)
    PROVE  LET e == Resolutions(dir, walk)
           IN  /\ e[0] = dir
               /\ \A i \in 0 .. Len(walk) : e[i] \in Seq(V)
               /\ \A i \in 1 .. Len(walk) :
                     e[i] = CASE walk[i] = "/"  -> <<>>
                              [] walk[i] = "."  -> e[i - 1]
                              [] walk[i] = ".." -> Up(e[i - 1])
                              [] OTHER          -> Append(e[i - 1], walk[i])
<1>. DEFINE n == Len(walk)
            X == Seq(V)
            Next1(x, i) == CASE walk[i] = "/"  -> <<>>
                             [] walk[i] = "."  -> x
                             [] walk[i] = ".." -> Up(x)
                             [] OTHER          -> Append(x, walk[i])
            g == [x \in X |-> [i \in 1 .. n |-> Next1(x, i)]]
            Rec(h) == h = [i \in 0 .. n |-> IF i = 0 THEN dir ELSE Next1(h[i - 1], i)]
<1>1. n \in Nat /\ dir \in X
  OBVIOUS
<1>2. ASSUME NEW x \in X, NEW i \in 1 .. n PROVE Next1(x, i) \in X
  <2>1. walk[i] \in V /\ <<>> \in Seq(V) /\ Append(x, walk[i]) \in Seq(V)
    OBVIOUS
  <2>2. walk[i] = ".." => Up(x) \in Seq(V)
    <3>1. x # <<>> => Front(x) \in Seq(V)
      BY DEF Front
    <3>2. walk[i] = ".." => Append(x, "..") \in Seq(V)
      BY <2>1
    <3>. QED
      BY <3>1, <3>2 DEF Up
  <2>3. CASE walk[i] = "/"
    BY <2>1, <2>3
  <2>4. CASE walk[i] = "."
    BY <2>4
  <2>5. CASE walk[i] = ".."
    BY <2>2, <2>5
  <2>6. CASE walk[i] \notin {"/", ".", ".."}
    BY <2>1, <2>6
  <2>. QED
    BY <2>3, <2>4, <2>5, <2>6
<1>. HIDE DEF X, n, Next1
<1>3. g \in [X -> [1 .. n -> X]]
  BY <1>2
<1>4. \A x \in X, i \in 1 .. n : g[x][i] = Next1(x, i)
  OBVIOUS
<1>. HIDE DEF g
<1>5. PICK f \in [0 .. n -> X] : f[0] = dir /\ \A i \in 1 .. n : f[i] = g[f[i - 1]][i]
  <2>1. Stepped(X, dir, n, g)
    BY <1>1, <1>3, StepByStep
  <2>. QED
    BY <2>1 DEF Stepped
<1>6. ASSUME NEW i \in 0 .. n PROVE f[i] = IF i = 0 THEN dir ELSE Next1(f[i - 1], i)
  <2>1. CASE i = 0
    BY <1>5, <2>1
  <2>2. CASE i # 0
    <3>1. i \in 1 .. n /\ i - 1 \in 0 .. n
      BY <1>1, <2>2
    <3>. QED
      BY <1>4, <1>5, <2>2, <3>1
  <2>. QED
    BY <2>1, <2>2
<1>7. Rec(f)
  BY <1>5, <1>6
<1>8. Resolutions(dir, walk) = CHOOSE h : Rec(h)
  BY DEF Resolutions, n, Next1
<1>. DEFINE e == Resolutions(dir, walk)
<1>9. Rec(e)
  BY <1>7, <1>8
<1>. HIDE DEF e
<1>10. \A i \in 0 .. n : e[i] = IF i = 0 THEN dir ELSE Next1(e[i - 1], i)
  BY <1>9
<1>11. \A i \in 1 .. n : e[i] = Next1(e[i - 1], i)
  BY <1>1, <1>10
<1>12. e[0] = dir
  BY <1>1, <1>10
<1>13. \A i \in 0 .. n : e[i] \in X
  <2>. DEFINE Bad == {i \in 0 .. n : e[i] \notin X}
              m == Min(Bad)
  <2>1. SUFFICES ASSUME Bad # {} PROVE FALSE
    OBVIOUS
  <2>2. m \in Bad /\ \A k \in Bad : m <= k
    <3>1. Bad \in SUBSET Nat
      BY <1>1
    <3>. HIDE DEF Bad
    <3>. QED
      BY <2>1, <3>1, LeastNumber
  <2>. HIDE DEF m
  <2>3. m # 0
    BY <1>1, <1>12, <2>2
  <2>4. m \in 1 .. n /\ m - 1 \in 0 .. n /\ m - 1 \notin Bad
    BY <1>1, <2>2, <2>3
  <2>5. e[m - 1] \in X
    BY <2>4
  <2>. QED
    BY <1>2, <1>11, <2>2, <2>4, <2>5
<1>. QED
  BY <1>11, <1>12, <1>13 DEF e, X, n, Next1

(* Taking the last of several elements away leaves the first one.             *)
LEMMA FrontHead ==
    ASSUME NEW V, NEW q \in Seq(V), Len(q) # 0, Len(q) # 1
    PROVE  Front(q) # <<>> /\ Front(q)[1] = q[1]
<1>. DEFINE n == Len(q)
            k == n - 1
<1>1. n \in Nat /\ n # 0 /\ n # 1
  OBVIOUS
<1>2. Front(q) = SubSeq(q, 1, k)
  BY DEF Front
<1>. HIDE DEF n
<1>3. k \in Nat /\ 1 <= k /\ k <= n
  BY <1>1
<1>. HIDE DEF k
<1>4. Len(SubSeq(q, 1, k)) = k /\ SubSeq(q, 1, k)[1] = q[1]
  BY <1>3 DEF n
<1>5. SubSeq(q, 1, k) # <<>>
  BY <1>3, <1>4
<1>. QED
  BY <1>2, <1>4, <1>5

(* As long as the walk has not been ended by a ".." at the root it is where   *)
(* the path leads, and afterwards the path begins with "..".                  *)
LEMMA WalkFollows ==
    ASSUME NEW V, NEW dir \in Seq(V \ Marks), NEW walk \in Seq(V), \A i \in 2 .. Len(walk) : walk[i] # "/"
    PROVE  LET d == Walk(dir, walk)
               e == Resolutions(dir, walk)
           IN  \A i \in 0 .. Len(walk) :
                   IF d[i].stop THEN e[i] # <<>> /\ e[i][1] = ".." ELSE d[i].dir = e[i]
<1>. DEFINE n == Len(walk)
            d == Walk(dir, walk)
            e == Resolutions(dir, walk)
            Follows(i) == IF d[i].stop THEN e[i] # <<>> /\ e[i][1] = ".." ELSE d[i].dir = e[i]
            Bad == {i \in 0 .. n : ~Follows(i)}
            m == Min(Bad)
<1>0. n \in Nat /\ dir \in Seq(V)
  OBVIOUS
<1>1. /\ d[0] = [dir |-> dir, stop |-> FALSE]
      /\ \A i \in 0 .. n : d[i] \in Place(V)
      /\ \A i \in 1 .. n : d[i] = IF d[i - 1].stop THEN d[i - 1] ELSE WalkStep(d[i - 1], walk[i])
  BY WalkDefined
<1>2. /\ e[0] = dir
      /\ \A i \in 0 .. n : e[i] \in Seq(V)
      /\ \A i \in 1 .. n : e[i] = CASE walk[i] = "/"  -> <<>>
                                    [] walk[i] = "."  -> e[i - 1]
                                    [] walk[i] = ".." -> Up(e[i - 1])
                                    [] OTHER          -> Append(e[i - 1], walk[i])
  BY <1>0, ResolutionsDefined
<1>. HIDE DEF n, d, e
<1>3. SUFFICES ASSUME Bad # {} PROVE FALSE
  BY DEF n, d, e
<1>4. m \in Bad /\ \A k \in Bad : m <= k
  <2>1. Bad \in SUBSET Nat
    BY <1>0
  <2>. HIDE DEF Bad
  <2>. QED
    BY <1>3, <2>1, LeastNumber
<1>. HIDE DEF m
<1>5. m # 0
  BY <1>0, <1>1, <1>2, <1>4
<1>6. m \in 1 .. n /\ m - 1 \in 0 .. n
  BY <1>0, <1>4, <1>5
<1>7. Follows(m - 1)
  BY <1>0, <1>4, <1>6
<1>8. ~Follows(m)
  BY <1>4
<1>. DEFINE x == walk[m]
            p == d[m - 1]
            q == e[m - 1]
<1>9. /\ p \in Place(V) /\ p.dir \in Seq(V \ Marks) /\ p.stop \in BOOLEAN
      /\ q \in Seq(V) /\ Len(q) \in Nat /\ x \in V
  <2>1. p \in Place(V) /\ q \in Seq(V)
    BY <1>1, <1>2, <1>6
  <2>. HIDE DEF p, q
  <2>2. p.dir \in Seq(V \ Marks) /\ p.stop \in BOOLEAN /\ Len(q) \in Nat
    BY <2>1 DEF Place
  <2>3. x \in V
    BY <1>6 DEF n
  <2>. QED
    BY <2>1, <2>2, <2>3
<1>10. d[m] = IF p.stop THEN p ELSE WalkStep(p, x)
  BY <1>1, <1>6
<1>11. e[m] = CASE x = "/"  -> <<>>
                [] x = "."  -> q
                [] x = ".." -> Up(q)
                [] OTHER    -> Append(q, x)
  BY <1>2, <1>6
<1>12. IF p.stop THEN q # <<>> /\ q[1] = ".." ELSE p.dir = q
  BY <1>7
<1>13. p.stop => m \in 2 .. n
  BY <1>0, <1>1, <1>6
<1>14. p.stop => x # "/"
  BY <1>13 DEF n
<1>. HIDE DEF x, p, q, Bad
<1>15. CASE p.stop
  <2>1. e[m] # <<>> /\ e[m][1] = ".."
    <3>1. CASE x = "."
      BY <1>11, <1>12, <1>15, <3>1
    <3>2. CASE x = ".." /\ Last(q) = ".."
      <4>1. e[m] = Append(q, "..")
        BY <1>11, <3>2 DEF Up
      <4>. QED
        BY <1>9, <1>12, <1>15, <3>2, <4>1
    <3>3. CASE x = ".." /\ Last(q) # ".."
      <4>1. e[m] = Front(q)
        BY <1>11, <1>12, <1>15, <3>3 DEF Up
      <4>2. Len(q) # 1 /\ Len(q) # 0
        BY <1>9, <1>12, <1>15, <3>3 DEF Last
      <4>3. Front(q) # <<>> /\ Front(q)[1] = q[1]
        BY <1>9, <4>2, FrontHead
      <4>. QED
        BY <1>12, <1>15, <4>1, <4>3
    <3>4. CASE x \notin Marks
      <4>1. e[m] = Append(q, x)
        BY <1>11, <3>4 DEF Marks
      <4>. QED
        BY <1>9, <1>12, <1>15, <4>1
    <3>. QED
      BY <1>14, <1>15, <3>1, <3>2, <3>3, <3>4 DEF Marks
  <2>. QED
    BY <1>8, <1>10, <1>15, <2>1
<1>16. CASE ~p.stop
  <2>0. q = p.dir /\ q \in Seq(V \ Marks) /\ d[m] = WalkStep(p, x)
    BY <1>9, <1>10, <1>12, <1>16
  <2>1. CASE x = "/"
    <3>1. WalkStep(p, x) = [p EXCEPT !.dir = <<>>]
      BY <2>1 DEF WalkStep
    <3>2. d[m].dir = <<>> /\ d[m].stop = FALSE
      BY <1>9, <1>16, <2>0, <3>1 DEF Place
    <3>. QED
      BY <1>8, <1>11, <2>1, <3>2
  <2>2. CASE x = "."
    <3>1. WalkStep(p, x) = p
      BY <2>2 DEF WalkStep
    <3>. QED
      BY <1>8, <1>11, <1>16, <2>0, <2>2, <3>1
  <2>3. CASE x = ".."
    <3>1. WalkStep(p, x) =
              [p EXCEPT !.dir = IF p.dir = <<>> THEN <<>> ELSE Front(p.dir), !.stop = p.dir = <<>>]
      BY <2>3 DEF WalkStep
    <3>2. d[m].dir = (IF q = <<>> THEN <<>> ELSE Front(q)) /\ d[m].stop = (q = <<>>)
      BY <1>9, <2>0, <3>1 DEF Place
    <3>3. CASE q = <<>>
      <4>1. e[m] = <<"..">>
        BY <1>11, <2>3, <3>3 DEF Up
      <4>2. e[m] # <<>> /\ e[m][1] = ".."
        BY <4>1
      <4>. QED
        BY <1>8, <3>2, <3>3, <4>2
    <3>4. CASE q # <<>>
      <4>1. Last(q) \in V \ Marks
        BY <2>0, <3>4 DEF Last
      <4>2. e[m] = Front(q)
        BY <1>11, <2>3, <3>4, <4>1 DEF Up, Marks
      <4>. QED
        BY <1>8, <3>2, <3>4, <4>2
    <3>. QED
      BY <3>3, <3>4
  <2>4. CASE x \notin Marks
    <3>1. WalkStep(p, x) = [p EXCEPT !.dir = Append(p.dir, x)] /\ e[m] = Append(q, x)
      BY <1>11, <2>4 DEF WalkStep, Marks
    <3>2. d[m].dir = Append(q, x) /\ d[m].stop = FALSE
      BY <1>9, <1>16, <2>0, <3>1 DEF Place
    <3>. QED
      BY <1>8, <3>1, <3>2
  <2>. QED
    BY <2>1, <2>2, <2>3, <2>4 DEF Marks
<1>. QED
  BY <1>9, <1>15, <1>16

LEMMA WalkedRight ==
    ASSUME NEW V, NEW dir \in Seq(V \ Marks), NEW walk \in Seq(V), \A i \in 2 .. Len(walk) : walk[i] # "/"
    PROVE  /\ Walked(dir, walk) \in Seq(V \ Marks)
           /\ LET e == Resolved(dir, walk)
              IN  (e = <<>> \/ Head(e) # "..") => Walked(dir, walk) = e
<1>. DEFINE n == Len(walk)
            d == Walk(dir, walk)
            e == Resolutions(dir, walk)
<1>1. n \in 0 .. n
  OBVIOUS
<1>2. d[n] \in Place(V)
  BY <1>1, WalkDefined
<1>3. IF d[n].stop THEN e[n] # <<>> /\ e[n][1] = ".." ELSE d[n].dir = e[n]
  BY <1>1, WalkFollows
<1>4. Walked(dir, walk) = d[n].dir /\ Resolved(dir, walk) = e[n]
  BY DEF Walked, Resolved
<1>. HIDE DEF d, e, n
<1>5. Walked(dir, walk) \in Seq(V \ Marks)
  BY <1>2, <1>4 DEF Place
<1>6. Head(e[n]) = e[n][1]
  OBVIOUS
<1>. QED
  BY <1>3, <1>4, <1>5, <1>6

(* Where a step may take the directory of a session.                          *)
Reached(s) == {con[s].dir, <<>>} \cup {Walked(con[s].dir, w) : w \in Walks}
Moves == \A s \in Session : con'[s].dir \in Reached(s)

LEMMA OneMoves ==
    ASSUME NEW D, con \in [Session -> Connection(D)], NEW s \in Session, NEW r, r.dir \in Reached(s),
           con' = [con EXCEPT ![s] = r]
    PROVE  Moves
BY DEF Moves, Reached

LEMMA StaysMoves ==
    ASSUME NEW D, con \in [Session -> Connection(D)], NEW s \in Session, NEW r, r.dir = con[s].dir,
           con' = [con EXCEPT ![s] = r]
    PROVE  Moves
BY OneMoves DEF Reached

LEMMA DispatchedDir ==
    ASSUME NEW D, NEW c \in Connection(D), NEW f
    PROVE  /\ Dispatched(c, f).dir = c.dir
           /\ \A x : [c EXCEPT !.at = x].dir = c.dir /\ Dispatched([c EXCEPT !.at = x], f).dir = c.dir
BY DEF Dispatched, Connection

LEMMA CommandMoves ==
    ASSUME NEW D, con \in [Session -> Connection(D)], NEW s \in Session, NEW c, Command(s, c)
    PROVE  Moves
<1>. DEFINE k == con[s]
<1>1. k \in Connection(D)
  OBVIOUS
<1>2. ASSUME NEW f, con' = [con EXCEPT ![s] = Dispatched(@, f)] PROVE Moves
  BY <1>1, <1>2, DispatchedDir, StaysMoves
<1>3. CASE mftpCommandCWD(s)
  <2>1. PICK w \in Walks :
           con' = [con EXCEPT ![s] = Dispatched([k EXCEPT !.dir = Walked(k.dir, w)], NoPath)]
    BY <1>3 DEF mftpCommandCWD
  <2>2. Dispatched([k EXCEPT !.dir = Walked(k.dir, w)], NoPath).dir = Walked(k.dir, w)
    BY <1>1 DEF Dispatched, Connection
  <2>3. Walked(k.dir, w) \in Reached(s)
    BY DEF Reached
  <2>. QED
    BY <2>1, <2>2, <2>3, OneMoves
<1>4. CASE mftpCommandDELE(s) \/ mftpCommandRMD(s) \/ mftpCommandMKD(s) \/ mftpCommandRNTO(s) \/ ReplyOnly(s)
  <2>1. con' = [con EXCEPT ![s] = Dispatched(@, NoPath)]
    BY <1>4 DEF mftpCommandDELE, mftpCommandRMD, mftpCommandMKD, mftpCommandRNTO, ReplyOnly
  <2>. QED
    BY <1>2, <2>1
<1>5. CASE mftpCommandRNFR(s)
  <2>1. \E f : con' = [con EXCEPT ![s] = Dispatched(@, f)]
    BY <1>5 DEF mftpCommandRNFR
  <2>. QED
    BY <1>2, <2>1
<1>6. CASE mftpCommandPORT(s)
  <2>1. con' = [con EXCEPT ![s] = Dispatched([k EXCEPT !.passive = FALSE, !.told = 0], NoPath)]
    BY <1>6 DEF mftpCommandPORT
  <2>2. Dispatched([k EXCEPT !.passive = FALSE, !.told = 0], NoPath).dir = k.dir
    BY <1>1 DEF Dispatched, Connection
  <2>. QED
    BY <2>1, <2>2, StaysMoves
<1>7. CASE mftpCommandPASV(s)
  <2>1. con' = [con EXCEPT ![s] = Dispatched([k EXCEPT !.at = "pasv", !.told = pasvPort], NoPath)]
    BY <1>7 DEF mftpCommandPASV
  <2>2. Dispatched([k EXCEPT !.at = "pasv", !.told = pasvPort], NoPath).dir = k.dir
    BY <1>1 DEF Dispatched, Connection
  <2>. QED
    BY <2>1, <2>2, StaysMoves
<1>8. CASE mftpCommandQUIT(s)
  BY <1>1, <1>8, DispatchedDir, StaysMoves DEF mftpCommandQUIT
<1>9. CASE Transfer(s, c)
  <2>1. \E p : con' = [con EXCEPT ![s] = Dispatched([k EXCEPT !.at = "open", !.op = c, !.arg = p], NoPath)]
    BY <1>9 DEF Transfer
  <2>2. \A p : Dispatched([k EXCEPT !.at = "open", !.op = c, !.arg = p], NoPath).dir = k.dir
    BY <1>1 DEF Dispatched, Connection
  <2>. QED
    BY <2>1, <2>2, StaysMoves
<1>. QED
  BY <1>3, <1>4, <1>5, <1>6, <1>7, <1>8, <1>9 DEF Command

LEMMA FinishedDir ==
    ASSUME NEW D, con \in [Session -> Connection(D)], NEW s \in Session
    PROVE  Finished(s).dir = con[s].dir /\ \A n : [Finished(s) EXCEPT !.data = n].dir = con[s].dir
<1>1. con[s] \in Connection(D)
  OBVIOUS
<1>. QED
  BY <1>1 DEF Finished, Connection

LEMMA HandlerMoves ==
    ASSUME NEW D, con \in [Session -> Connection(D)], NEW s \in Session, Handler(s)
    PROVE  Moves
<1>. DEFINE k == con[s]
<1>1. k \in Connection(D)
  OBVIOUS
<1>2. CASE StartSession(s)
  <2>1. [NewCon EXCEPT !.at = "recv", !.cmd = con[s].cmd].dir = <<>>
    BY DEF NewCon
  <2>. QED
    BY <1>2, <2>1, OneMoves DEF StartSession, Reached
<1>3. CASE EndSession(s)
  <2>1. [NewCon EXCEPT !.at = "dead"].dir = <<>>
    BY DEF NewCon
  <2>. QED
    BY <1>3, <2>1, OneMoves DEF EndSession, Reached
<1>4. CASE openDataConnectionPASV(s)
  <2>1. [k EXCEPT !.at = "recv", !.passive = TRUE, !.pasv = NewNumber].dir = k.dir
    BY <1>1 DEF Connection
  <2>2. con' = [con EXCEPT ![s] = [k EXCEPT !.at = "recv", !.passive = TRUE, !.pasv = NewNumber]]
    BY <1>4 DEF openDataConnectionPASV
  <2>. QED
    BY <2>1, <2>2, StaysMoves
<1>5. CASE openDataConnection(s)
  <2>1. \/ con' = [con EXCEPT ![s] = [k EXCEPT !.at = "data", !.data = NewNumber, !.told = 0]]
        \/ con' = [con EXCEPT ![s] = Finished(s)]
        \/ con' = [con EXCEPT ![s] = [k EXCEPT !.at = "data", !.data = NewNumber]]
        \/ con' = [con EXCEPT ![s] = [Finished(s) EXCEPT !.data = NewNumber]]
    BY <1>5 DEF openDataConnection
  <2>2. /\ [k EXCEPT !.at = "data", !.data = NewNumber, !.told = 0].dir = k.dir
        /\ [k EXCEPT !.at = "data", !.data = NewNumber].dir = k.dir
    BY <1>1 DEF Connection
  <2>. QED
    BY <2>1, <2>2, FinishedDir, StaysMoves
<1>6. CASE SendData(s) \/ StoreEnd(s)
  BY <1>6, FinishedDir, StaysMoves DEF SendData, StoreEnd
<1>7. CASE StoreOpen(s)
  <2>1. \/ con' = [con EXCEPT ![s] = Finished(s)]
        \/ \E x : con' = [con EXCEPT ![s] = [k EXCEPT !.at = "store", !.fd = x]]
    BY <1>7 DEF StoreOpen
  <2>2. \A x : [k EXCEPT !.at = "store", !.fd = x].dir = k.dir
    BY <1>1 DEF Connection
  <2>. QED
    BY <2>1, <2>2, FinishedDir, StaysMoves
<1>8. CASE StoreChunk(s)
  <2>1. \E x, y : con' = [con EXCEPT ![s] = [k EXCEPT !.got = x, !.buffer = y]]
    BY <1>8 DEF StoreChunk
  <2>2. \A x, y : [k EXCEPT !.got = x, !.buffer = y].dir = k.dir
    BY <1>1 DEF Connection
  <2>. QED
    BY <2>1, <2>2, StaysMoves
<1>. QED
  BY <1>2, <1>3, <1>4, <1>5, <1>6, <1>7, <1>8 DEF Handler

LEMMA NextMoves ==
    ASSUME FtpdIInv, [FtpdNext]_ftpdVars
    PROVE  Moves
<1>1. PICK D : con \in [Session -> Connection(D)]
  BY DEF FtpdIInv, Typed
<1>2. CASE AcceptClient
  <2>. DEFINE s == srv.count + 1
              r == [con[s] EXCEPT !.at = "started", !.cmd = NewNumber]
  <2>1. con' = [con EXCEPT ![s] = r]
    BY <1>2 DEF AcceptClient
  <2>2. s \in Session
    BY <1>2, Bounds, FtpdTypeFacts DEF AcceptClient, Server, Session
  <2>3. con[s] \in Connection(D)
    BY <1>1, <2>2
  <2>4. r.dir = con[s].dir
    BY <2>3 DEF Connection
  <2>. HIDE DEF r, s
  <2>. QED
    BY <1>1, <2>1, <2>2, <2>4, StaysMoves
<1>3. CASE AcceptFails \/ UNCHANGED ftpdVars
  BY <1>3 DEF AcceptFails, ftpdVars, Moves, Reached
<1>4. CASE mftpExitHandler
  <2>1. con' = [s \in Session |-> IF s \in list THEN [NewCon EXCEPT !.at = "killed"] ELSE con[s]]
    BY <1>4 DEF mftpExitHandler
  <2>2. [NewCon EXCEPT !.at = "killed"].dir = <<>>
    BY DEF NewCon
  <2>. QED
    BY <2>1, <2>2 DEF Moves, Reached
<1>5. ASSUME NEW s \in Session, Handler(s) PROVE Moves
  BY <1>1, <1>5, HandlerMoves
<1>6. ASSUME NEW s \in Session, mftpDispatch(s) PROVE Moves
  BY <1>1, <1>6, CommandMoves DEF mftpDispatch
<1>7. ASSUME NEW s \in Session, ClientGone(s) PROVE Moves
  <2>1. con' = [con EXCEPT ![s] = [con[s] EXCEPT !.at = "ending"]]
    BY <1>7 DEF ClientGone
  <2>2. con[s] \in Connection(D)
    BY <1>1
  <2>. QED
    BY <1>1, <2>1, <2>2, DispatchedDir, StaysMoves
<1>8. ASSUME NEW s \in Session, ClientConnects(s) PROVE Moves
  <2>1. con' = con \/ con' = [con EXCEPT ![s] = [con[s] EXCEPT !.told = 0]]
    BY <1>8 DEF ClientConnects
  <2>2. [con[s] EXCEPT !.told = 0].dir = con[s].dir
    <3>1. con[s] \in Connection(D)
      BY <1>1
    <3>. QED
      BY <3>1 DEF Connection
  <2>. QED
    BY <1>1, <2>1, <2>2, StaysMoves DEF Moves, Reached
<1>. QED
  BY <1>2, <1>3, <1>4, <1>5, <1>6, <1>7, <1>8 DEF FtpdNext

(* The names a path is made of.                                               *)
Parts == UNION {Range(w) : w \in Walks}
Plain == \A s \in Session : con[s].dir \in Seq(Parts \ Marks)

LEMMA PathParts ==
    ASSUME NEW w \in Walks
    PROVE  w \in Seq(Parts) /\ \A i \in 2 .. Len(w) : w[i] # "/"
<1>1. w \in Seq(Range(w)) /\ \A i \in 2 .. Len(w) : w[i] # "/"
  BY FtpdAssumption
<1>2. \A i \in 1 .. Len(w) : w[i] \in Range(w)
  BY <1>1
<1>. DEFINE R == Range(w)
<1>3. R \subseteq Parts
  BY DEF Parts
<1>4. w \in Seq(R)
  BY <1>1
<1>. HIDE DEF R
<1>5. w \in Seq(Parts)
  BY <1>3, <1>4
<1>. QED
  BY <1>1, <1>5

LEMMA PlainNext ==
    ASSUME FtpdIInv, Plain, [FtpdNext]_ftpdVars
    PROVE  Plain'
<1>1. SUFFICES ASSUME NEW s \in Session PROVE con'[s].dir \in Seq(Parts \ Marks)
  BY DEF Plain
<1>2. con[s].dir \in Seq(Parts \ Marks) /\ <<>> \in Seq(Parts \ Marks)
  BY DEF Plain
<1>3. ASSUME NEW w \in Walks PROVE Walked(con[s].dir, w) \in Seq(Parts \ Marks)
  BY <1>2, PathParts, WalkedRight
<1>. QED
  BY <1>2, <1>3, NextMoves DEF Moves, Reached

(* From any directory a session can be in, CWD arrives where its path leads,  *)
(* for every path the clients send: mftpCommandCWD of ftpd.c only stops early *)
(* at a ".." that would climb above the root.                                 *)
THEOREM WalksRight == FtpdSpec => []WalkRight
<1>1. FtpdInit => Plain
  <2>1. NewCon.dir = <<>> /\ <<>> \in Seq(Parts \ Marks)
    BY DEF NewCon
  <2>2. FtpdInit => \A s \in Session : con[s] = NewCon
    BY DEF FtpdInit
  <2>. QED
    BY <2>1, <2>2 DEF Plain
<1>2. Plain => WalkRight
  <2>1. SUFFICES ASSUME Plain, NEW s \in Session, NEW w \in Walks
                 PROVE  LET d == Resolved(con[s].dir, w)
                        IN  (d = <<>> \/ Head(d) # "..") => Walked(con[s].dir, w) = d
    BY DEF WalkRight
  <2>2. con[s].dir \in Seq(Parts \ Marks)
    BY <2>1 DEF Plain
  <2>. QED
    BY <2>2, PathParts, WalkedRight
<1>3. FtpdIInv /\ Plain /\ [FtpdNext]_ftpdVars => Plain'
  BY PlainNext
<1>. QED
  BY <1>1, <1>2, <1>3, FtpdInvariance, PTL DEF FtpdSpec

------------------------------------------------------------------------------
(* Time Machine: the files, for every original, set of firmwares and number   *)
(* of losses of power.                                                        *)

Starts(s, t) == Len(s) <= Len(t) /\ \A i \in 1 .. Len(s) : s[i] = t[i]

(* A file CFE leaves: none, the beginning of the user's, or one whose first   *)
(* block names a firmware.                                                    *)
Known(f) ==
    \/ f = NoFile
    \/ f \in Seq(Block) /\ Starts(f, Original)
    \/ f \in Seq(Block) /\ Len(f) > 0 /\ f[1] \in Firmwares

(* copy_file's target is the beginning of its source.                         *)
CopyOK ==
    /\ at = "backup" => back = NoFile /\ config # NoFile
    /\ at = "backup_copy" =>
           config # NoFile /\ back # NoFile /\ copied = Len(back) /\ Starts(back, config)
    /\ at = "restore_open" => back # NoFile
    /\ at = "restore_copy" =>
           config # NoFile /\ back # NoFile /\ copied = Len(config) /\ Starts(config, back)

KnownOK == Known(config) /\ Known(back)

TmIInv == TmTypeOK /\ CopyOK /\ KnownOK

USE DEF Block, File

LEMMA OriginalFile ==
    /\ Original \in Seq(Block) /\ Original # NoFile /\ Original # <<>>
    /\ Len(Original) \in Nat /\ Len(Original) > 1
    /\ Original[1] \notin Firmwares
    /\ NoFile \notin Seq(Block)
BY TmAssumption

(* One more block of the source keeps the target its beginning.               *)
LEMMA CopyOne ==
    ASSUME NEW s \in Seq(Block), NEW t \in Seq(Block), Starts(s, t), Len(s) < Len(t)
    PROVE  LET u == Append(s, t[Len(s) + 1])
           IN  u \in Seq(Block) /\ Len(u) = Len(s) + 1 /\ Starts(u, t)
BY DEF Starts

(* The beginning of a known file is a known file.                             *)
LEMMA KnownBeginning ==
    ASSUME NEW s \in Seq(Block), NEW t \in Seq(Block), Starts(s, t), Known(t)
    PROVE  Known(s)
<1>1. t # NoFile
  BY OriginalFile
<1>2. CASE Starts(t, Original)
  BY <1>2, OriginalFile DEF Starts, Known
<1>3. CASE Len(t) > 0 /\ t[1] \in Firmwares
  <2>1. CASE Len(s) = 0
    BY <2>1, OriginalFile DEF Starts, Known
  <2>2. CASE Len(s) > 0
    BY <2>2, <1>3 DEF Starts, Known
  <2>. QED
    BY <2>1, <2>2
<1>. QED
  BY <1>1, <1>2, <1>3 DEF Known

------------------------------------------------------------------------------
LEMMA EmptyFile ==
    /\ <<>> \in Seq(Block) /\ Len(<<>>) = 0 /\ <<>> # NoFile
    /\ Known(<<>>)
    /\ \A f \in Seq(Block) : Starts(<<>>, f)
<1>1. <<>> \in Seq(Block) /\ Len(<<>>) = 0
  OBVIOUS
<1>2. \A f \in Seq(Block) : Starts(<<>>, f)
  BY <1>1 DEF Starts
<1>3. <<>> # NoFile
  BY <1>1, OriginalFile
<1>4. Known(<<>>)
  BY <1>1, <1>2, OriginalFile DEF Known
<1>. QED
  BY <1>1, <1>2, <1>3, <1>4

LEMMA TmInitInv == TmInit => TmIInv
<1>. SUFFICES ASSUME TmInit PROVE TmIInv
  OBVIOUS
<1>1. TmTypeOK
  BY OriginalFile DEF TmInit, TmTypeOK, Backup, Select, Restore
<1>2. CopyOK
  BY DEF TmInit, CopyOK
<1>3. KnownOK
  BY OriginalFile DEF TmInit, KnownOK, Known, Starts
<1>. QED
  BY <1>1, <1>2, <1>3 DEF TmIInv

USE DEF Goto, tmFiles

(* Every action keeps the three conjuncts; only the two copy loops and the    *)
(* writing of the chosen firmware have something to show.                     *)
LEMMA TmStepInv == TmIInv /\ [TmNext]_tmVars => TmIInv'
<1>. SUFFICES ASSUME TmIInv, [TmNext]_tmVars PROVE TmIInv'
  OBVIOUS
<1>. USE DEF TmIInv
<1>ty. at \in {"off", "vsh"} \cup Select \cup Restore
  BY DEF TmTypeOK
<1>1. CASE UNCHANGED tmVars
  BY <1>1 DEF tmVars, TmTypeOK, CopyOK, KnownOK, Known, Starts
<1>2. CASE Boot \/ NothingToRestore \/ RemoveMarker \/ Reboot
  BY <1>2 DEF Boot, NothingToRestore, RemoveMarker, Reboot, TmTypeOK, CopyOK, KnownOK,
              Backup, Select, Restore
<1>3. CASE RemoveSelected
  BY <1>3, OriginalFile DEF RemoveSelected, TmTypeOK, CopyOK, KnownOK, Known, Backup, Select, Restore
<1>4. CASE OpenRestored
  <2>1. /\ config' = <<>> /\ copied' = 0 /\ at' = "restore_copy"
        /\ UNCHANGED <<back, marker, user, choice, crashes, fails, torn>>
        /\ back \in Seq(Block)
    BY <1>4 DEF OpenRestored, TmTypeOK, CopyOK
  <2>2. TmTypeOK'
    BY <2>1, EmptyFile DEF TmTypeOK, Backup, Select, Restore
  <2>3. CopyOK'
    BY <2>1, EmptyFile, OriginalFile DEF CopyOK
  <2>4. Known(config') /\ Known(back')
    BY <2>1, EmptyFile DEF KnownOK
  <2>. QED
    BY <2>2, <2>3, <2>4 DEF KnownOK
<1>5. CASE CopyRestored
  <2>1. /\ at = "restore_copy" /\ config \in Seq(Block) /\ back \in Seq(Block)
        /\ copied = Len(config) /\ Starts(config, back)
    BY <1>5 DEF CopyRestored, TmTypeOK, CopyOK
  <2>2. CASE copied < Len(back)
    <3>1. config' = Append(config, back[Len(config) + 1]) /\ copied' = copied + 1
      BY <1>5, <2>1, <2>2 DEF CopyRestored
    <3>2. config' \in Seq(Block) /\ Len(config') = Len(config) + 1 /\ Starts(config', back)
      BY <2>1, <2>2, <3>1, CopyOne
    <3>3. Known(config')
      BY <2>1, <3>2, KnownBeginning DEF KnownOK
    <3>4. UNCHANGED <<back, marker, user, choice, crashes, fails, torn>> /\ at' = "restore_copy"
      BY <1>5, <2>2 DEF CopyRestored
    <3>5. copied' = Len(config') /\ copied' \in Nat
      BY <2>1, <3>1, <3>2
    <3>6. TmTypeOK'
      BY <3>2, <3>4, <3>5 DEF TmTypeOK, Backup, Select, Restore
    <3>7. CopyOK'
      BY <2>1, <3>2, <3>4, <3>5, OriginalFile DEF CopyOK, Starts
    <3>8. KnownOK'
      BY <3>3, <3>4 DEF KnownOK, Known, Starts
    <3>. QED
      BY <3>6, <3>7, <3>8
  <2>3. CASE ~(copied < Len(back))
    BY <1>5, <2>3 DEF CopyRestored, TmTypeOK, CopyOK, KnownOK, Backup, Select, Restore
  <2>. QED
    BY <2>2, <2>3
<1>6. CASE SelectFirmware
  BY <1>6 DEF SelectFirmware, TmTypeOK, CopyOK, KnownOK, Backup, Select, Restore
<1>7. CASE OpenBackup
  <2>1. /\ back' = <<>> /\ copied' = 0 /\ at' = "backup_copy"
        /\ UNCHANGED <<config, marker, user, choice, crashes, fails, torn>>
        /\ config \in Seq(Block)
    BY <1>7 DEF OpenBackup, TmTypeOK, CopyOK
  <2>2. TmTypeOK'
    BY <2>1, EmptyFile DEF TmTypeOK, Backup, Select, Restore
  <2>3. CopyOK'
    BY <2>1, EmptyFile, OriginalFile DEF CopyOK
  <2>4. Known(config') /\ Known(back')
    BY <2>1, EmptyFile DEF KnownOK
  <2>. QED
    BY <2>2, <2>3, <2>4 DEF KnownOK
<1>8. CASE OpenBackupFails
  BY <1>8 DEF OpenBackupFails, TmTypeOK, CopyOK, KnownOK, Backup, Select, Restore
<1>9. CASE CopyBackup
  <2>1. /\ at = "backup_copy" /\ config \in Seq(Block) /\ back \in Seq(Block)
        /\ copied = Len(back) /\ Starts(back, config)
    BY <1>9 DEF CopyBackup, TmTypeOK, CopyOK
  <2>2. CASE copied < Len(config)
    <3>1. back' = Append(back, config[Len(back) + 1]) /\ copied' = copied + 1
      BY <1>9, <2>1, <2>2 DEF CopyBackup
    <3>2. back' \in Seq(Block) /\ Len(back') = Len(back) + 1 /\ Starts(back', config)
      BY <2>1, <2>2, <3>1, CopyOne
    <3>3. Known(back')
      BY <2>1, <3>2, KnownBeginning DEF KnownOK
    <3>4. UNCHANGED <<config, marker, user, choice, crashes, fails, torn>> /\ at' = "backup_copy"
      BY <1>9, <2>2 DEF CopyBackup
    <3>5. copied' = Len(back') /\ copied' \in Nat
      BY <2>1, <3>1, <3>2
    <3>6. TmTypeOK'
      BY <3>2, <3>4, <3>5 DEF TmTypeOK, Backup, Select, Restore
    <3>7. CopyOK'
      BY <2>1, <3>2, <3>4, <3>5, OriginalFile DEF CopyOK, Starts
    <3>8. KnownOK'
      BY <3>3, <3>4 DEF KnownOK, Known, Starts
    <3>. QED
      BY <3>6, <3>7, <3>8
  <2>3. CASE ~(copied < Len(config))
    BY <1>9, <2>3 DEF CopyBackup, TmTypeOK, CopyOK, KnownOK, Backup, Select, Restore
  <2>. QED
    BY <2>2, <2>3
<1>10. CASE RemoveConfig
  BY <1>10, OriginalFile DEF RemoveConfig, TmTypeOK, CopyOK, KnownOK, Known, Backup, Select, Restore
<1>11. CASE WriteSelected
  <2>1. choice \in Firmwares /\ config \in File
    BY DEF TmTypeOK
  <2>2. config' \in Seq(Block) /\ Len(config') > 0 /\ config'[1] \in Firmwares
    <3>1. CASE config \in {NoFile, <<>>}
      BY <1>11, <2>1, <3>1 DEF WriteSelected
    <3>2. CASE config \notin {NoFile, <<>>}
      <4>1. config \in Seq(Block) /\ Len(config) > 0
        BY <2>1, <3>2
      <4>2. config' = [config EXCEPT ![1] = choice]
        BY <1>11, <3>2 DEF WriteSelected
      <4>. QED
        BY <2>1, <4>1, <4>2
    <3>. QED
      BY <3>1, <3>2
  <2>3. Known(config')
    BY <2>2 DEF Known
  <2>. QED
    BY <1>11, <2>2, <2>3 DEF WriteSelected, TmTypeOK, CopyOK, KnownOK, Backup, Select, Restore
<1>12. CASE WriteMarker
  BY <1>12 DEF WriteMarker, TmTypeOK, CopyOK, KnownOK, Backup, Select, Restore
<1>13. CASE PowerLost
  BY <1>13 DEF PowerLost, TmTypeOK, CopyOK, KnownOK, Backup, Select, Restore
<1>. QED
  BY <1>1, <1>2, <1>3, <1>4, <1>5, <1>6, <1>7, <1>8, <1>9, <1>10, <1>11, <1>12, <1>13
     DEF TmNext, RestoreStep, SelectStep

(* Every variable keeps its type: in particular copy_file never counts past   *)
(* its source.                                                                *)
THEOREM TmTypeCorrect == TmSpec => []TmTypeOK
<1>1. TmIInv => TmTypeOK
  BY DEF TmIInv
<1>. QED
  BY <1>1, TmInitInv, TmStepInv, PTL DEF TmSpec

LEMMA Inductive == TmSpec => []TmIInv
BY TmInitInv, TmStepInv, PTL DEF TmSpec

------------------------------------------------------------------------------
(* No step changes a backup that is the original: a second choice, a restore, *)
(* a loss of power at any point and a full memory stick leave it alone.  The  *)
(* only step that could, the copy loop, is past its source's end then.        *)
THEOREM BackupNeverTouched == TmSpec => BackupStable
<1>1. TmIInv /\ [TmNext]_tmVars => [back = Original => back' = Original]_tmVars
  <2>. SUFFICES ASSUME TmIInv, TmNext, back = Original PROVE back' = Original
    BY DEF tmVars
  <2>1. CASE CopyBackup
    <3>1. /\ config \in Seq(Block) /\ back \in Seq(Block) /\ copied = Len(back)
          /\ Starts(back, config) /\ Known(config) /\ config # NoFile
      BY <2>1 DEF CopyBackup, TmIInv, TmTypeOK, CopyOK, KnownOK
    <3>2. config[1] = Original[1] /\ Len(config) > 0
      BY <3>1, OriginalFile DEF Starts
    <3>3. Starts(config, Original)
      BY <3>1, <3>2, OriginalFile DEF Known
    <3>4. ~(copied < Len(config))
      BY <3>1, <3>3, OriginalFile DEF Starts
    <3>. QED
      BY <2>1, <3>4 DEF CopyBackup
  <2>2. CASE OpenBackup
    BY <2>2, OriginalFile DEF OpenBackup, TmIInv, CopyOK
  <2>3. CASE ~CopyBackup /\ ~OpenBackup
    BY <2>3 DEF TmNext, RestoreStep, SelectStep, Boot, NothingToRestore, RemoveMarker, RemoveSelected,
                OpenRestored, CopyRestored, SelectFirmware, OpenBackupFails, RemoveConfig,
                WriteSelected, WriteMarker, Reboot, PowerLost
  <2>. QED
    BY <2>1, <2>2, <2>3
<1>. QED
  BY <1>1, Inductive, PTL DEF TmSpec, BackupStable

------------------------------------------------------------------------------
(* Outside the first writing of the backup a backup is the original; until it *)
(* is there config.txt is, and nothing writes config.txt before.              *)
Kept ==
    ~torn /\ user = Original =>
        /\ back # NoFile /\ at \notin Backup => back = Original
        /\ back = NoFile \/ at \in Backup => config = Original
        /\ at \in {"remove", "write", "mark", "reboot"} => back # NoFile

LEMMA SameFile ==
    ASSUME NEW s \in Seq(Block), NEW t \in Seq(Block), Starts(s, t), ~(Len(s) < Len(t))
    PROVE  s = t
BY DEF Starts

LEMMA StepKept ==
    ASSUME TmIInv, Kept, [TmNext]_tmVars
    PROVE  Kept'
<1>. SUFFICES ASSUME user = Original, user' = user, ~torn, ~torn' PROVE Kept'
  <2>1. user' = user
    BY DEF TmNext, RestoreStep, SelectStep, Boot, NothingToRestore, RemoveMarker, RemoveSelected,
           OpenRestored, CopyRestored, SelectFirmware, OpenBackup, OpenBackupFails, CopyBackup,
           RemoveConfig, WriteSelected, WriteMarker, Reboot, PowerLost, tmVars
  <2>2. torn => torn'
    BY DEF TmNext, RestoreStep, SelectStep, Boot, NothingToRestore, RemoveMarker, RemoveSelected,
           OpenRestored, CopyRestored, SelectFirmware, OpenBackup, OpenBackupFails, CopyBackup,
           RemoveConfig, WriteSelected, WriteMarker, Reboot, PowerLost, tmVars
  <2>. QED
    BY <2>1, <2>2 DEF Kept
<1>. USE DEF Backup
<1>1. CASE UNCHANGED tmVars
  BY <1>1 DEF tmVars, Kept
<1>2. CASE Boot \/ NothingToRestore \/ RemoveMarker \/ Reboot
  BY <1>2 DEF Boot, NothingToRestore, RemoveMarker, Reboot, Kept
<1>3. CASE RemoveSelected \/ OpenRestored \/ CopyRestored
  BY <1>3 DEF RemoveSelected, OpenRestored, CopyRestored, Kept, TmIInv, CopyOK
<1>4. CASE SelectFirmware
  BY <1>4, OriginalFile DEF SelectFirmware, Kept
<1>5. CASE OpenBackup
  BY <1>5 DEF OpenBackup, Kept
<1>6. CASE OpenBackupFails
  BY <1>6 DEF OpenBackupFails
<1>7. CASE CopyBackup
  <2>1. /\ config \in Seq(Block) /\ back \in Seq(Block) /\ copied = Len(back)
        /\ Starts(back, config) /\ config = Original /\ config' = config /\ back # NoFile
    BY <1>7 DEF CopyBackup, TmIInv, TmTypeOK, CopyOK, Kept
  <2>2. CASE copied < Len(config)
    <3>1. back' = Append(back, config[copied + 1]) /\ at' = "backup_copy"
      BY <1>7, <2>2 DEF CopyBackup
    <3>2. back' # NoFile
      BY <2>1, <2>2, <3>1, CopyOne, OriginalFile
    <3>. QED
      BY <2>1, <3>1, <3>2 DEF Kept
  <2>3. CASE ~(copied < Len(config))
    <3>1. back = config
      BY <2>1, <2>3, SameFile
    <3>2. back' = back /\ at' = "remove"
      BY <1>7, <2>3 DEF CopyBackup
    <3>. QED
      BY <2>1, <3>1, <3>2 DEF Kept
  <2>. QED
    BY <2>2, <2>3
<1>8. CASE RemoveConfig \/ WriteSelected \/ WriteMarker
  BY <1>8 DEF RemoveConfig, WriteSelected, WriteMarker, Kept
<1>9. CASE PowerLost
  BY <1>9 DEF PowerLost, Kept
<1>. QED
  BY <1>1, <1>2, <1>3, <1>4, <1>5, <1>6, <1>7, <1>8, <1>9 DEF TmNext, RestoreStep, SelectStep

(* The user's configuration is in config.txt or in config.txt.back at every   *)
(* moment, however often power goes, provided the writing of the backup is    *)
(* not disturbed (there the code really loses it: MCTmBackup.cfg).            *)
THEOREM UserFileSurvives == TmSpec => []UserFileKept
<1>1. TmInit => Kept
  BY OriginalFile DEF TmInit, Kept, Backup
<1>2. TmIInv /\ Kept /\ [TmNext]_tmVars => Kept'
  BY StepKept
<1>3. Kept => UserFileKept
  BY DEF Kept, UserFileKept, BackupOriginal, Backup
<1>. QED
  BY <1>1, <1>2, <1>3, Inductive, PTL DEF TmSpec

------------------------------------------------------------------------------
(* Without a loss of power or a failure every place of the menu and of        *)
(* restore_tm_config has its files: what is still to be restored is announced   *)
(* by the marker, and is in the backup.                                       *)
Calm == user = Original /\ crashes = 0 /\ fails = 0

Settled == (Select \ Backup) \cup {"restore", "restore_open", "restore_copy"}

TmPlaced ==
    Calm =>
        /\ at \in Settled \/ (at \in {"off", "start"} /\ marker) => back = Original
        /\ at \in {"vsh"} \cup Backup \/ (at \in {"off", "start"} /\ ~marker) => config = Original
        /\ at \in {"off", "start", "vsh"} => back \in {NoFile, Original}
        /\ at \in {"vsh", "restore", "restore_open", "restore_copy"} \cup Backup => ~marker
        /\ at = "reboot" => marker
        /\ at # "restore_remove"

LEMMA StepCalm == TmIInv /\ [TmNext]_tmVars /\ Calm' => Calm
BY DEF Calm, TmIInv, TmTypeOK, TmNext, RestoreStep, SelectStep, Boot, NothingToRestore, RemoveMarker,
       RemoveSelected, OpenRestored, CopyRestored, SelectFirmware, OpenBackup, OpenBackupFails,
       CopyBackup, RemoveConfig, WriteSelected, WriteMarker, Reboot, PowerLost, tmVars

LEMMA StepPlaced == TmIInv /\ TmPlaced /\ [TmNext]_tmVars => TmPlaced'
<1>. SUFFICES ASSUME TmIInv, TmPlaced, [TmNext]_tmVars, Calm, Calm' PROVE TmPlaced'
  BY StepCalm DEF TmPlaced
<1>. USE DEF Backup, Select, Settled, TmPlaced
<1>1. CASE UNCHANGED tmVars
  BY <1>1 DEF tmVars
<1>2. CASE Boot \/ NothingToRestore \/ RemoveMarker \/ Reboot
  BY <1>2 DEF Boot, NothingToRestore, RemoveMarker, Reboot
<1>3. CASE RemoveSelected \/ OpenRestored
  BY <1>3, OriginalFile DEF RemoveSelected, OpenRestored
<1>4. CASE CopyRestored
  <2>1. /\ config \in Seq(Block) /\ back \in Seq(Block) /\ copied = Len(config)
        /\ Starts(config, back) /\ back = Original
    BY <1>4 DEF CopyRestored, TmIInv, TmTypeOK, CopyOK
  <2>2. CASE copied < Len(back)
    BY <1>4, <2>1, <2>2 DEF CopyRestored
  <2>3. CASE ~(copied < Len(back))
    <3>1. config = back
      BY <2>1, <2>3, SameFile
    <3>. QED
      BY <1>4, <2>1, <2>3, <3>1 DEF CopyRestored
  <2>. QED
    BY <2>2, <2>3
<1>5. CASE SelectFirmware
  BY <1>5, OriginalFile DEF SelectFirmware
<1>6. CASE OpenBackup
  BY <1>6 DEF OpenBackup
<1>7. CASE CopyBackup
  <2>1. /\ config \in Seq(Block) /\ back \in Seq(Block) /\ copied = Len(back)
        /\ Starts(back, config) /\ config = Original
    BY <1>7 DEF CopyBackup, TmIInv, TmTypeOK, CopyOK
  <2>2. CASE copied < Len(config)
    BY <1>7, <2>1, <2>2 DEF CopyBackup
  <2>3. CASE ~(copied < Len(config))
    <3>1. back = config
      BY <2>1, <2>3, SameFile
    <3>. QED
      BY <1>7, <2>1, <2>3, <3>1 DEF CopyBackup
  <2>. QED
    BY <2>2, <2>3
<1>8. CASE RemoveConfig \/ WriteSelected \/ WriteMarker
  BY <1>8 DEF RemoveConfig, WriteSelected, WriteMarker
<1>9. CASE OpenBackupFails \/ PowerLost
  BY <1>9 DEF OpenBackupFails, PowerLost, Calm, TmIInv, TmTypeOK
<1>. QED
  BY <1>1, <1>2, <1>3, <1>4, <1>5, <1>6, <1>7, <1>8, <1>9 DEF TmNext, RestoreStep, SelectStep

(* Whenever the VSH runs, config.txt is the user's again, whatever firmware   *)
(* was chosen and however often: restore_tm_config finds the marker and the   *)
(* backup of every choice (without a loss of power: MCTimeMachine shows one   *)
(* after the marker was removed leaves the chosen file for good).             *)
THEOREM ChoiceUndone == TmSpec => []Restored
<1>1. TmInit => TmPlaced
  BY OriginalFile DEF TmInit, TmPlaced, Calm, Settled, Select, Backup
<1>2. TmPlaced => Restored
  BY DEF TmPlaced, Calm, Restored
<1>. QED
  BY <1>1, <1>2, StepPlaced, Inductive, PTL DEF TmSpec

==============================================================================
