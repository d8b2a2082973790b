------------------------------- MODULE Music -------------------------------
(* The music player of cfe_main: playlist_thread chooses the songs, a decoder *)
(* thread plays each of them, the menu writes its commands into the shared    *)
(* Playlist record and waits for nobody.  The decoder (priority 12) and the   *)
(* playlist (14) run ahead of the menu (47): a step of a thread is what it    *)
(* does from one blocking call to the next, and the menu can be interrupted   *)
(* between any two accesses.  Songs are numbers in directory order; a song is *)
(* a header at position 0 and frames at 1 .. Frames.                          *)
EXTENDS Integers

CONSTANTS
    Count,     \* songs CountMusicFiles finds, at least one
    Kind,      \* the decoder a song needs; "bad": an omg file of no known type
    Frames,    \* frames of a song
    MaxMishaps \* bound: times the memory stick goes away or the player is stopped

Songs == 0 .. Count - 1

ASSUME MusicAssumption ==
    /\ Count \in Nat \ {0}
    /\ Kind \in [Songs -> {"mp3", "at3", "aa3", "bad"}]
    /\ \E s \in Songs : Kind[s] # "bad"
    /\ Frames \in Nat \ {0}
    /\ MaxMishaps \in Nat

VARIABLES
    music,  \* the Playlist record the threads share
    pl,     \* playlist_thread; want: the song it owes (history, -1: any),
            \* lost: Random, or the stick away, moved index past file (history)
    dec,    \* music_thread; late: it was started while music was paused
    ui,     \* main thread: where it is in a key, music_is_paused, the bounds
    hw,     \* hw_init, and the memory of the codec
    ms,     \* the memory stick can be read
    heard   \* the last frame decoded (history)

vars == <<music, pl, dec, ui, hw, ms, heard>>

SongOrNone == -1 .. Count - 1
Orders == [Songs -> SongOrNone]

(* With one song PREV steps below 0: adding it once does not make up for the  *)
(* two index goes back.                                                       *)
Indices == {i \in Int : i < Count}

PlaylistRecord ==
    [index : Indices, random : BOOLEAN, random_index : 0 .. Count, random_played : Orders,
     pause : {"PAUSE_SONG", "PAUSED", "RESUME_SONG", "PLAYING"}, change_track : {-1, 0, 1},
     flags : {"DONE", "PLAYING", "CLEANED_UP"}, resume : BOOLEAN, offset : 0 .. Frames, file : SongOrNone]
PlaylistThread ==
    [at : {"none", "choose", "name", "name_in_turn", "title", "unpause", "start", "wait_ms", "loop", "clean", "ms_ready"},
     song : Indices, want : SongOrNone, lost : BOOLEAN]
DecoderThread ==
    [at : {"none", "open", "header", "play", "end", "cleaned"}, suspended : BOOLEAN, late : BOOLEAN,
     fd : {"none", "open", "stale"}, pos : 0 .. Frames + 1, ret : {"DONE", "RESET", "ERR"}]
MainThread ==
    [at : {"idle", "starting", "saw_PAUSED", "saw_PLAYING", "flipped", "rewound", "wiped"},
     is_paused : BOOLEAN, mishaps : 0 .. MaxMishaps]

TypeOK ==
    /\ music \in PlaylistRecord /\ (music.index \in Songs \/ Count = 1)
    /\ pl \in PlaylistThread
    /\ dec \in DecoderThread
    /\ ui \in MainThread
    /\ hw \in [init : BOOLEAN, codec : {"none", "held", "freed"}]
    /\ ms \in BOOLEAN
    /\ heard \in [song : SongOrNone, frame : 0 .. Frames]

Nobody == [at |-> "none", suspended |-> FALSE, late |-> FALSE, fd |-> "none", pos |-> 0, ret |-> "DONE"]

Blank == [s \in Songs |-> -1]

(* InitPlaylist on fresh memory, as main_music calls it.                      *)
InitPlaylist ==
    [index |-> 0, random |-> FALSE, random_index |-> 0, random_played |-> Blank, pause |-> "PAUSE_SONG",
     change_track |-> 0, flags |-> "DONE", resume |-> FALSE, offset |-> 0, file |-> -1]

(* menu_load calls main_music for the first time: the playlist thread runs.   *)
Init ==
    /\ music = InitPlaylist
    /\ pl = [at |-> "choose", song |-> -1, want |-> -1, lost |-> FALSE]
    /\ dec = Nobody
    /\ ui = [at |-> "starting", is_paused |-> FALSE, mishaps |-> 0]
    /\ hw = [init |-> FALSE, codec |-> "none"]
    /\ ms = TRUE
    /\ heard = [song |-> -1, frame |-> 0]

Rewind(m) == [m EXCEPT !.index = 0, !.random_index = 0]
ResetPlaylist(m) == [Rewind(m) EXCEPT !.random_played = Blank]

Following(s) == (s + 1) % Count
Preceding(s) == (s - 1) % Count

------------------------------------------------------------------------------
(* playlist_thread                                                            *)

(* The songs rand() can end on: those played in this round are rejected.      *)
RandomSongs(m) == Songs \ {m.random_played[i] : i \in 0 .. m.random_index - 1}

(* Head of the loop: resume the same file or choose another one.              *)
ChooseSong ==
    /\ pl.at = "choose"
    /\ LET m == IF music.random /\ music.random_index >= Count THEN ResetPlaylist(music) ELSE music
       IN  \/ /\ m.resume
              /\ music' = m
              /\ pl' = [pl EXCEPT !.at = "title"]
           \/ /\ ~m.resume /\ m.random
              /\ \E s \in RandomSongs(m) :
                    /\ music' = [m EXCEPT !.index = s, !.random_played[m.random_index] = s,
                                          !.random_index = @ + 1]
                    /\ pl' = [pl EXCEPT !.at = "name", !.song = s]
           \/ /\ ~m.resume /\ ~m.random
              /\ music' = m
              /\ pl' = [pl EXCEPT !.at = "name_in_turn", !.song = m.index, !.lost = FALSE]
    /\ UNCHANGED <<dec, ui, hw, ms, heard>>

(* GetMusicFileName reads the directories: the name stays as it was when they *)
(* cannot be read or hold no such song.                                       *)
Named(m, s) == IF ms /\ s \in Songs THEN [m EXCEPT !.file = s] ELSE m

Advanced(m) ==
    LET n == [m EXCEPT !.index = @ + 1] IN IF n.index >= Count THEN ResetPlaylist(n) ELSE n

NameSong ==
    /\ pl.at \in {"name", "name_in_turn"}
    /\ music' = IF pl.at = "name" THEN Named(music, pl.song) ELSE Advanced(Named(music, pl.song))
    /\ pl' = [pl EXCEPT !.at = "title", !.song = -1, !.lost = @ \/ ~ms]
    /\ UNCHANGED <<dec, ui, hw, ms, heard>>

(* The title is read; before the codec is set up the thread waits for a play. *)
TitleSong ==
    /\ pl.at = "title"
    /\ music' = IF ~hw.init /\ music.pause = "PAUSE_SONG" THEN [music EXCEPT !.pause = "PAUSED"] ELSE music
    /\ pl' = [pl EXCEPT !.at = IF hw.init THEN "start" ELSE "unpause"]
    /\ UNCHANGED <<dec, ui, hw, ms, heard>>

(* Mutant: the song playing is not counted, its successor is already in index.*)
StepBackOne(m) ==
    LET i == m.index - 1 IN [m EXCEPT !.index = IF i < 0 THEN i + Count ELSE i]

StepBack(m) ==
    LET i == m.index - 2 IN [m EXCEPT !.index = IF i < 0 THEN i + Count ELSE i]

(* PREV, which steps back before the index moves on again, or NEXT.           *)
TrackChanged(m) ==
    LET n == IF m.change_track = -1 THEN StepBack(m) ELSE m
    IN  [n EXCEPT !.change_track = 0, !.offset = 0, !.resume = FALSE]

(* The wait before HWInit: next and previous are handled here too, but a      *)
(* previous that comes with the play does not step back.                      *)
UnpauseWait ==
    /\ pl.at = "unpause"
    /\ music.pause # "PAUSED" \/ music.change_track # 0
    /\ IF music.change_track # 0
       THEN /\ music' = TrackChanged(IF music.pause = "PAUSED" THEN music ELSE [music EXCEPT !.change_track = 1])
            /\ pl' = [pl EXCEPT !.at = "choose", !.want = -1]
            /\ UNCHANGED hw
       ELSE /\ hw' = [init |-> TRUE, codec |-> "held"]
            /\ pl' = [pl EXCEPT !.at = "start"]
            /\ UNCHANGED music
    /\ UNCHANGED <<dec, ui, ms, heard>>

(* GetOMGFileType: an omg file is looked into before a decoder is chosen.     *)
TypeKnown(s) == Kind[s] \in {"mp3", "at3"} \/ (Kind[s] = "aa3" /\ ms)

StartDecoder ==
    /\ pl.at = "start"
    /\ IF TypeKnown(music.file)
       THEN /\ music' = [music EXCEPT !.flags = "PLAYING"]
            /\ dec' = [Nobody EXCEPT !.at = "open", !.late = music.pause = "PAUSED"]
            /\ pl' = [pl EXCEPT !.at = "loop", !.want = -1]
       ELSE /\ pl' = [pl EXCEPT !.at = "wait_ms", !.want = -1]
            /\ UNCHANGED <<music, dec>>
    /\ UNCHANGED <<ui, hw, ms, heard>>

(* WaitMSReady, after a file of no known type and after a song ended.         *)
WaitMSReady ==
    /\ pl.at \in {"wait_ms", "ms_ready"}
    /\ ms
    /\ pl' = [pl EXCEPT !.at = "choose"]
    /\ UNCHANGED <<music, dec, ui, hw, ms, heard>>

(* What the loop does about the pause field, and to the decoder thread.       *)
PauseTaken(m) ==
    CASE m.pause = "PAUSE_SONG" -> [m EXCEPT !.pause = "PAUSED"]
      [] m.pause = "RESUME_SONG" -> [m EXCEPT !.pause = "PLAYING"]
      [] OTHER -> m

(* Mutant: the field is acknowledged, the decoder is not suspended.           *)
HeldNot(d) ==
    CASE music.pause = "RESUME_SONG" -> [d EXCEPT !.suspended = FALSE, !.late = FALSE]
      [] OTHER -> d

Held(d) ==
    CASE music.pause = "PAUSE_SONG" -> [d EXCEPT !.suspended = TRUE]
      [] music.pause = "RESUME_SONG" -> [d EXCEPT !.suspended = FALSE, !.late = FALSE]
      [] OTHER -> d

(* NEXT or PREV while a song plays: tell the decoder to end, let it run.      *)
Wanted(m) ==
    IF m.random \/ pl.lost \/ ~ms THEN -1
    ELSE IF m.change_track = 1 THEN Following(m.file) ELSE Preceding(m.file)

Released(m) == IF m.pause = "PAUSED" THEN [m EXCEPT !.pause = "PAUSE_SONG"] ELSE m

(* Mutant: the suspended decoder is not resumed to end itself.                *)
TakeTrackAsleep ==
    /\ pl.at = "loop"
    /\ music.change_track # 0
    /\ LET m == PauseTaken(music)
       IN  /\ music' = Released([TrackChanged(m) EXCEPT !.flags = "DONE"])
           /\ dec' = Held(dec)
           /\ pl' = [pl EXCEPT !.at = "clean", !.want = Wanted(m)]
    /\ UNCHANGED <<ui, hw, ms, heard>>

TakeTrack ==
    /\ pl.at = "loop"
    /\ music.change_track # 0
    /\ LET m == PauseTaken(music)
       IN  /\ music' = Released([TrackChanged(m) EXCEPT !.flags = "DONE"])
           /\ dec' = [Held(dec) EXCEPT !.suspended = IF m.pause = "PAUSED" THEN FALSE ELSE @]
           /\ pl' = [pl EXCEPT !.at = "clean", !.want = Wanted(m)]
    /\ UNCHANGED <<ui, hw, ms, heard>>

DecoderCleaned ==
    /\ pl.at = "clean"
    /\ music.flags = "CLEANED_UP"
    /\ dec' = Nobody
    /\ pl' = [pl EXCEPT !.at = "choose"]
    /\ UNCHANGED <<music, ui, hw, ms, heard>>

(* A round of the loop without a change of track: the song may have ended.    *)
SongEnded ==
    /\ pl.at = "loop"
    /\ music.change_track = 0
    /\ music.flags = "CLEANED_UP"
    /\ music' = PauseTaken(music)
    /\ dec' = Nobody
    /\ pl' = [pl EXCEPT !.at = "ms_ready",
                        !.want = IF music.random \/ pl.lost \/ ~ms THEN -1
                                 ELSE IF music.resume THEN music.file ELSE Following(music.file)]
    /\ UNCHANGED <<ui, hw, ms, heard>>

PauseOrResume ==
    /\ pl.at = "loop"
    /\ music.change_track = 0
    /\ music.flags # "CLEANED_UP"
    /\ music.pause \in {"PAUSE_SONG", "RESUME_SONG"}
    /\ music' = PauseTaken(music)
    /\ dec' = Held(dec)
    /\ UNCHANGED <<pl, ui, hw, ms, heard>>

Playlist ==
    \/ ChooseSong \/ NameSong \/ TitleSong \/ UnpauseWait \/ StartDecoder
    \/ WaitMSReady \/ TakeTrack \/ DecoderCleaned \/ SongEnded \/ PauseOrResume

------------------------------------------------------------------------------
(* The decoders                                                               *)

Ends(r) == [dec EXCEPT !.at = "end", !.pos = 0, !.ret = r]

(* sceIoOpen of the song; the mp3 decoder takes up a resume here.             *)
OpenSong ==
    /\ dec.at = "open" /\ ~dec.suspended
    /\ IF ms
       THEN LET again == Kind[music.file] = "mp3" /\ music.resume
            IN  /\ dec' = [dec EXCEPT !.at = IF again THEN "play" ELSE "header", !.fd = "open",
                                      !.pos = IF again THEN music.offset ELSE 0]
                /\ music' = IF again THEN [music EXCEPT !.resume = FALSE] ELSE music
       ELSE dec' = Ends("ERR") /\ UNCHANGED music
    /\ UNCHANGED <<pl, ui, hw, ms, heard>>

(* The mp3 decoder looks for the first frame, the others read their header    *)
(* and only then take up a resume; a header that cannot be read ends the song *)
(* as if it had been played.                                                  *)
Header(kinds) ==
    /\ dec.at = "header" /\ ~dec.suspended
    /\ Kind[music.file] \in kinds
    /\ IF dec.fd # "open" THEN dec' = Ends("DONE") /\ UNCHANGED music
       ELSE /\ dec' = [dec EXCEPT !.at = "play",
                                  !.pos = IF "mp3" \notin kinds /\ music.resume THEN music.offset ELSE 1]
            /\ music' = IF "mp3" \in kinds THEN music ELSE [music EXCEPT !.resume = FALSE]
    /\ UNCHANGED <<pl, ui, hw, ms, heard>>

(* SeekNextFrame: from the header, or from a frame, to the next frame.        *)
SeekNextFrame(pos) == IF pos = 0 THEN 1 ELSE pos

(* One round of the decoding loop.  offset is where a resume goes on: mp3     *)
(* keeps the position after the frame, the others that of the frame.  Reading *)
(* position 0 as a frame makes the mp3 decoder look for the next one and is a *)
(* decoding error, the end of the song, to the others.                        *)
PlayFrame(kinds) ==
    /\ dec.at = "play" /\ ~dec.suspended
    /\ Kind[music.file] \in kinds
    /\ LET at == IF "mp3" \in kinds THEN SeekNextFrame(dec.pos) ELSE dec.pos
       IN  \/ /\ music.flags # "PLAYING" \/ (dec.fd = "open" /\ at \notin 1 .. Frames)
              /\ dec' = Ends("DONE")
              /\ UNCHANGED <<music, heard>>
           \/ /\ music.flags = "PLAYING" /\ dec.fd # "open"
              /\ dec' = Ends("RESET")
              /\ UNCHANGED <<music, heard>>
           \/ /\ music.flags = "PLAYING" /\ dec.fd = "open" /\ at \in 1 .. Frames
              /\ dec' = [dec EXCEPT !.pos = at + 1]
              /\ music' = [music EXCEPT !.offset = IF "mp3" \in kinds /\ at < Frames THEN at + 1 ELSE at]
              /\ heard' = [song |-> music.file, frame |-> at]
    /\ UNCHANGED <<pl, ui, hw, ms>>

hw_mp3_play == Header({"mp3"}) \/ PlayFrame({"mp3"})

(* hw_at3_play and hw_aa3_play differ in the header they read.                *)
hw_at3_play == Header({"at3", "aa3"}) \/ PlayFrame({"at3", "aa3"})

(* Mutant: a song played to its end leaves its offset behind.                 *)
NotedStale(m, r) == IF r = "DONE" THEN m ELSE [m EXCEPT !.resume = TRUE]

(* HW_MP3PlayFile, HW_AT3PlayFile and HW_AA3PlayFile after the play: note how *)
(* it ended and close the file.  After a failed read a key the playlist has   *)
(* just taken up is lost: the decoder asks for a resume of the same song.     *)
Noted(m, r) == IF r = "DONE" THEN [m EXCEPT !.offset = 0] ELSE [m EXCEPT !.resume = TRUE]

PlayFile ==
    /\ dec.at = "end" /\ ~dec.suspended
    /\ music' = Noted(music, dec.ret)
    /\ dec' = [dec EXCEPT !.at = "cleaned", !.fd = "none", !.ret = "DONE"]
    /\ pl' = IF pl.at = "clean" /\ dec.ret # "DONE" THEN [pl EXCEPT !.want = -1, !.lost = TRUE] ELSE pl
    /\ UNCHANGED <<ui, hw, ms, heard>>

(* ... and say so for ever.                                                   *)
CleanedUp ==
    /\ dec.at = "cleaned" /\ ~dec.suspended
    /\ music.flags # "CLEANED_UP"
    /\ music' = [music EXCEPT !.flags = "CLEANED_UP"]
    /\ UNCHANGED <<pl, dec, ui, hw, ms, heard>>

Decoder == OpenSong \/ hw_mp3_play \/ hw_at3_play \/ PlayFile \/ CleanedUp

------------------------------------------------------------------------------
(* The main thread                                                            *)

(* main_music returns: the music is let go.                                   *)
main_music ==
    /\ ui.at = "starting"
    /\ ui' = [ui EXCEPT !.at = "idle"]
    /\ music' = [music EXCEPT !.random = FALSE, !.pause = "RESUME_SONG"]
    /\ UNCHANGED <<pl, dec, hw, ms, heard>>

Listening == ui.at = "idle" /\ pl.at # "none"

(* CROSS on Play: one read of the field, ...                                  *)
MenuPlay ==
    /\ Listening
    /\ music.pause \in {"PAUSED", "PLAYING"}
    /\ ui' = [ui EXCEPT !.at = IF music.pause = "PAUSED" THEN "saw_PAUSED" ELSE "saw_PLAYING"]
    /\ UNCHANGED <<music, pl, dec, hw, ms, heard>>

(* ... and a write, whatever the playlist thread did in between.              *)
MenuPlayed ==
    \/ /\ ui.at = "saw_PAUSED"
       /\ music' = [music EXCEPT !.pause = "RESUME_SONG"]
       /\ ui' = [ui EXCEPT !.at = "idle", !.is_paused = FALSE]
       /\ UNCHANGED <<pl, dec, hw, ms, heard>>
    \/ /\ ui.at = "saw_PLAYING"
       /\ music' = [music EXCEPT !.pause = "PAUSE_SONG"]
       /\ ui' = [ui EXCEPT !.at = "idle", !.is_paused = TRUE]
       /\ UNCHANGED <<pl, dec, hw, ms, heard>>

MenuTrack ==
    /\ Listening
    /\ \E c \in IF music.random THEN {1} ELSE {-1, 1} : music' = [music EXCEPT !.change_track = c]
    /\ UNCHANGED <<pl, dec, ui, hw, ms, heard>>

(* CROSS on Random: the flag, the two parts of ResetPlaylist, then NEXT.      *)
MenuRandom ==
    /\ \/ /\ Listening
          /\ music' = [music EXCEPT !.random = ~@]
          /\ ui' = [ui EXCEPT !.at = "flipped"]
       \/ /\ ui.at = "flipped"
          /\ music' = Rewind(music)
          /\ ui' = [ui EXCEPT !.at = "rewound"]
       \/ /\ ui.at = "rewound"
          /\ music' = [music EXCEPT !.random_played = Blank]
          /\ ui' = [ui EXCEPT !.at = "wiped"]
       \/ /\ ui.at = "wiped"
          /\ music' = [music EXCEPT !.change_track = 1]
          /\ ui' = [ui EXCEPT !.at = "idle"]
    /\ pl' = [pl EXCEPT !.want = -1, !.lost = TRUE]
    /\ UNCHANGED <<dec, hw, ms, heard>>

(* CROSS on Stop, and the first half of a restart: both threads are ended     *)
(* wherever they are, the codec's memory is freed and hw_init stays.  The     *)
(* Playlist is freed too: what it holds from then on is not read.             *)
module_reboot_before ==
    /\ Listening
    /\ ui.mishaps < MaxMishaps
    /\ ui' = [ui EXCEPT !.mishaps = @ + 1]
    /\ pl' = [pl EXCEPT !.at = "none", !.song = -1, !.want = -1]
    /\ dec' = Nobody
    /\ hw' = [hw EXCEPT !.codec = IF @ = "held" THEN "freed" ELSE @]
    /\ music' = InitPlaylist
    /\ UNCHANGED <<ms, heard>>

(* Start in the music menu, then main_music up to InitPlaylist.               *)
RestartMusic ==
    /\ ui.at = "idle" /\ pl.at = "none"
    /\ ms
    /\ ui' = [ui EXCEPT !.at = "starting"]
    /\ music' = InitPlaylist
    /\ pl' = [at |-> "choose", song |-> -1, want |-> -1, lost |-> FALSE]
    /\ UNCHANGED <<dec, hw, ms, heard>>

(* The memory stick goes away (usb mode, suspend, taken out), files open on   *)
(* it with it, and comes back.  WaitMSReady has seen it just before a start,  *)
(* so it stays until the first song has its name.                             *)
StickOut ==
    /\ ms /\ ui.mishaps < MaxMishaps /\ (pl.at = "none" \/ music.file # -1)
    /\ ms' = FALSE
    /\ ui' = [ui EXCEPT !.mishaps = @ + 1]
    /\ dec' = [dec EXCEPT !.fd = IF @ = "open" THEN "stale" ELSE @]
    /\ pl' = [pl EXCEPT !.want = -1]
    /\ UNCHANGED <<music, hw, heard>>
StickIn ==
    /\ ~ms
    /\ ms' = TRUE
    /\ UNCHANGED <<music, pl, dec, ui, hw, heard>>

MenuStep == MenuPlayed \/ (ui.at # "idle" /\ MenuRandom)
Next ==
    \/ Playlist \/ Decoder \/ main_music \/ MenuPlay \/ MenuPlayed \/ MenuTrack
    \/ MenuRandom \/ module_reboot_before \/ RestartMusic \/ StickOut \/ StickIn

Spec == Init /\ [][Next]_vars

(* The threads are scheduled, the main thread finishes what it began, and the *)
(* stick comes back.                                                          *)
Fairness ==
    WF_vars(Playlist) /\ WF_vars(Decoder) /\ WF_vars(main_music) /\ WF_vars(MenuStep) /\ WF_vars(StickIn)

FairSpec == Spec /\ Fairness

------------------------------------------------------------------------------
(* Paused music is silent: while the field says PAUSED no decoder runs but    *)
(* one whose song began under the pause, because the song before it ended as  *)
(* the pause came (lines 408 to 462 of music.c).                              *)
PausedQuiet ==
    music.pause = "PAUSED" /\ dec.at \in {"open", "header", "play"} => dec.suspended \/ dec.late

(* What the menu shows agrees with what it asked for last: nothing the        *)
(* playlist thread does to the pause field while a key is handled is lost     *)
(* (lines 866 to 881 and 410 to 444 of music.c).  A restart forgets the flag. *)
PauseShown ==
    Listening /\ hw.codec # "freed" => (ui.is_paused <=> music.pause \in {"PAUSE_SONG", "PAUSED"})

(* A pause is what the menu shows and what is heard.                          *)
PauseTrue == TypeOK /\ PausedQuiet /\ PauseShown

(* The song that plays is the one the listener expects: the next one, the one *)
(* before, or the same one after a failed read (lines 261 to 304, 421 to 451  *)
(* of music.c), unless Random has been pressed since it was chosen or the     *)
(* stick was away while a name was read or a key taken up.                    *)
SongWanted == [][pl.at = "start" /\ pl.want # -1 /\ dec'.at = "open" => music.file = pl.want]_vars

(* No song comes twice in a round of random play, whatever the menu rewinds   *)
(* under the playlist thread (lines 264 to 285 of music.c).                   *)
RoundDistinct ==
    \A i, j \in 0 .. music.random_index - 1 :
        i # j /\ music.random_played[i] # -1 => music.random_played[i] # music.random_played[j]

(* The order of the songs, in turn and at random.                             *)
RightSong == []RoundDistinct /\ SongWanted

(* A song is heard from its first frame or goes on where it broke off, never  *)
(* at a place another song left behind (music->offset and music->resume).     *)
Resumed ==
    [][heard' # heard =>
         \/ heard'.frame = 1
         \/ heard'.song = heard.song /\ heard'.frame \in {heard.frame, heard.frame + 1}]_vars

(* NEXT and PREV are taken up in the end, in whatever state the decoder is,   *)
(* unless Random is pressed for ever and every round starts with a file of no *)
(* known type, where keys are not looked at (lines 370 to 381 of music.c).    *)
TrackHandled ==
    <>[][~MenuRandom]_vars => (music.change_track # 0 ~> (music.change_track = 0 \/ pl.at = "none"))

(* A decoder decodes into memory that is still allocated.                     *)
CodecHeld == dec.at = "play" => hw.codec = "held"

==============================================================================
