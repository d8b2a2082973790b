-------------------------------- MODULE Conf --------------------------------
(* The folders of the music and of the screenshots in the settings of cfe_main: *)
(* filer.c copies the one that was chosen into the globals, write_config puts  *)
(* both into vsh.cfg, read_config (conf.c) takes them out again after a reboot: *)
(* lines of at most LineMax characters, taken apart by get_tokens.  A text is a *)
(* sequence of characters: "c" and "m" stand for the words capture_folder and  *)
(* music_folder, "w" for any other character that isvalidvarchar takes (but    *)
(* "=", one of its own), "q" for the quote, "." for the rest but a blank and    *)
(* the two that begin a comment.                                               *)
EXTENDS Integers, Sequences

CONSTANTS
    Folders,    \* what the browser may choose
    LineMax,    \* max of read_line: 127
    CaptureMax, \* size of capture_folder (64); music_folder comes right after it
    CfgLine     \* size of music_folder and of the line write_config makes: 256

Word == {"w", "c", "m"}
Character == Word \cup {"=", " ", "#", ";", "q", "."}

(* A line holds at least the beginning of that of a folder; the file system   *)
(* has no name with a quote; what is longer than CfgLine is left out: it       *)
(* overruns the stack of write_config.                                         *)
ASSUME ConfAssumption ==
    /\ LineMax \in Nat /\ LineMax >= 6
    /\ CaptureMax \in Nat \ {0} /\ CfgLine \in Nat
    /\ Folders \subseteq Seq(Character \ {"q"})
    /\ \A f \in Folders : CaptureMax + Len(f) + 7 < CfgLine

VARIABLES
    config,  \* the two globals, each up to its 0 or its end
    file,    \* the lines of the two in vsh.cfg, empty when missing
    at,      \* "menu", or the line write_config comes to next
    chosen,  \* history: what the user has chosen, and finds again after a reboot
    saved    \* history: what was chosen when the file was written

confVars == <<config, file, at, chosen, saved>>

Lost == <<"q">>  \* nothing is said of it
Empty == [capture |-> <<>>, music |-> <<>>]

Least(a, b) == IF a < b THEN a ELSE b

------------------------------------------------------------------------------
(* One character of get_tokens: where it is in the two tokens.                *)
Start == [tokens |-> <<>>, token |-> <<>>, in |-> FALSE, string |-> FALSE, stop |-> FALSE, bad |-> FALSE]

Ended(k) == [k EXCEPT !.tokens = Append(@, k.token), !.token = <<>>, !.in = FALSE]
Put(k, ch) == [k EXCEPT !.token = Append(@, ch), !.in = TRUE]

Quote(k, next) ==
    IF k.in /\ ((~k.string /\ k.token # <<>>) \/ (k.string /\ next \in Word \cup {"="}))
    THEN [k EXCEPT !.bad = TRUE]
    ELSE [Put(k, "q") EXCEPT !.string = ~k.string]

(* Mutant: a comment begins inside a string too.                              *)
CommentAnywhere(k, ch) == ch \in {"#", ";"}

Comment(k, ch) == ~k.string /\ ch \in {"#", ";"}

Char(k, ch, next) ==
    CASE k.stop \/ k.bad \/ Len(k.tokens) = 2 -> k
      [] Comment(k, ch)                       -> [(IF k.in THEN Ended(k) ELSE k) EXCEPT !.stop = TRUE]
      [] ch \in {" ", "="}                    -> IF ~k.in THEN k ELSE IF k.string THEN Put(k, ch) ELSE Ended(k)
      [] ch = "q"                             -> Quote(k, next)
      [] ch \in Word                          -> Put(k, ch)
      [] OTHER                                -> IF k.string THEN Put(k, ch) ELSE k

(* Where it is after each character of a line.                                *)
Scan(line) ==
    LET k[i \in 0 .. Len(line)] ==
            IF i = 0 THEN Start
            ELSE Char(k[i - 1], line[i], IF i < Len(line) THEN line[i + 1] ELSE "end")
    IN  k

(* get_tokens: the tokens of a line, none when a string is not terminated.    *)
get_tokens(line) ==
    LET k == Scan(line)[Len(line)]
        open == ~k.stop /\ Len(k.tokens) < 2
    IN  IF k.bad \/ (open /\ k.string) THEN <<>>
        ELSE IF open /\ k.in THEN Ended(k).tokens ELSE k.tokens

(* get_string: what is between the quotes, cut at max; when that many are      *)
(* left, the buffer has no room for the 0.                                     *)
get_string(token, max) ==
    LET ends == {i \in 2 .. Len(token) : token[i] = "q"}
        end == CHOOSE i \in ends : \A j \in ends : i <= j
    IN  IF token = <<>> \/ token[1] # "q" \/ ends = {} THEN <<>>
        ELSE SubSeq(token, 2, IF end - 2 > max THEN max + 1 ELSE end - 1)

(* What one line changes: the settings of the other keys are left out.        *)
ReadLine(c, line) ==
    LET tokens == get_tokens(line)
    IN  IF Len(tokens) = 2 /\ tokens[1] = <<"c">>
        THEN [c EXCEPT !.capture = get_string(tokens[2], CaptureMax)]
        ELSE IF Len(tokens) = 2 /\ tokens[1] = <<"m">>
        THEN [c EXCEPT !.music = get_string(tokens[2], CfgLine)]
        ELSE c

(* read_line stops after LineMax characters and goes on there: the rest of a  *)
(* longer text is taken for further lines.                                    *)
read_line(text, i) == SubSeq(text, (i - 1) * LineMax + 1, Least(i * LineMax, Len(text)))

ReadText(c, text) ==
    LET n == (Len(text) + LineMax - 1) \div LineMax
        r[i \in 0 .. n] == IF i = 0 THEN c ELSE ReadLine(r[i - 1], read_line(text, i))
    IN  r[n]

read_config(f) == ReadText(ReadText(Empty, f.capture), f.music)

(* The line of a folder in write_config: music_folder = "...";                *)
FolderLine(key, f) == <<key, " ", "=", " ", "q">> \o f \o <<"q", ";">>

(* capture_folder as a string: up to the first 0, which may be music_folder's. *)
capture_folder(c) == c.capture \o (IF Len(c.capture) < CaptureMax THEN <<>> ELSE c.music)

(* strcpy of a folder into capture_folder, and on into music_folder.          *)
CaptureCopied(c, f) ==
    [capture |-> SubSeq(f, 1, Least(Len(f), CaptureMax)),
     music   |-> IF Len(f) < CaptureMax THEN c.music ELSE SubSeq(f, CaptureMax + 1, Len(f))]

------------------------------------------------------------------------------
ConfInit ==
    /\ config = Empty
    /\ file = Empty
    /\ at = "menu"
    /\ chosen = Empty
    /\ saved = Empty

(* SQUARE in the browser.                                                     *)
ChooseMusic(f) ==
    /\ at = "menu"
    /\ config' = [config EXCEPT !.music = f]
    /\ chosen' = [chosen EXCEPT !.music = f]
    /\ UNCHANGED <<file, at, saved>>

ChooseCapture(f) ==
    /\ at = "menu"
    /\ config' = CaptureCopied(config, f)
    /\ chosen' = IF Len(f) < CaptureMax THEN [chosen EXCEPT !.capture = f]
                 ELSE [capture |-> Lost, music |-> Lost]
    /\ UNCHANGED <<file, at, saved>>

(* write_config: the file is removed and written line by line.  A line that   *)
(* read_line will cut says nothing of either folder.                          *)
LineFits(f) == Len(f) + 6 <= LineMax

RemoveFile ==
    /\ at = "menu"
    /\ file' = Empty
    /\ at' = "capture"
    /\ saved' = Empty
    /\ UNCHANGED <<config, chosen>>

WriteCapture ==
    /\ at = "capture"
    /\ file' = [file EXCEPT !.capture = FolderLine("c", capture_folder(config))]
    /\ at' = "music"
    /\ saved' = IF LineFits(capture_folder(config)) THEN [saved EXCEPT !.capture = chosen.capture]
                ELSE [capture |-> Lost, music |-> Lost]
    /\ UNCHANGED <<config, chosen>>

WriteMusic ==
    /\ at = "music"
    /\ file' = [file EXCEPT !.music = FolderLine("m", config.music)]
    /\ at' = "menu"
    /\ saved' = IF LineFits(config.music) THEN [saved EXCEPT !.music = chosen.music]
                ELSE [capture |-> Lost, music |-> Lost]
    /\ UNCHANGED <<config, chosen>>

(* Switched off and on, or the power lost inside write_config: threadMain     *)
(* reads the file.                                                            *)
Reboot ==
    /\ config' = read_config(file)
    /\ at' = "menu"
    /\ chosen' = saved
    /\ UNCHANGED <<file, saved>>

ConfNext ==
    \/ \E f \in Folders : ChooseMusic(f) \/ ChooseCapture(f)
    \/ RemoveFile \/ WriteCapture \/ WriteMusic
    \/ Reboot

ConfSpec == ConfInit /\ [][ConfNext]_confVars

------------------------------------------------------------------------------
(* Both folders are what the user chose last, and after a reboot what was      *)
(* chosen when the file was written, or empty when the power was lost before   *)
(* their line: over any choices, saves and losses, whatever the names are made *)
(* of.  Nothing is said of a line that read_line cuts, nor, until they are     *)
(* chosen anew, after a folder for the screenshots that does not fit into its  *)
(* buffer with a 0 at the end: it runs into the one of the music (lines 27 to  *)
(* 160 and 190 to 354 of conf.c, 286 to 295 of filer.c).                       *)
FoldersKept ==
    /\ chosen.capture # Lost => capture_folder(config) = chosen.capture
    /\ chosen.music # Lost => config.music = chosen.music

==============================================================================
