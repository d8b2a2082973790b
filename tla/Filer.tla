-------------------------------- MODULE Filer --------------------------------
(* filer.c, the file browser of the menu: it loads a plugin, or chooses the   *)
(* folder of the music or of the screenshots.  A path is the sequence of the  *)
(* names below ms0:/ and has a length in characters; drawing is left out.     *)
EXTENDS Integers, Sequences, SequencesExt, Functions, FiniteSetsExt

CONSTANTS
    Tree,       \* what the stick holds: the names in every directory, by path
    Plugins,    \* names that end in .prx or .PRX
    NameLength, \* characters of a name
    MaxPath,    \* MAXPATH
    MaxDepth,   \* MAXDEPTH
    MaxDirNum,  \* MAXDIRNUM
    Rows        \* lines on the screen: 12

ASSUME FilerAssumption ==
    /\ <<>> \in DOMAIN Tree
    /\ \A d \in DOMAIN Tree : {d, Tree[d]} \subseteq Seq(DOMAIN NameLength)
    /\ {MaxPath, MaxDepth, MaxDirNum, Rows} \subseteq Nat \ {0}

VARIABLE
    filer  \* its globals; chosen: prx_path; over: now_path was written past its end (history)

Places == [start |-> 0, pos |-> 0]

FilerClosed ==
    [open |-> FALSE, path |-> <<>>, list |-> <<>>, start |-> 0, pos |-> 0, depth |-> 0,
     cbuf |-> <<>>, chosen |-> <<>>, over |-> FALSE]

FilerInit == filer = FilerClosed

(* "ms0:/" and, for every name, the name and a slash.                         *)
Chars(path) == FoldSeq(LAMBDA n, c : c + NameLength[n] + 1, 5, path)

(* now_path has room for it and the 0 at its end.                             *)
Room(path) == Chars(path) < MaxPath

ASSUME RootFits == Room(<<>>)

Entry(f) == f.list[f.pos + 1]
NoDir(f) == f.list = <<>>
IsDirectory(f) == Append(f.path, Entry(f)) \in DOMAIN Tree

Clamped(i, n) == Max({0, Min({i, n - 1})})

(* Get_DirList reads what is there, or nothing when the stick is away, and    *)
(* pulls the cursor and the first line back into the list.                    *)
ListRead(f, l) == [f EXCEPT !.list = l, !.start = Clamped(@, Len(l)), !.pos = Clamped(@, Len(l))]

Listing(path) ==
    IF path \in DOMAIN Tree THEN SubSeq(Tree[path], 1, Min({MaxDirNum, Len(Tree[path])})) ELSE <<>>

Get_DirList(f) == {ListRead(f, l) : l \in {Listing(f.path), <<>>}}

filer_on ==
    /\ ~filer.open
    /\ \E f \in Get_DirList([FilerClosed EXCEPT !.over = filer.over]) :
           filer' = [f EXCEPT !.open = TRUE, !.start = 0, !.pos = 0]

FilerUp ==
    /\ filer.open /\ filer.pos > 0
    /\ filer' = [filer EXCEPT !.pos = @ - 1, !.start = Min({@, filer.pos - 1})]

Scrolled(start, pos) == IF pos >= start + Rows THEN start + 1 ELSE start

FilerDown ==
    /\ filer.open /\ filer.pos < Len(filer.list) - 1
    /\ filer' = [filer EXCEPT !.pos = @ + 1, !.start = Scrolled(@, filer.pos + 1)]

(* CROSS on a directory: the place in this one is kept.  A path with no room   *)
(* for its 0 in now_path goes on in whatever the link has put there.           *)
FilerEnter ==
    /\ filer.open /\ ~NoDir(filer) /\ IsDirectory(filer) /\ filer.depth < MaxDepth
    /\ filer' \in Get_DirList(
           [filer EXCEPT !.path = Append(@, Entry(filer)), !.depth = @ + 1, !.start = 0, !.pos = 0,
                         !.over = @ \/ ~Room(Append(filer.path, Entry(filer))),
                         !.cbuf = Append(SubSeq(@, 1, filer.depth), [start |-> filer.start, pos |-> filer.pos])])

(* CROSS on a plugin, when one is asked for.  The end of a name is looked for *)
(* in its first MAXPATH characters.                                           *)
FilerPlugin ==
    /\ filer.open /\ ~NoDir(filer) /\ ~IsDirectory(filer)
    /\ Entry(filer) \in Plugins /\ NameLength[Entry(filer)] < MaxPath
    /\ filer' = [filer EXCEPT !.open = FALSE, !.chosen = Append(filer.path, Entry(filer))]

(* The end of the path is looked for in its first MAXPATH characters, then    *)
(* the slash before it: a longer path loses more than one name.               *)
Parents(path) == {k \in 0 .. Len(path) - 1 : Room(SubSeq(path, 1, k))}
Cut(path) == IF path = <<>> THEN path ELSE SubSeq(path, 1, Max(Parents(path)))

(* Mutant: the place is taken before the depth is counted down.               *)
PlaceKeptDeep(f) == IF f.depth + 1 \in DOMAIN f.cbuf THEN f.cbuf[f.depth + 1] ELSE Places

PlaceKept(f) == f.cbuf[f.depth]

FilerBack ==
    /\ filer.open /\ filer.depth > 0
    /\ filer' \in Get_DirList(
           [filer EXCEPT !.path = Cut(@), !.depth = @ - 1,
                         !.start = PlaceKept(filer).start, !.pos = PlaceKept(filer).pos])

FilerLeave ==
    /\ filer.open /\ filer.depth = 0
    /\ filer' = [filer EXCEPT !.open = FALSE]

(* SQUARE, when a folder is asked for: the entry, whatever it is; without one, *)
(* what Get_DirList has passed over last, or no name when it read nothing.     *)
FilerSquare ==
    /\ filer.open
    /\ \E chosen \in IF NoDir(filer) THEN {filer.path} \cup {Append(filer.path, n) : n \in {".", ".."}}
                     ELSE {Append(filer.path, Entry(filer))} :
           filer' = [filer EXCEPT !.open = FALSE, !.chosen = chosen]

FilerMoves == FilerUp \/ FilerDown

------------------------------------------------------------------------------
(* The cursor is on the screen and in the list, also after the list has       *)
(* become shorter or empty, until a path was too long for now_path (lines 31   *)
(* to 78 of filer.c).                                                         *)
CursorShown ==
    filer.open /\ ~filer.over =>
        /\ filer.pos \in filer.start .. filer.start + Rows - 1
        /\ NoDir(filer) \/ filer.pos < Len(filer.list)

(* CIRCLE leads to the parent directory, the cursor on the directory that was *)
(* left, if the parent can be read, until a path was too long for now_path     *)
(* (lines 130 to 156 of filer.c).                                             *)
Returned ==
    [][filer.open /\ filer'.depth = filer.depth - 1 /\ ~filer.over /\ filer'.list # <<>> =>
           filer'.path = Front(filer.path) /\ Entry(filer') = Last(filer.path)]_filer

(* The browser is always where the user thinks it is.                         *)
PlaceRight == []CursorShown /\ Returned

==============================================================================
