------------------------------- MODULE Files -------------------------------
(***************************************************************************)
(* Files and directories (src/tsys/tbfiles.cpp) over a system, which is    *)
(* external: its paths are sequences of names, at has what stands at each  *)
(* path, order is the order in which names are listed, fails are the calls *)
(* the system refuses, net says that paths begin with a slash, so that     *)
(* MakeDir takes their first two names for a host and its share, and env   *)
(* has the variables a path can be written with.  os chooses the half of   *)
(* the file that is built.                                                 *)
(***************************************************************************)
EXTENDS Integers, Sequences, SequencesExt, FiniteSetsExt

CONSTANTS
  DirBuffer,   \* entries erase_dir and copy_dir take of a directory
  FileBuffer   \* bytes cmp_content_files compares at once

ASSUME FilesAssumption == DirBuffer \in Nat /\ FileBuffer \in Nat \ {0}

-----------------------------------------------------------------------------
(* The system. *)

FileOf(d) == [etype |-> "efat_FILE", data |-> d]
Directory == [etype |-> "efat_DIR", data |-> <<>>]
IsThere(fs, p) == p \in DOMAIN fs.at
IsA(fs, p, etype) == IsThere(fs, p) /\ fs.at[p].etype = etype
HasPlace(fs, p) == Len(p) = 1 \/ IsA(fs, Front(p), "efat_DIR")
Denied(fs, call, p) == <<call, p>> \in fs.fails
Names(fs, p) == SelectSeq(fs.order, LAMBDA n : IsThere(fs, Append(p, n)))
With(fs, p, e) == [fs EXCEPT !.at = (p :> e) @@ @]
Without(fs, p) == [fs EXCEPT !.at = [q \in DOMAIN @ \ {p} |-> @[q]]]
OnLinux(fs) == fs.os = "linux"
\* What GetLastError says of a call at a path that did not succeed.
LastError(fs, p) ==
  IF IsThere(fs, p) THEN "ERROR_ACCESS_DENIED" ELSE IF HasPlace(fs, p) THEN "ERROR_FILE_NOT_FOUND" ELSE "ERROR_PATH_NOT_FOUND"

\* What a call returns, and the system behind it.
Did(fs, ret) == [fs |-> fs, ret |-> ret]
\* Over a list, until a call returns an error.
UntilError(list, step(_, _), start) ==
  FoldLeft(LAMBDA st, e : IF st.ret # 0 THEN st ELSE step(st, e), start, list)

-----------------------------------------------------------------------------
(* What stands at a path. *)

WinErrorToErr(err) ==
  CASE err = "ERROR_FILE_NOT_FOUND" -> "esyse_FILENOTEXIST"
    [] err = "ERROR_PATH_NOT_FOUND" -> "esyse_PATHNOTEXIST"
    [] err = "ERROR_ACCESS_DENIED"  -> "esyse_ACCESSDENIED"
linuxerrconvert(err) ==
  CASE err = 2 -> "esyse_FILENOTEXIST" [] err = 20 -> "esyse_PATHNOTEXIST" [] err = 40 -> "esyse_LINKERROR"
    [] err \in {14, 36} -> "esyse_INVALIDPARAM" [] err = 13 -> "esyse_ACCESSDENIED" [] err = 12 -> "esyse_NOT_ENOUTH_MEM"
    [] OTHER -> "esyse_GENERALFAILURE"
\* On Linux what is converted is the result of stat, not errno.
NoInfo(fs, p) == IF OnLinux(fs) THEN linuxerrconvert(-1) ELSE WinErrorToErr(LastError(fs, p))
file_getinfo(fs, p) ==
  IF IsThere(fs, p) /\ ~Denied(fs, "info", p) THEN [err |-> "esyse_OK", etype |-> fs.at[p].etype]
  ELSE [err |-> NoInfo(fs, p), etype |-> "none"]
ExistsAs(fs, p, etype) ==
  LET inf == file_getinfo(fs, p)
  IN  IF inf.err = "esyse_OK" /\ inf.etype # etype THEN "esyse_FILENOTEXIST" ELSE inf.err
fileexist(fs, p) == ExistsAs(fs, p, "efat_FILE") = "esyse_OK"
direxist(fs, p) == ExistsAs(fs, p, "efat_DIR") = "esyse_OK"

\* c_directory: the entries with the two for itself and its parent in front; on Linux getentry
\* returns before it has read one.
Opens(fs, p) == IsA(fs, p, "efat_DIR") /\ ~Denied(fs, "list", p)
Dots == <<".", "..">>
IsDots(n) == n \in {".", ".."}
Listed(fs, p) == IF OnLinux(fs) \/ ~Opens(fs, p) THEN <<>> ELSE Dots \o Names(fs, p)
\* The two count among the cnt that are read.
getentrys(fs, p, cnt) ==
  LET all == Listed(fs, p)
  IN  SelectSeq(IF cnt = -1 \/ Len(all) < cnt THEN all ELSE SubSeq(all, 1, cnt), LAMBDA n : ~IsDots(n))
getDirItems(fs, p, cnt) == [open |-> Opens(fs, p), list |-> getentrys(fs, p, cnt)]

-----------------------------------------------------------------------------
(* Contents. *)

\* fopen opens a directory on Linux, but nothing can be read of it.
CanRead(fs, p) == ~Denied(fs, "open", p) /\ (IsA(fs, p, "efat_FILE") \/ (OnLinux(fs) /\ IsThere(fs, p)))
CanWrite(fs, p) == ~Denied(fs, "open", p) /\ HasPlace(fs, p) /\ ~IsA(fs, p, "efat_DIR")
Emptied(fs, p) == IF CanWrite(fs, p) THEN With(fs, p, FileOf(<<>>)) ELSE fs

readstrfromfile(fs, p) == IF CanRead(fs, p) THEN fs.at[p].data ELSE <<>>
\* closed: how often the file is closed; twice is undefined behaviour, which this model passes over.
writedata2file(fs, p, d) ==
  IF CanWrite(fs, p) THEN Did(With(fs, p, FileOf(d)), 1) @@ [closed |-> 2] ELSE Did(fs, 0) @@ [closed |-> 0]
\* The target is opened, and so emptied, before it is known that the source can be read.
copyfile_d(fs, dst, src) ==
  LET opened == Emptied(fs, dst)
  IN  IF ~CanRead(fs, src) \/ ~CanWrite(fs, dst) THEN Did(opened, 1) @@ [closed |-> 1]
      ELSE Did(With(opened, dst, FileOf(opened.at[src].data)), 0) @@ [closed |-> 2]

NullRead == -3   \* the second file is not looked at: it is read through a null pointer
Block(d, offs) == SubSeq(d, offs, Min({Len(d), offs + (FileBuffer - 1)}))
cmp_content_files(fs, l, r) ==
  LET a == fs.at[l].data
      b == fs.at[r].data
      from[offs \in 1 .. Len(a) + 1] ==
        CASE Block(a, offs) # Block(b, offs) -> offs
          [] Block(a, offs) = <<>> -> 0
          [] OTHER -> from[offs + Len(Block(a, offs))]
  IN  IF ~CanRead(fs, l) THEN -1 ELSE IF ~CanRead(fs, r) THEN NullRead ELSE from[1]

\* <<>> is the empty text; the variables of a path are expanded before it is looked for.
expand_environment_string(fs, p) == FlattenSeq([i \in DOMAIN p |-> IF p[i] \in DOMAIN fs.env THEN fs.env[p[i]] ELSE <<p[i]>>])
findfile(fs, dirlist, filename) ==
  LET look(f, d) ==
        LET e == expand_environment_string(fs, d \o filename)
        IN  IF f = <<>> /\ fileexist(fs, e) THEN e ELSE f
  IN  FoldLeft(look, <<>>, dirlist)

-----------------------------------------------------------------------------
(* One file, one directory. *)

Removed(fs, p, can) == IF can /\ ~Denied(fs, "remove", p) THEN Did(Without(fs, p), 0) ELSE Did(fs, 1)
EmptyDir(fs, p) == IsA(fs, p, "efat_DIR") /\ Names(fs, p) = <<>>
remove_epmty_direcory(fs, p) == Removed(fs, p, EmptyDir(fs, p))
\* On Linux remove takes an empty directory too, and what it returns is not told.
remove(fs, p) == Did(Removed(fs, p, IsA(fs, p, "efat_FILE") \/ EmptyDir(fs, p)).fs, 0)
delete_file(fs, p) == IF OnLinux(fs) THEN remove(fs, p) ELSE Removed(fs, p, IsA(fs, p, "efat_FILE"))

\* Windows writes over a file; std::filesystem::copy copies into a directory, and over nothing.
Copied(fs, dst, src, can) ==
  IF can /\ IsA(fs, src, "efat_FILE") /\ HasPlace(fs, dst) /\ ~IsA(fs, dst, "efat_DIR") /\ ~Denied(fs, "copy", dst)
  THEN Did(With(fs, dst, fs.at[src]), 0) ELSE Did(fs, 1)
\* Both names are converted with one buffer, which tocstr does not use for a text that has data.
std_copy(fs, dst, src) ==
  LET to == IF IsA(fs, dst, "efat_DIR") THEN Append(dst, Last(src)) ELSE dst IN Copied(fs, to, src, ~IsThere(fs, to))
copy_file(fs, dst, src) == IF OnLinux(fs) THEN std_copy(fs, dst, src) ELSE Copied(fs, dst, src, TRUE)

CanMake(fs, p) == HasPlace(fs, p) /\ ~Denied(fs, "make", p)
\* What is there already, be it a file, is taken for made.
win_makedir(fs, p) ==
  IF IsThere(fs, p) THEN Did(fs, 0) ELSE IF CanMake(fs, p) THEN Did(With(fs, p, Directory), 0) ELSE Did(fs, 1)
\* The directory itself or, when that fails, every directory on the way, behind the share.
MakeWay(fs, p) ==
  LET way == SelectSeq([k \in 1 .. Len(p) |-> SubSeq(p, 1, k)], LAMBDA q : fs.net => Len(q) >= 3)
      all == UntilError(way, LAMBDA st, q : win_makedir(st.fs, q), Did(fs, 0))
      first == win_makedir(fs, p)
      r == IF first.ret = 0 THEN first ELSE all
  IN  IF p = <<>> THEN Did(fs, FALSE) ELSE Did(r.fs, r.ret = 0)
mkdir(fs, p) ==
  IF p # <<>> /\ ~IsThere(fs, p) /\ CanMake(fs, p) THEN Did(With(fs, p, Directory), TRUE) ELSE Did(fs, FALSE)
MakeDir(fs, p) == IF OnLinux(fs) THEN mkdir(fs, p) ELSE MakeWay(fs, p)

-----------------------------------------------------------------------------
(* Whole trees. *)

\* The callback is told a name and whether it is a directory, and says with stop that it has enough.
Told(st, fn, isdir, stop) == [seen |-> Append(st.seen, [fn |-> fn, isdir |-> isdir]), ret |-> IF fn \in stop THEN 1 ELSE 0]
Entries(fs, p) == SelectSeq(Listed(fs, p), LAMBDA n : ~IsDots(n))
CannotOpen == 11

RECURSIVE WalkAll(_, _, _, _)
WalkAll(fs, dirname, stop, st0) ==
  LET step(st, n) ==
        LET full == Append(dirname, n)
        IN  IF IsA(fs, full, "efat_DIR") THEN WalkAll(fs, full, stop, st) ELSE Told(st, full, FALSE, stop)
  IN  IF fileexist(fs, dirname) THEN Told(st0, dirname, FALSE, stop)
      ELSE IF ~Opens(fs, dirname) THEN [st0 EXCEPT !.ret = CannotOpen]
      ELSE UntilError(Entries(fs, dirname), step, st0)
foreach_files_i(fs, dirname, stop) == WalkAll(fs, dirname, stop, [seen |-> <<>>, ret |-> 0])
get_all_files(fs, dirname) == LET seen == foreach_files_i(fs, dirname, {}).seen IN [i \in DOMAIN seen |-> seen[i].fn]

RECURSIVE frnd(_, _, _, _, _, _)
frnd(fs, base, rel, options, stop, st0) ==
  LET step(st, n) ==
        LET file == Append(rel, n)
            fn == IF "efReadDir_RelFileName" \in options THEN file ELSE base \o file
            dir == IF "efReadDir_IncDirs" \in options THEN Told(st, fn, TRUE, stop) ELSE st
        IN  IF ~IsA(fs, base \o file, "efat_DIR") THEN Told(st, fn, FALSE, stop)
            ELSE IF dir.ret # 0 THEN dir ELSE frnd(fs, base, file, options, stop, dir)
  IN  IF ~Opens(fs, base \o rel) THEN [st0 EXCEPT !.ret = CannotOpen]
      ELSE UntilError(Entries(fs, base \o rel), step, st0)
\* What the walk returned is not told.
foreach_files(fs, base, options, stop) == [frnd(fs, base, <<>>, options, stop, [seen |-> <<>>, ret |-> 0]) EXCEPT !.ret = 0]
readDirectory(fs, base, options) ==
  LET seen == foreach_files(fs, base, options, {}).seen IN [i \in DOMAIN seen |-> seen[i].fn]

DeleteFilesDir(fs, path) ==
  Did(FoldLeft(LAMBDA s, n : delete_file(s, Append(path, n)).fs, fs, Entries(fs, path)), 0)

RECURSIVE erase_dir(_, _)
erase_dir(fs, path) ==
  LET items == getDirItems(fs, path, DirBuffer)
      step(st, n) ==
        LET full == Append(path, n)
            sub == erase_dir(st.fs, full)
        IN  IF ~IsA(fs, full, "efat_DIR") THEN delete_file(st.fs, full)
            ELSE IF sub.ret # 0 THEN sub ELSE remove_epmty_direcory(sub.fs, full)
  IN  IF ~direxist(fs, path) THEN Did(fs, 0)
      ELSE IF ~items.open THEN Did(fs, -1)
      ELSE UntilError(items.list, step, Did(fs, 0))

RECURSIVE copy_dir(_, _, _)
copy_dir(fs, dest, src) ==
  LET items == getDirItems(fs, src, DirBuffer)
      step(st, n) ==
        LET s == Append(src, n)
            d == Append(dest, n)
        IN  IF IsA(fs, s, "efat_DIR") THEN copy_dir(MakeDir(st.fs, d).fs, d, s) ELSE copy_file(st.fs, d, s)
  IN  IF items.open THEN UntilError(items.list, step, Did(fs, 0)) ELSE Did(fs, -1)

-----------------------------------------------------------------------------
(* What is promised, for one system and one call. *)

Under(fs, p) == {q \in DOMAIN fs.at : IsStrictPrefix(p, q)}
Fits(fs, p) == Len(Names(fs, p)) + 2 <= DirBuffer
PathFrom(p, q) == SubSeq(q, Len(p) + 1, Len(q))
SameAt(f, g, p) == (IsThere(f, p) <=> IsThere(g, p)) /\ (IsThere(f, p) => f.at[p] = g.at[p])
AllOpen(fs, p) == \A q \in Under(fs, p) \cup {p} : IsA(fs, q, "efat_DIR") => Opens(fs, q)

\* copy_dir keeps all there is and changes nothing that is not below the target, but makes the
\* way there.  When it says that it has copied a tree whose directories fit its list, each file
\* has its copy and so has each directory, but for an empty one whose place is taken or refused;
\* when it says it has not, a call was refused, a place taken or the target not there.  On Linux it copies nothing.
CopyMeansSame(fs, dest, src) ==
  LET r == copy_dir(fs, dest, src)
      tree == Under(fs, src)
      place(q) == dest \o PathFrom(src, q)
      taken(q) == IsThere(fs, place(q)) /\ fs.at[place(q)].etype # fs.at[q].etype
  IN  /\ \A q \in DOMAIN fs.at : IsThere(r.fs, q) /\ r.fs.at[q].etype = fs.at[q].etype
      /\ \A q \in DOMAIN r.fs.at :
           SameAt(fs, r.fs, q) \/ (\E t \in tree : q = place(t)) \/ (IsPrefix(q, dest) /\ r.fs.at[q] = Directory)
      /\ OnLinux(fs) => r.fs = fs /\ (r.ret = 0 <=> Opens(fs, src))
      /\ ~OnLinux(fs) /\ r.ret = 0 /\ (\A q \in tree \cup {src} : Fits(fs, q)) =>
           \A q \in tree : \/ IsThere(r.fs, place(q)) /\ r.fs.at[place(q)] = fs.at[q]
                           \/ EmptyDir(fs, q) /\ (taken(q) \/ \E k \in 1 .. Len(place(q)) : Denied(fs, "make", SubSeq(place(q), 1, k)))
      /\ r.ret # 0 => \/ ~Opens(fs, src) \/ ~IsA(fs, dest, "efat_DIR")
                      \/ \E q \in tree : taken(q) \/ \E call \in {"list", "copy", "make"} : Denied(fs, call, q) \/ Denied(fs, call, place(q))

\* erase_dir takes away only what is below its path.  When it returns 0 for a directory that fits
\* its list, the directory is empty; when it does not, a call was refused or a directory below has
\* more entries than it reads.  DeleteFilesDir takes the files alone.  On Linux both do nothing.
EraseMeansEmpty(fs, path) ==
  LET r == erase_dir(fs, path)
      files == DeleteFilesDir(fs, path).fs
      gone == DOMAIN fs.at \ DOMAIN files.at
  IN  /\ DOMAIN r.fs.at \subseteq DOMAIN fs.at /\ DOMAIN fs.at \ DOMAIN r.fs.at \subseteq Under(fs, path)
      /\ \A q \in DOMAIN r.fs.at : r.fs.at[q] = fs.at[q] /\ HasPlace(r.fs, q)
      /\ OnLinux(fs) => r.fs = fs /\ files = fs
      /\ IsA(fs, path, "efat_DIR") /\ ~OnLinux(fs) /\ ~Denied(fs, "info", path) /\ r.ret = 0 /\ Fits(fs, path) => Under(r.fs, path) = {}
      /\ r.ret # 0 => \E q \in Under(fs, path) \cup {path} : (\E call \in {"info", "list", "remove"} : Denied(fs, call, q)) \/ ~Fits(fs, q)
      /\ \A q \in gone : IsA(fs, q, "efat_FILE") /\ Front(q) = path
      /\ ~OnLinux(fs) /\ Opens(fs, path) =>
           \A q \in DOMAIN files.at : Front(q) = path /\ IsA(files, q, "efat_FILE") => Denied(fs, "remove", q)

\* Where every directory can be opened, a walk tells each file below once, each directory before
\* what is in it when it tells directories, by the names that were asked for, and ends with the
\* first name its callback stops at; the two walks agree on the files.  A walk from a file tells
\* that file, or nothing.  On Linux nothing below is told.
ListingMeansTree(fs, base, options, stop) ==
  LET list == readDirectory(fs, base, options)
      all == foreach_files_i(fs, base, stop)
      files == get_all_files(fs, base)
      named(q) == IF "efReadDir_RelFileName" \in options THEN PathFrom(base, q) ELSE q
      wanted == {q \in Under(fs, base) : IsA(fs, q, "efat_FILE") \/ "efReadDir_IncDirs" \in options}
      some == foreach_files(fs, base, options, {named(q) : q \in stop})
      UpTo(l, names) == LET ends == {i \in DOMAIN l : l[i] \in names} IN SubSeq(l, 1, IF ends = {} THEN Len(l) ELSE Min(ends))
      Heard(w) == [i \in DOMAIN w.seen |-> w.seen[i].fn]
  IN  /\ fileexist(fs, base) => files = <<base>> /\ list = <<>>
      /\ OnLinux(fs) /\ ~fileexist(fs, base) => files = <<>> /\ list = <<>>
      /\ ~OnLinux(fs) /\ direxist(fs, base) /\ AllOpen(fs, base) =>
           /\ ToSet(list) = {named(q) : q \in wanted} /\ IsInjective(list)
           /\ \A i, j \in DOMAIN list : IsStrictPrefix(list[i], list[j]) => i < j
           /\ some.ret = 0 /\ Heard(some) = UpTo(list, {named(q) : q \in stop})
           /\ IsInjective(files) /\ ToSet(files) = {q \in Under(fs, base) : IsA(fs, q, "efat_FILE")}
      /\ AllOpen(fs, base) /\ (Opens(fs, base) \/ fileexist(fs, base)) =>
           /\ all.ret = (IF ToSet(files) \cap stop = {} THEN 0 ELSE 1)
           /\ Heard(all) = UpTo(files, stop)

\* Two files that can be read compare equal exactly when they are, and else at the first block
\* that differs; a copy that is reported as made compares equal to its source, unless it was made
\* over its source, which empties both; and a copy that was not made has spoilt at most the target.
CompareMeansEqual(fs, l, r) ==
  LET where == cmp_content_files(fs, l, r)
      a == readstrfromfile(fs, l)
      b == readstrfromfile(fs, r)
      copied == copyfile_d(fs, r, l)
  IN  /\ CanRead(fs, l) /\ CanRead(fs, r) =>
           /\ where = 0 <=> a = b
           /\ where # 0 => /\ (where - 1) % FileBuffer = 0
                           /\ SubSeq(a, 1, where - 1) = SubSeq(b, 1, where - 1)
                           /\ Block(a, where) # Block(b, where)
      /\ where \in {-1, NullRead} <=> ~(CanRead(fs, l) /\ CanRead(fs, r))
      /\ copied.ret = 0 <=> CanRead(fs, l) /\ CanWrite(fs, r)
      /\ copied.ret = 0 => /\ cmp_content_files(copied.fs, l, r) = 0
                           /\ readstrfromfile(copied.fs, r) = IF l = r THEN <<>> ELSE a
      /\ \A q \in DOMAIN fs.at \cup DOMAIN copied.fs.at : q # r => SameAt(fs, copied.fs, q)
      /\ a # <<>> /\ writedata2file(fs, r, a).ret = 1 => readstrfromfile(writedata2file(fs, r, a).fs, r) = a

\* What is found is a file, in a directory of the list, and no directory before it has one; MakeDir
\* keeps all there is and makes only directories on the way to its path, which is there when it
\* says so; when it does not, a call was refused, something else is in the way or the share is not there.
PathsAreFound(fs, dirs, name, p) ==
  LET f == findfile(fs, dirs, name)
      at(i) == expand_environment_string(fs, dirs[i] \o name)
      r == MakeDir(fs, p)
      way == {SubSeq(p, 1, k) : k \in 1 .. Len(p)}
  IN  /\ f = <<>> => \A i \in DOMAIN dirs : ~fileexist(fs, at(i))
      /\ f # <<>> => \E i \in DOMAIN dirs : f = at(i) /\ fileexist(fs, f) /\ \A j \in 1 .. i - 1 : ~fileexist(fs, at(j))
      /\ \A q \in DOMAIN fs.at : SameAt(fs, r.fs, q)
      /\ \A q \in DOMAIN r.fs.at \ DOMAIN fs.at : q \in way /\ r.fs.at[q] = Directory /\ HasPlace(r.fs, q)
      /\ r.ret => IsThere(r.fs, p)
      /\ ~r.ret => \/ p = <<>>
                   \/ OnLinux(fs) /\ (IsThere(fs, p) \/ ~HasPlace(fs, p))
                   \/ \E q \in way : Denied(fs, "make", q) \/ IsA(fs, q, "efat_FILE") \/ (fs.net /\ Len(q) <= 2 /\ ~IsThere(fs, q))
=============================================================================
