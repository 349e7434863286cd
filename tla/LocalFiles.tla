----------------------------- MODULE LocalFiles -----------------------------
(***************************************************************************)
(* The layer that puts local files into a request                          *)
(* (middleware/local_files.rs): each part that names a file is read, one   *)
(* await after the other, while another program changes the files, and is  *)
(* replaced, dropped, or a reason to fail the call.                        *)
(*                                                                         *)
(* A path is a sequence of names from the root directory.  The tree maps   *)
(* the paths that exist to what is there; the links stay the same during a *)
(* call and name their final target.  What is read of a file is its path   *)
(* and its size.  A tool result holds no tool result.                      *)
(***************************************************************************)
EXTENDS Integers, Sequences, SequencesExt, FiniteSets

CONSTANTS
    FileCalls,       \* the roots a layer is built with, and the messages of a request
    Trees,           \* the files there may be when a call begins
    Links,           \* the symbolic links, each with its target
    Home, Cwd,       \* HOME and the working directory
    MaxFileBytes, MaxTreeChanges

VARIABLES
    fileCall,        \* the layer's roots and the request
    tree,            \* what exists
    stage,           \* Handle, Part, Resolve, Root, Inspect, Read, Rebuild, Sent or Failed
    fates,           \* of the parts read so far: kept, dropped or inlined
    resolved,        \* the canonical path of the part that is read
    rootAt,          \* the root it is compared with
    failure,         \* the kind of error the call fails with
    seen,            \* the trees there were since the reading of the part began
    treeChanges

fileVars == <<fileCall, tree, stage, fates, resolved, rootAt, failure, seen, treeChanges>>

Anywhere == {}     \* the roots of a layer that is `unrestricted`
Url(form, names) == [form |-> form, names |-> names]
Media(kind, url) == [kind |-> kind, url |-> url, holds |-> <<>>]
PlainPart(kind) == Media(kind, Url("none", <<>>))
Holding(parts) == [kind |-> "ToolResult", url |-> Url("none", <<>>), holds |-> parts]
MessageOf(role, parts) == [role |-> role, parts |-> parts]

----------------------------------------------------------------------------
(* Names *)

\* lexical: `.` and `..` resolved by name.
Lexical(names) ==
    FoldLeft(LAMBDA path, c : CASE c = "." -> path
                                [] c = ".." -> IF path = <<>> THEN path ELSE Front(path)
                                [] OTHER -> Append(path, c),
             <<>>, names)

\* path_of
PathOf(url) ==
    Lexical((CASE url.form \in {"/", "file:///"} -> <<>>
               [] url.form \in {"./", "file://"} -> Cwd
               [] url.form = "~/" -> Home) \o url.names)

\* is_local and part_is_local
IsLocal(part) == part.url.form \in {"/", "./", "~/", "file:///", "file://"}

\* canonicalize: nothing, where a name does not exist.
Canonical(t, names) ==
    FoldLeft(LAMBDA paths, c : {IF Append(p, c) \in DOMAIN Links THEN Links[Append(p, c)] ELSE Append(p, c)
                                : p \in paths} \cap DOMAIN t,
             {<<>>}, names)

\* starts_with
Within(path, root) == IsPrefix(root, path)

Roots == CHOOSE roots \in fileCall.roots : TRUE
Unrestricted == fileCall.roots = Anywhere

\* The path is checked by name before anything else.
NamedInside(path) == Unrestricted \/ \E r \in ToSet(Roots) : Within(path, Lexical(r))

----------------------------------------------------------------------------
(* The parts *)

\* A tool result is looked into if it holds a local part itself.
LooksInto(part) == part.kind = "ToolResult" /\ \E p \in ToSet(part.holds) : IsLocal(p)

Leaves(part) == IF LooksInto(part) THEN part.holds ELSE <<part>>
PartsIn(message) == FlattenSeq([j \in DOMAIN message.parts |-> Leaves(message.parts[j])])
Parts == FlattenSeq([i \in DOMAIN fileCall.messages |-> PartsIn(fileCall.messages[i])])

Part == Parts[Len(fates) + 1]
Path == PathOf(Part.url)

\* needs_inlining
NeedsInlining == \E i \in DOMAIN Parts : IsLocal(Parts[i])

FileInit ==
    /\ fileCall \in FileCalls /\ tree \in Trees /\ stage = "Handle"
    /\ fates = <<>> /\ resolved = <<>> /\ rootAt = 0 /\ failure = "none"
    /\ seen = {} /\ treeChanges = 0

Handle ==
    /\ stage = "Handle"
    /\ stage' = IF NeedsInlining THEN "Part" ELSE "Sent"
    /\ UNCHANGED <<fileCall, tree, fates, resolved, rootAt, failure, seen, treeChanges>>

Decide(fate) ==
    /\ fates' = Append(fates, fate) /\ stage' = "Part"
    /\ UNCHANGED <<fileCall, tree, resolved, rootAt, failure, seen, treeChanges>>
Refuse(kind) ==
    /\ failure' = kind /\ stage' = "Failed"
    /\ UNCHANGED <<fileCall, tree, fates, resolved, rootAt, seen, treeChanges>>
Continue(next) == stage' = next /\ UNCHANGED <<fileCall, tree, fates, failure, treeChanges>>

Kept == [is |-> "kept"]
Dropped == [is |-> "dropped"]

KeepPart == stage = "Part" /\ Len(fates) < Len(Parts) /\ ~IsLocal(Part) /\ Decide(Kept)

\* load
LoadPart ==
    /\ stage = "Part" /\ Len(fates) < Len(Parts) /\ IsLocal(Part)
    /\ IF NamedInside(Path)
       THEN Continue("Resolve") /\ seen' = {tree} /\ UNCHANGED <<resolved, rootAt>>
       ELSE Refuse("InvalidRequest")

----------------------------------------------------------------------------
(* Reading one file: read *)

\* A plausible slip: the links are not looked at again.
ResolveByName ==
    /\ stage = "Resolve"
    /\ IF Canonical(tree, Path) = {} THEN Decide(Dropped)
       ELSE Continue("Inspect") /\ resolved' \in Canonical(tree, Path) /\ UNCHANGED <<rootAt, seen>>

Resolve ==
    /\ stage = "Resolve"
    /\ IF Canonical(tree, Path) = {} THEN Decide(Dropped)
       ELSE /\ Continue(IF Unrestricted THEN "Inspect" ELSE "Root")
            /\ resolved' \in Canonical(tree, Path) /\ rootAt' = 1 /\ UNCHANGED seen

\* One root after the other; one that does not exist holds nothing.
CompareRoot ==
    /\ stage = "Root"
    /\ IF \E r \in Canonical(tree, Lexical(Roots[rootAt])) : Within(resolved, r)
       THEN Continue("Inspect") /\ UNCHANGED <<resolved, rootAt, seen>>
       ELSE IF rootAt < Len(Roots)
       THEN Continue("Root") /\ rootAt' = rootAt + 1 /\ UNCHANGED <<resolved, seen>>
       ELSE Refuse("InvalidRequest")

Inspect ==
    /\ stage = "Inspect"
    /\ IF resolved \notin DOMAIN tree THEN Decide(Dropped)
       ELSE IF tree[resolved].kind # "file" \/ tree[resolved].size > MaxFileBytes
       THEN Refuse("InvalidRequest")
       ELSE Continue("Read") /\ UNCHANGED <<resolved, rootAt, seen>>

\* The media type follows the extension of the name that was asked for.
Inlined(size) == [is |-> "inlined", file |-> resolved, size |-> size, type |-> Last(Path)]

\* A plausible slip: the size that was checked is trusted.
ReadChecked ==
    /\ stage = "Read"
    /\ IF resolved \notin DOMAIN tree \/ ~tree[resolved].readable THEN Decide(Dropped)
       ELSE Decide(Inlined(tree[resolved].size))

\* Opens the file and reads one byte more than it may hold, if there is one.
Read ==
    /\ stage = "Read"
    /\ IF resolved \notin DOMAIN tree \/ ~tree[resolved].readable THEN Decide(Dropped)
       ELSE IF tree[resolved].size > MaxFileBytes THEN Refuse("InvalidRequest")
       ELSE Decide(Inlined(tree[resolved].size))

\* Another program writes to a file, removes it, or creates it.
ChangeTree(path, size) ==
    /\ stage \in {"Resolve", "Root", "Inspect", "Read"} /\ treeChanges < MaxTreeChanges
    /\ treeChanges' = treeChanges + 1
    /\ tree' = IF size < 0 THEN [p \in DOMAIN tree \ {path} |-> tree[p]]
               ELSE [p \in DOMAIN tree \cup {path} |->
                       IF p = path THEN [kind |-> "file", size |-> size, readable |-> TRUE] ELSE tree[p]]
    /\ seen' = seen \cup {tree'}
    /\ UNCHANGED <<fileCall, stage, fates, resolved, rootAt, failure>>

----------------------------------------------------------------------------
(* The request again *)

\* The fates of the parts of one message, or of what a tool result holds.
Before(i) == FoldLeft(LAMBDA n, m : n + Len(PartsIn(m)), 0, SubSeq(fileCall.messages, 1, i - 1))
BeforePart(i, j) ==
    FoldLeft(LAMBDA n, p : n + Len(Leaves(p)), Before(i), SubSeq(fileCall.messages[i].parts, 1, j - 1))

\* Parts with their fates, behind the first n; what was dropped is left out.
Fated(parts, n) ==
    LET left == SelectSeq([k \in DOMAIN parts |-> k], LAMBDA k : fates[n + k] # Dropped)
    IN [k \in DOMAIN left |-> [part |-> parts[left[k]], fate |-> fates[n + left[k]]]]

\* inline_part: a tool result stays, even if nothing it holds does.
FatedPart(i, j) ==
    LET part == fileCall.messages[i].parts[j]
    IN IF LooksInto(part)
       THEN <<[part |-> [part EXCEPT !.holds = Fated(part.holds, BeforePart(i, j))], fate |-> Kept]>>
       ELSE Fated(<<part>>, BeforePart(i, j))

\* inline
Inlining ==
    [i \in DOMAIN fileCall.messages |->
        [role |-> fileCall.messages[i].role,
         parts |-> FlattenSeq([j \in DOMAIN fileCall.messages[i].parts |-> FatedPart(i, j)])]]

\* replace_messages: the request is built again, and a message that has no
\* part left is refused.
Rebuild ==
    /\ stage = "Part" /\ Len(fates) = Len(Parts)
    /\ IF \E i \in DOMAIN Inlining : Inlining[i].parts = <<>>
       THEN Refuse("Middleware")
       ELSE Continue("Sent") /\ UNCHANGED <<resolved, rootAt, seen>>

FilesDone == stage \in {"Sent", "Failed"} /\ UNCHANGED fileVars

FileNext ==
    \/ Handle \/ KeepPart \/ LoadPart \/ Resolve \/ CompareRoot \/ Inspect \/ Read \/ Rebuild \/ FilesDone
    \/ \E t \in Trees : \E path \in {p \in DOMAIN t : t[p].kind = "file"} :
          \E size \in -1..(MaxFileBytes + 1) : ChangeTree(path, size)

----------------------------------------------------------------------------
(* Properties *)

Inside(t, path) == \E r \in ToSet(Roots) : \E root \in Canonical(t, Lexical(r)) : Within(path, root)
Regular(t, path) == path \in DOMAIN t /\ t[path].kind = "file"

\* At some moment of the reading, the file was not to be had.
Unavailable(names) ==
    \E t \in seen : \/ Canonical(t, names) = {}
                    \/ \E path \in Canonical(t, names) : ~t[path].readable

\* At some moment of the reading, the file was not one to be sent.
Unfit(names) ==
    \E t \in seen, path \in UNION {Canonical(u, names) : u \in seen} :
        \/ ~Unrestricted /\ ~Inside(t, path)
        \/ path \in DOMAIN t /\ (t[path].kind # "file" \/ t[path].size > MaxFileBytes)

LastRead == Parts[Len(fates)]

\* Whatever happens to the files while they are read, what a part is replaced
\* by is what a regular file held at some moment, no more than the limit, in a
\* directory the layer was given, under the name that was asked for; a part
\* that names no file stays.
ReadsAreSound ==
    stage = "Part" /\ fates # <<>> =>
          IF ~IsLocal(LastRead) THEN Last(fates) = Kept
          ELSE Last(fates) # Dropped =>
               LET fate == Last(fates)
               IN /\ fate.size <= MaxFileBytes
                  /\ \E t \in seen : Regular(t, fate.file) /\ t[fate.file].size = fate.size
                  /\ ~Unrestricted => \E t \in seen : Inside(t, fate.file)
                  /\ \E t \in seen : fate.file \in Canonical(t, PathOf(LastRead.url))

\* Besides, a part is dropped only if its file was not to be had, and a call
\* refused only if a file was not to be sent or a message has nothing left.
\* The request that is passed on is the one that was asked for but for that:
\* each message is there, and each other part in its place.
FilesAreWhole ==
    /\ ReadsAreSound
    /\ stage = "Part" /\ fates # <<>> /\ IsLocal(LastRead) /\ Last(fates) = Dropped =>
          Unavailable(PathOf(LastRead.url))
    /\ failure = "InvalidRequest" => ~NamedInside(Path) \/ Unfit(Path)
    /\ failure = "Middleware" =>
          \E i \in DOMAIN fileCall.messages : \A p \in ToSet(fileCall.messages[i].parts) : IsLocal(p)
    /\ stage = "Sent" /\ NeedsInlining =>
          /\ \A i \in DOMAIN fileCall.messages :
                LET others == SelectSeq(fileCall.messages[i].parts, LAMBDA p : ~IsLocal(p))
                    kept == SelectSeq(Inlining[i].parts, LAMBDA f : f.fate = Kept)
                IN /\ Inlining[i].role = fileCall.messages[i].role /\ Inlining[i].parts # <<>>
                   /\ [k \in DOMAIN kept |-> kept[k].part.kind] = [k \in DOMAIN others |-> others[k].kind]
          /\ \A n \in DOMAIN fates : IsLocal(Parts[n]) => fates[n] # Kept
=============================================================================
