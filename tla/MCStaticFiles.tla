---------------------------- MODULE MCStaticFiles ----------------------------
(* Small instances of StaticFiles for TLC. *)
EXTENDS StaticFiles

Www == <<"www">>
Dir == <<Www, <<"d">>>>
DirHtml == <<Www, <<"d", "html">>>>
Index(dir) == Append(dir, <<"index">>)
Dot == <<Www, <<".h">>>>

\* Nothing exists below what is not a directory.
WellFormed(paths, types) ==
    {f \in [paths -> FileTypes] :
        \A p \in paths :
            /\ f[p] \in types[p]
            /\ Len(p) > 1 /\ f[p] # "none" => f[SubSeq(p, 1, Len(p) - 1)] = "dir"}

Types(paths, dirs) ==
    [p \in paths |-> IF p = <<Www>> THEN {"dir"}
                     ELSE IF p \in dirs THEN FileTypes ELSE {"none", "file"}]

\* d with its index files and variants, and its siblings with a suffix.
MCPathsDir ==
    {<<Www>>, Dir, Index(Dir), Append(Dir, <<"index", "gz">>),
     Append(Dir, <<"index", "br">>), Append(Dir, <<"alt">>),
     DirHtml, <<Www, <<"d", "html", "gz">>>>, <<Www, <<"d", "gz">>>>}

MCDisksDir == WellFormed(MCPathsDir, Types(MCPathsDir, {Dir, Index(Dir), DirHtml}))

\* The root directory and what is beside it, and a directory with a hidden name.
MCPathsRoot ==
    {<<Www>>, Index(<<Www>>), <<<<"www", "html">>>>, << <<"d">> >>, Dot, Index(Dot)}

MCDisksRoot == WellFormed(MCPathsRoot, Types(MCPathsRoot, {Dot}))

\* Either, with nothing at the paths of the other.
MCPaths == MCPathsDir \cup MCPathsRoot

MCDisks ==
    {[p \in MCPaths |-> IF p \in DOMAIN f THEN f[p] ELSE "none"] :
        f \in MCDisksDir \cup MCDisksRoot}

MCNames == {"d", ".h", "index", "alt", ".", ".."}
MCSymlinks == {Dir}
MCDotNames == {".h"}
MCIndexFiles == <<"index", "alt">>

\* No header, one coding, two in either order, and the coding that has no file.
Accept(coding, quality) == [coding |-> coding, quality |-> quality]

MCAccepts ==
    {NoHeader, <<Accept("gzip", 1000)>>, <<Accept("deflate", 1000)>>,
     <<Accept("gzip", 500), Accept("br", 1000)>>,
     <<Accept("br", 500), Accept(IDENTITY, 700), Accept("gzip", 500)>>}

Ask(segments, slashes, accepts) ==
    [method : {"GET", "OPTIONS"}, segments : segments, slash : slashes, accept : accepts]

MCRequestsDir == Ask({<<"d">>}, BOOLEAN, MCAccepts)

MCRequestsRoot ==
    Ask({<< >>}, {TRUE}, {NoHeader})
        \cup Ask({<<".h">>, <<".", ".h">>, <<"..", "d">>}, BOOLEAN, {NoHeader})

MCRequests == MCRequestsDir \cup MCRequestsRoot

=============================================================================
