-------------------------- MODULE MCDirectoryListing --------------------------
(* A small instance of DirectoryListing for TLC. *)
EXTENDS DirectoryListing

Lower == <<"a">>
Upper == <<"A">>
Dot == <<".", "a">>
Escaped == <<"%", "?">>

Target == <<"/", "t">>

MCNames == {Lower, Upper, Dot, Escaped}
MCTargets == {Target}
MCUnreserved == {"a", "A", "b", "."}
MCLowercase ==
    [n \in MCNames |-> CASE n = Escaped -> 1 [] n = Dot -> 2 [] OTHER -> 3]

File(mtime, size) == Node("file", mtime, size, << >>)
Dir(mtime) == Node("dir", mtime, 0, << >>)
Symlink(mtime) == Node("symlink", mtime, 0, Target)

\* Sizes at the boundaries of the units.
Sizes == {0, 3, 4, 15, 16, 64, 255, 1024, 4095, 16384}

MCMenu ==
    [x \in MCNames \cup MCTargets |->
        CASE x = Lower   -> {Absent, Symlink(2), File(1, 3)}
          [] x = Upper   -> {Absent, Dir(3)} \cup {File(3, s) : s \in Sizes}
          [] x = Dot     -> {Absent, File(1, 5)}
          [] x = Escaped -> {Dir(1), Node("special", 2, 0, << >>)}
          [] x = Target     -> {Absent, File(9, 40), Dir(9)}]

\* A full directory: a link, a file, a hidden file, a directory.
MCDisks ==
    {[x \in MCNames \cup MCTargets |->
        CASE x = Lower   -> Symlink(2)
          [] x = Upper   -> File(3, 16)
          [] x = Dot     -> File(1, 5)
          [] x = Escaped -> Dir(1)
          [] x = Target  -> File(9, 40)]}

Opts(order, format, hidden, links) ==
    [order |-> order, format |-> format, ignore_hidden_files |-> hidden,
     disable_symlinks |-> links]

MCOptions == {Opts(0, "Html", FALSE, FALSE), Opts(6, "Html", TRUE, FALSE),
              Opts(5, "Html", FALSE, TRUE), Opts(2, "Json", TRUE, TRUE)}

Path(segments, slash) == [segments |-> segments, slash |-> slash]
MCBases == {Path(<< >>, TRUE), Path(<<<<"b">>, <<"%", "%">>>>, FALSE), Path(<<<<"b">>>>, TRUE)}
MCQueries == {NoSort, 3}

=============================================================================
