----------------------------- MODULE StaticFiles -----------------------------
(***************************************************************************)
(* Which file answers a request: static_files::handle and                  *)
(* get_composed_file_metadata (src/src/static_files.rs), with the path     *)
(* helpers of src/src/fs/ and precompressed_variant of                     *)
(* src/src/compression_static.rs.  Concurrent changes of the files, and    *)
(* what is sent of the file chosen here, are the subject of FileServer.    *)
(*                                                                         *)
(* A path is a sequence of components, a component the sequence of its     *)
(* name and the extensions appended to it: <<<<"www">>, <<"d", "html">>>>  *)
(* is www/d.html.                                                          *)
(***************************************************************************)
EXTENDS Negotiation, FiniteSets

CONSTANTS
    Names,          \* the names of files, and the segments of URIs
    FilePaths,      \* the paths at which something may exist
    Disks,          \* the file systems: functions from FilePaths to FileTypes
    Symlinks,       \* the paths that are symbolic links (to such a file)
    DotNames,       \* the names that start with a dot
    Options,        \* the option records
    Requests,       \* the requests
    IndexFiles      \* the index_files option

FileTypes == {"none", "file", "dir"}
Extensions == {"html", "gz", "br", "zst"}
Option == [redirect_trailing_slash : BOOLEAN, dir_listing : BOOLEAN,
           compression_static : BOOLEAN, ignore_hidden_files : BOOLEAN,
           disable_symlinks : BOOLEAN]

Request == [method : {"GET", "HEAD", "OPTIONS"}, segments : Seq(Names),
            slash : BOOLEAN, accept : AcceptEncoding]

\* The root directory, which Server::new makes sure is one.
base_path == << <<"www">> >>

ASSUME FilesAssumption ==
    /\ Disks \subseteq [FilePaths -> FileTypes]
    /\ base_path \in FilePaths /\ \A d \in Disks : d[base_path] = "dir"
    /\ Symlinks \subseteq FilePaths
    /\ Options \subseteq Option
    /\ Requests \subseteq Request
    /\ IndexFiles \in Seq(Names) /\ IndexFiles # << >>

VARIABLES disk, opts, req, reply

vars == <<disk, opts, req, reply>>

----------------------------------------------------------------------------
\* Component::Normal: the places of the names; the k-th of them is a component.
Normal(segments) == {i \in DOMAIN segments : segments[i] \notin {".", ".."}}

Components(segments) ==
    LET names == Normal(segments)
        nth(k) == CHOOSE i \in names : Cardinality({j \in names : j < i}) = k - 1
    IN  [k \in 1 .. Cardinality(names) |-> <<segments[nth(k)]>>]

\* Mutant: a leading ".." is resolved against the root directory.
sanitize_path_parent(segments) ==
    IF segments # << >> /\ segments[1] = ".." THEN Components(segments)
    ELSE base_path \o Components(segments)

\* A segment other than a name is dropped.
sanitize_path(segments) == base_path \o Components(segments)

is_hidden(path) == \E i \in DOMAIN path : path[i][1] \in DotNames

FileType(path) == IF path \in FilePaths THEN disk[path] ELSE "none"
Exists(path) == FileType(path) # "none"

Push(path, component) == Append(path, component)
WithExtension(path, ext) == [path EXCEPT ![Len(path)] = Append(@, ext)]
HtmlSuffixed(path) == WithExtension(path, "html")

----------------------------------------------------------------------------
\* precompressed_variant: the first accepted coding whose file is there.
CompExt(coding) ==
    CASE coding \in {"gzip", "deflate"} -> "gz"
      [] coding = "br"                  -> "br"
      [] coding = "zstd"                -> "zst"

Variants(path) ==
    {i \in get_encodings(req.accept) :
        FileType(WithExtension(path, CompExt(req.accept[i].coding))) = "file"}

HasVariant(path) == opts.compression_static /\ Variants(path) # {}

\* Mutant: the last of them.
PreferredVariantLast(path) ==
    req.accept[CHOOSE i \in Variants(path) :
                \A j \in Variants(path) \ {i} : j \in Ahead(req.accept, i)].coding

PreferredVariant(path) == Foremost(req.accept, Variants(path))

----------------------------------------------------------------------------
\* FileMetadata; encoding is IDENTITY when there is no pre-compressed variant.
FileMetadata(path, is_dir, encoding) ==
    [file_path |-> path, is_dir |-> is_dir, encoding |-> encoding]

Precompressed(path) == FileMetadata(path, FALSE, PreferredVariant(path))
Plain(path, is_dir) == FileMetadata(path, is_dir, IDENTITY)

(***************************************************************************)
(* The loop over the index files of a directory.  It stops at the first    *)
(* one that has a variant or exists, or at once if the directory itself    *)
(* has a sibling with the suffix .html.                                    *)
(***************************************************************************)
First(is) == CHOOSE i \in is : \A j \in is : i <= j

IndexPath(dir, i) == Push(dir, <<IndexFiles[i]>>)

Found(dir, i) ==
    \/ HasVariant(IndexPath(dir, i))
    \/ Exists(IndexPath(dir, i))
    \/ Exists(HtmlSuffixed(dir))

IndexMetadata(dir, i) ==
    IF HasVariant(IndexPath(dir, i)) THEN Precompressed(IndexPath(dir, i))
    ELSE IF Exists(IndexPath(dir, i)) THEN Plain(IndexPath(dir, i), TRUE)
    ELSE Plain(HtmlSuffixed(dir), TRUE)

DirMetadata(dir) ==
    LET is == {i \in DOMAIN IndexFiles : Found(dir, i)}
    IN  IF is = {} THEN Plain(IndexPath(dir, Len(IndexFiles)), TRUE)
        ELSE IndexMetadata(dir, First(is))

\* get_composed_file_metadata, once the path is known not to be refused.
get_composed_file_metadata(path) ==
    CASE FileType(path) = "dir"                        -> DirMetadata(path)
      [] FileType(path) # "dir" /\ HasVariant(path)    -> Precompressed(path)
      [] FileType(path) = "file" /\ ~HasVariant(path)  -> Plain(path, FALSE)
      [] OTHER                                         -> Plain(HtmlSuffixed(path), FALSE)

Forbidden(path) == opts.disable_symlinks /\ path \in Symlinks

\* Mutant: without the .html suffix.
NotFoundPlain(path) == ~Exists(path) /\ ~HasVariant(path)

NotFound(path) ==
    ~Exists(path) /\ ~HasVariant(path) /\ ~Exists(HtmlSuffixed(path))

----------------------------------------------------------------------------
\* What handle replies with: path is the file opened or the directory listed.
Pending == [kind |-> "pending", status |-> 0, path |-> << >>, encoding |-> IDENTITY]
Reply(kind, status, path, encoding) ==
    [kind |-> kind, status |-> status, path |-> path, encoding |-> encoding]
Error(status) == Reply("error", status, << >>, IDENTITY)

path_of(r) == sanitize_path(r.segments)
md == get_composed_file_metadata(path_of(req))

\* Mutant: only the last component is looked at.
VisibleName(m) ==
    ~(opts.ignore_hidden_files /\ m.file_path[Len(m.file_path)][1] \in DotNames)

Visible(m) == ~(opts.ignore_hidden_files /\ is_hidden(m.file_path))

Resolved == ~Forbidden(path_of(req)) /\ ~NotFound(path_of(req)) /\ Visible(md)

\* Mutant: only a directory without an index is redirected.
NeedsSlashBare ==
    /\ md.is_dir /\ opts.redirect_trailing_slash /\ ~req.slash
    /\ ~Exists(md.file_path)

NeedsSlash == md.is_dir /\ opts.redirect_trailing_slash /\ ~req.slash

\* Mutant: whatever index there is.
ListsAlways == md.is_dir /\ opts.dir_listing

Lists == md.is_dir /\ opts.dir_listing /\ ~Exists(md.file_path)

Respond(r) ==
    /\ reply.kind = "pending"
    /\ reply' = r
    /\ UNCHANGED <<disk, opts, req>>

Refuse ==
    \/ Forbidden(path_of(req)) /\ Respond(Error(403))
    \/ ~Forbidden(path_of(req)) /\ NotFound(path_of(req)) /\ Respond(Error(404))
    \/ /\ ~Forbidden(path_of(req)) /\ ~NotFound(path_of(req)) /\ ~Visible(md)
       /\ Respond(Error(404))

RedirectToSlash ==
    /\ Resolved /\ NeedsSlash
    /\ Respond(Reply("redirect", 308, << >>, IDENTITY))

AnswerOptions ==
    /\ Resolved /\ ~NeedsSlash
    /\ req.method = "OPTIONS"
    /\ Respond(Reply("options", 204, << >>, IDENTITY))

ListDirectory ==
    /\ Resolved /\ ~NeedsSlash
    /\ req.method # "OPTIONS"
    /\ Lists
    /\ Respond(Reply("listing", 200, SubSeq(md.file_path, 1, Len(md.file_path) - 1),
                     IDENTITY))

\* file_reply: the variant or the file itself is opened.
FileToSend ==
    IF md.encoding = IDENTITY THEN md.file_path
    ELSE WithExtension(md.file_path, CompExt(md.encoding))

ServeFile ==
    /\ Resolved /\ ~NeedsSlash
    /\ req.method # "OPTIONS"
    /\ ~Lists
    /\ Respond(IF Exists(FileToSend) THEN Reply("file", 200, FileToSend, md.encoding)
               ELSE Error(404))

\* The next request, to the same server.
AskAgain(r) ==
    /\ reply.kind # "pending"
    /\ req' = r
    /\ reply' = Pending
    /\ UNCHANGED <<disk, opts>>

Init ==
    /\ disk \in Disks
    /\ opts \in Options
    /\ req \in Requests
    /\ reply = Pending

Next ==
    \/ Refuse
    \/ RedirectToSlash
    \/ AnswerOptions
    \/ ListDirectory
    \/ ServeFile
    \/ \E r \in Requests : AskAgain(r)

Spec == Init /\ [][Next]_vars
----------------------------------------------------------------------------
\* Properties.

path == path_of(req)
Sends == reply.kind \in {"file", "listing"}
Within(dir, p) == Len(p) > Len(dir) /\ SubSeq(p, 1, Len(dir)) = dir

\* The file a reply stands for: that of which it sends a variant, or itself.
Original ==
    IF reply.encoding = IDENTITY THEN reply.path
    ELSE [reply.path EXCEPT ![Len(reply.path)] = SubSeq(@, 1, Len(@) - 1)]

(***************************************************************************)
(* A pre-compressed variant is sent only under a coding the client listed, *)
(* and only if the client gave no other coding that has a variant a higher *)
(* quality (the loop of precompressed_variant over the sorted codings).    *)
(***************************************************************************)
BestVariant ==
    reply.encoding # IDENTITY =>
        /\ Accepts(req.accept, reply.encoding)
        /\ \A coding \in AVAILABLE_ENCODINGS :
            /\ Accepts(req.accept, coding)
            /\ FileType(WithExtension(Original, CompExt(coding))) = "file"
            => QualityOf(req.accept, coding) <= QualityOf(req.accept, reply.encoding)

(***************************************************************************)
(* A listing is of the directory asked for, and only if it has none of the *)
(* index files: the path that handle tests with exists() is the last index *)
(* file only.                                                              *)
(***************************************************************************)
ListsOnlyWithoutIndex ==
    reply.kind = "listing" =>
        /\ reply.path = path
        /\ FileType(path) = "dir"
        /\ \A i \in DOMAIN IndexFiles : ~Exists(IndexPath(path, i))

(***************************************************************************)
(* With redirect_trailing_slash, a plain index file or a listing is only   *)
(* sent under a URI that ends with a slash, against which the relative     *)
(* links in it resolve.  A pre-compressed index file is not: is_dir is     *)
(* false for it.                                                           *)
(***************************************************************************)
RelativeLinksResolve ==
    /\ opts.redirect_trailing_slash
    /\ Sends
    /\ reply.encoding = IDENTITY
    /\ FileType(path) = "dir"
    /\ reply.path = path \/ Within(path, reply.path)
    => req.slash

(***************************************************************************)
(* With ignore_hidden_files nothing with a hidden component is sent, and   *)
(* neither a redirect nor the answer to OPTIONS tells that it exists.      *)
(***************************************************************************)
HiddenStaysHidden ==
    opts.ignore_hidden_files /\ reply.kind \notin {"pending", "error"} =>
        ~is_hidden(path) /\ ~is_hidden(reply.path)

(***************************************************************************)
(* 404 is only said of a path where there is nothing to send: no file, no  *)
(* index file, no file with the suffix .html, or a hidden one.             *)
(***************************************************************************)
NotFoundTruthful ==
    reply.kind = "error" /\ reply.status = 404 =>
        \/ opts.ignore_hidden_files /\ is_hidden(md.file_path)
        \/ /\ FileType(path) # "file"
           /\ ~Exists(HtmlSuffixed(path))
           /\ FileType(path) = "dir" =>
                \A i \in DOMAIN IndexFiles : ~Exists(IndexPath(path, i))

(***************************************************************************)
(* What is sent lies in the root directory, whatever segments the URI has; *)
(* the one exception is the sibling <root>.html, which stands for a root   *)
(* without index file as page.html does for page.                          *)
(***************************************************************************)
ServedFromRoot ==
    Sends =>
        \/ reply.path = base_path
        \/ Within(base_path, reply.path)
        \/ path = base_path /\ reply.path = HtmlSuffixed(base_path)

=============================================================================
