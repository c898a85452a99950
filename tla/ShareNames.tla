------------------------------ MODULE ShareNames ------------------------------
(***************************************************************************)
(* Names (internal/broker/key.go) and the paths they appear in             *)
(* (internal/broker/server.go): how a file name or a name a user typed     *)
(* becomes a share's public name, and how a link is read back.             *)
(*                                                                         *)
(* A name is a sequence of characters.  Letter holds letters and digits,   *)
(* without case; "." "-" "_" " " "/" are themselves, a backslash being "/";*)
(* any other element is a character that names drop.  A word that a link,  *)
(* a default or an extension is made of ("media", "share", "mp4") counts   *)
(* as one letter.  The code's limits are parameters, so that small ones    *)
(* can be explored.                                                        *)
(***************************************************************************)
EXTENDS Naturals, SequencesExt

Underscore == "_"
Blank == " "

CONSTANTS
    Letter,
    ExtMax,        \* 17: an extension with its dot
    LongExt,       \* 32: an ending longer than this is not kept when a name is cut
    RandomMax,     \* 120: what a random name keeps of the file's name
    SanitizedMax,  \* 160: a sanitized file name
    AliasMax       \* 180: a share name

ASSUME NamesAssumption ==
    /\ {"share", "upload", "s", "media", "thumbnail", "random", "mp4", "bin"} \subseteq Letter
    /\ Letter \cap {".", "-", Underscore, Blank, "/"} = {}
    /\ \A n \in {ExtMax, LongExt, RandomMax, SanitizedMax, AliasMax} : n \in Nat \ {0}
    /\ 1 < ExtMax /\ ExtMax < LongExt /\ LongExt <= SanitizedMax
    /\ RandomMax + 2 + ExtMax <= SanitizedMax /\ SanitizedMax + ExtMax <= AliasMax

Default == <<"share">>
Unnamed == <<"upload">>

\* What a name that the code cannot handle becomes: slicing it panics.
Panic == <<>>

\* Names do not begin or end with these.
Edge == {".", "-", Underscore}

-----------------------------------------------------------------------------
(* strings.Trim, path.Base, path.Ext, strings.TrimPrefix *)

Trim(s, chars) ==
    LET kept == {i \in DOMAIN s : s[i] \notin chars} IN
    IF kept = {} THEN <<>> ELSE SubSeq(s, Min(kept), Max(kept))

LastIndex(s, c) == SelectLastInSeq(s, LAMBDA x : x = c)

PathBase(s) ==
    LET end == SelectLastInSeq(s, LAMBDA x : x # "/")
        t == SubSeq(s, 1, end)
    IN SubSeq(t, LastIndex(t, "/") + 1, end)

Extension(s) == IF LastIndex(s, ".") = 0 THEN <<>> ELSE SubSeq(s, LastIndex(s, "."), Len(s))

WithoutExtension(s) == SubSeq(s, 1, Len(s) - Len(Extension(s)))

StripPrefix(p, s) == IF IsPrefix(p, s) THEN SubSeq(s, Len(p) + 1, Len(s)) ELSE s

Cut(s, n) == IF Len(s) > n THEN SubSeq(s, 1, n) ELSE s

OrElse(s, default) == IF s = <<>> THEN default ELSE s

-----------------------------------------------------------------------------

\* The letters and digits of an extension.
Kept(out, c) == IF c \in Letter THEN Append(out, c) ELSE out

NormalizeExtension(e) ==
    LET kept == FoldLeft(Kept, <<>>, e) IN
    IF kept = <<>> THEN <<>> ELSE Cut(<<".">> \o kept, ExtMax)

\* The characters a name keeps, blanks as single underscores.
Put(out, c) ==
    IF c \in Letter \cup {".", "-"} THEN Append(out, c)
    ELSE IF c \notin {Underscore, Blank} \/ (out # <<>> /\ Last(out) = Underscore) THEN out
    ELSE Append(out, Underscore)

Cleaned(s) == FoldLeft(Put, <<>>, s)

\* repeatedDash: a run of dashes and underscores becomes one underscore.
Join(out, c) ==
    IF c \in {"-", Underscore} /\ out # <<>> /\ Last(out) \in {"-", Underscore}
      THEN Append(Front(out), Underscore) ELSE Append(out, c)

DashesJoined(s) == FoldLeft(Join, <<>>, s)

\* A name that is too long keeps its ending unless that is long itself; then the
\* whole limit is for the part before it, which may be shorter than the limit.
\* Mistake: it is for that part in any case.
ShortenedWhole(s) ==
    LET end == IF Len(Extension(s)) > LongExt THEN <<>> ELSE Extension(s)
        base == WithoutExtension(s)
    IN IF Len(s) <= SanitizedMax THEN s
       ELSE IF Len(base) < SanitizedMax THEN Panic
       ELSE OrElse(Trim(SubSeq(base, 1, SanitizedMax), Edge) \o end, Unnamed)
Shortened(s) ==
    LET end == IF Len(Extension(s)) > LongExt THEN <<>> ELSE Extension(s)
        base == WithoutExtension(s)
        limit == SanitizedMax - Len(end)
    IN IF Len(s) <= SanitizedMax THEN s
       ELSE IF Len(base) < limit THEN Panic
       ELSE OrElse(Trim(SubSeq(base, 1, limit), Edge) \o end, Unnamed)

SanitizeFilename(f) ==
    Shortened(OrElse(DashesJoined(Trim(Cleaned(Trim(PathBase(f), {Blank})), Edge)), Unnamed))

\* ExtensionFor: the file's own extension, or what its content type says.
Mp4 == <<".", "mp4">>
Bin == <<".", "bin">>
ExtensionFor(f, typeExt) ==
    OrElse(NormalizeExtension(Extension(SanitizeFilename(f))), OrElse(typeExt, Bin))

\* Name and extension put together within the limit.
Joined(base, e) == OrElse(Trim(Cut(base, AliasMax - Len(e)), Edge), Default) \o e

\* The file's extension wins over the one in the typed name.
\* Mistake: the typed extension is kept where there is one.
TypedFirst(typed, final) == IF typed # <<>> THEN typed ELSE final
FinalFirst(typed, final) == IF final # <<>> THEN final ELSE typed

\* The part of a typed name that the share keeps.
\* Mistake: its extension stays in it.
NameWhole(v) == OrElse(Trim(v, Edge), Default)
NameBase(v) == OrElse(Trim(WithoutExtension(v), Edge), Default)

NormalizeAliasSlug(value, e) ==
    LET typed == StripPrefix(<<"/", "s", "/">>,
                     StripPrefix(<<"s", "/">>, StripPrefix(<<"/">>, Trim(value, {Blank}))))
        v == SanitizeFilename(OrElse(typed, Default))
    IN IF v = Panic THEN Panic
       ELSE Joined(NameBase(v),
                   FinalFirst(NormalizeExtension(Extension(v)), NormalizeExtension(e)))

\* The name of an upload without one: 16 random characters make it new.
GenerateRandomAliasSlug(f, e) ==
    LET name == SanitizeFilename(f)
        base == OrElse(Trim(WithoutExtension(name), Edge), Default)
    IN IF name = Panic THEN Panic
       ELSE OrElse(Trim(Cut(base, RandomMax), Edge), Default) \o <<"-", "random">>
            \o FinalFirst(NormalizeExtension(Extension(name)), NormalizeExtension(e))

-----------------------------------------------------------------------------
(* Links.  A path is what follows "/s/" or "/api/shares/"; names need no       *)
(* escaping in it.  The empty sequence is a path that leads nowhere.           *)

SharePage(slug) == slug \o <<"/">>
VariantLink(slug, variant) == slug \o <<"/", variant>>

\* sharePathFromPath: name and variant, one trailing slash allowed.
\* Mistake: a trailing slash is not.
WithSlash(path) == path
WithoutSlash(path) ==
    IF path # <<>> /\ Last(path) = "/" /\ \A i \in 1 .. Len(path) - 1 : path[i] # "/"
      THEN Front(path) ELSE path

Name(s) == IF \E i \in DOMAIN s : s[i] = "/" THEN <<>> ELSE s

ReadLink(path) ==
    LET p == WithoutSlash(path)
        i == LastIndex(p, "/")
    IN IF i > 0 /\ i = Len(p) - 1 /\ Last(p) \in {"media", "thumbnail"}
         THEN <<Name(SubSeq(p, 1, i - 1)), Last(p)>>
         ELSE <<Name(p), "page">>

\* slugFromEscapedPath, in PATCH and DELETE of /api/shares/.
ReadShareName(path) == Name(path)
=============================================================================
