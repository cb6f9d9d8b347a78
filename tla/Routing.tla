------------------------------ MODULE Routing ------------------------------
(* The files of an application are scanned into a table of routes, and a web request is led to one of them.
   A name or a segment of a URL is a sequence of the parts between its dots, and a path is a sequence of those. *)
EXTENDS Integers, Sequences, SequencesExt, FiniteSetsExt

CONSTANTS Trees,        \* sets of files, each a path: directories, then a name that ends with an extension
          Urls,
          Private, Groups, Params,      \* parts that begin with a private prefix, are in parentheses, or in brackets
          Default,                      \* name of the default page of a folder
          Static, Transpiled, Rendered, \* extensions
          Rank,                         \* order of the parts that are not in Groups or Params
          None

VARIABLES files, groupsFirst,           \* does a name in parentheses sort before letters (see Key)
          exact, dynamic,               \* the table of routes
          url, found, params,           \* of the request
          stage
routevars == <<files, groupsFirst, exact, dynamic, url, found, params, stage>>

Ext(segment) == IF Len(segment) > 1 THEN Last(segment) ELSE ""
DropExt(path) == IF path # << >> /\ Ext(Last(path)) # "" THEN Append(Front(path), Front(Last(path))) ELSE path
Parts(segments) == UNION {Range(s) : s \in Range(segments)}
Singly(segment) == [i \in DOMAIN segment |-> <<segment[i]>>]        \* flat routes: a dot becomes a slash
Visible(dirs) == SelectSeq(dirs, LAMBDA d : d[1] \notin Groups)

\* Order of the walk: names are compared after "(" and "[" were replaced by U+FFFE and U+FFFF. The latter sorts last; the
\* former sorts after or before letters, which depends on the collation.
RankOf_Ascii(p) == IF p \in Params THEN Rank[p] ELSE 10 + Rank[p]        \* mutant: brackets are not replaced
RankOf(p) == IF p \in Params THEN 40 + Rank[p] ELSE IF p \in Groups /\ ~groupsFirst THEN 20 + Rank[p]
             ELSE IF p \in Groups THEN Rank[p] ELSE 10 + Rank[p]
Key(file) == FlattenSeq([i \in DOMAIN file |-> [k \in 1 .. Len(file[i]) + 1 |-> IF k <= Len(file[i]) THEN RankOf(file[i][k]) ELSE 0]])
Before(f, g) == \E i \in DOMAIN Key(f) : /\ i \notin DOMAIN Key(g) \/ Key(f)[i] < Key(g)[i]
                                         /\ \A k \in 1 .. i - 1 : k \in DOMAIN Key(g) /\ Key(f)[k] = Key(g)[k]
Walk == SortSeq(SetToSeq({f \in files : \A s \in Range(f) : s[1] \notin Private}), LAMBDA f, g : Before(f, g))

\* Routes of a file: by its name with the extension, and of a page by its segments
FileRoute(f) == LET name == Singly(Front(Last(f)))
                IN Visible(Front(f)) \o Append(Front(name), Append(Last(name), Ext(Last(f))))
PageRoute(f) == Visible(Front(f)) \o IF Front(Last(f)) = <<Default>> THEN << >> ELSE Singly(Front(Last(f)))
IsFile(f) == Ext(Last(f)) \in Static \cup Transpiled
IsPage(f) == Ext(Last(f)) \in Rendered
HasParams(f) == Parts(PageRoute(f)) \cap Params # {}
FileType(f) == IF Ext(Last(f)) \in Static THEN "static" ELSE "transpiled"

Put(table, route, type, f) == {e \in table : e.route # route} \cup {[route |-> route, type |-> type, file |-> f]}
AddExact(table, f) == LET t == IF IsFile(f) THEN Put(table, FileRoute(f), FileType(f), f) ELSE table
                      IN IF IsPage(f) /\ ~HasParams(f) THEN Put(t, PageRoute(f), "render", f) ELSE t
Scan == /\ stage = "new" /\ stage' = "scanned"
        /\ exact' = FoldLeft(AddExact, {}, Walk)
        /\ dynamic' = SelectSeq(Walk, LAMBDA f : IsPage(f) /\ HasParams(f))
        /\ UNCHANGED <<files, groupsFirst, url, found, params>>

----------------------------------------------------------------------------
Fits(route, path) == /\ Len(route) = Len(path)
                     /\ \A i \in DOMAIN route : route[i][1] \in Params \/ route[i] = path[i]
Exact(path) == {e \in exact : e.route = path}
Match(path) == LET bare == DropExt(path)
                   fitting == {i \in DOMAIN dynamic : Fits(PageRoute(dynamic[i]), bare)}
               IN IF \E s \in Range(path) : s[1] \in Private THEN None
                  ELSE IF Exact(path) # {} THEN CHOOSE e \in Exact(path) : TRUE
                  ELSE IF Exact(bare) # {} THEN CHOOSE e \in Exact(bare) : TRUE
                  ELSE IF fitting # {} THEN [route |-> PageRoute(dynamic[Min(fitting)]), type |-> "render", file |-> dynamic[Min(fitting)]]
                  ELSE None
\* Values of the parameters; of equal names the last one counts.
Values(route, path) == [p \in Parts(route) \cap Params |-> path[Max({i \in DOMAIN route : route[i] = <<p>>})]]

Route == /\ stage = "scanned" /\ stage' = "routed"
         /\ found' = Match(url) /\ params' = IF Match(url) = None THEN << >> ELSE Values(Match(url).route, DropExt(url))
         /\ UNCHANGED <<files, groupsFirst, exact, dynamic, url>>

Init == /\ files \in Trees /\ groupsFirst \in BOOLEAN /\ url \in Urls /\ stage = "new"
        /\ exact = {} /\ dynamic = << >> /\ found = None /\ params = << >>
Next == Scan \/ Route

----------------------------------------------------------------------------
\* A file answers to its name, a page to its path; a URL may have an extension more than that. Nothing private does.
Public(f) == \A s \in Range(f) : s[1] \notin Private
Answering == {f \in files : /\ Public(f) /\ \A s \in Range(url) : s[1] \notin Private
                            /\ \/ IsFile(f) /\ FileRoute(f) \in {url, DropExt(url)}
                               \/ IsPage(f) /\ (Fits(PageRoute(f), DropExt(url)) \/ PageRoute(f) = url)}
Outright == {f \in Answering : IsFile(f) /\ FileRoute(f) = url}
Plain == {f \in Answering : IsPage(f) /\ ~HasParams(f)}
\* The routes differ first where that of f has a name and that of g a parameter.
Closer(f, g) == \E i \in DOMAIN PageRoute(f) : /\ PageRoute(f)[i][1] \notin Params /\ PageRoute(g)[i][1] \in Params
                                               /\ SubSeq(PageRoute(f), 1, i - 1) = SubSeq(PageRoute(g), 1, i - 1)

\* A request is refused exactly if no public file answers to its URL. A file with just this name comes before a page, a page
\* without parameters before one with some, and of these the one comes first that has a name where the other has a parameter,
\* unless one of them lies in a group. A parameter has the value that it stands for. (Routes.scan, Routes.match)
RouteIsRight ==
    stage = "routed" =>
        /\ (found = None) <=> (Answering = {})
        /\ found # None =>
              /\ found.file \in Answering
              /\ Outright # {} => found.type # "render"
              /\ found.type = "render" /\ Plain # {} => found.file \in Plain
              /\ Plain = {} /\ Outright = {} /\ found.type = "render" =>
                    \A f \in Answering : Closer(f, found.file) => Parts(f) \cap Groups # {} \/ Parts(found.file) \cap Groups # {}
              /\ \A i \in DOMAIN found.route : LET n == found.route[i][1]
                                               IN n \in Params /\ (\A k \in DOMAIN found.route : found.route[k] = <<n>> => k = i)
                                                  => params[n] \in {url[i], DropExt(url)[i]}
=============================================================================
