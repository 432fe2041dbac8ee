------------------------------ MODULE Extensions ------------------------------
(* The chain of responsibility a request runs through: extension_registry
   (src/src/server/extension.cpp), the two extensions that hold a registry of
   their own (vpath, vhost), the leaves (overlay, single_file,
   websocket_endpoint) and the fallback of listener::dispatch.

   What passes between them is the request's tag_storage: the stack of subpaths
   the enclosing vpaths left, and the one resolve_cache and the one stat_cache
   that all the overlays and all the single_files of a request share.  The
   directory tree does not change here; FileServing has the one that does.

   A path is the sequence of its names and slashes: "/a/b" is
   <<"/", "a", "/", "b">>. *)
EXTENDS Integers, Sequences, SequencesExt, TLC

CONSTANTS
  Mounts,       \* extension -> [kind, prio, within, base, hosts, dir]
  Tree,         \* the files: sequence of names (first: a base directory) -> kind
  Requests      \* [path, verb, host, upgrade, key]

VARIABLES
  registries,   \* registry -> its extensions_, "listener" or the extension that owns it
  handler,      \* the listener's plain handler is set
  answer        \* how the last request went, or None

extVars == <<registries, handler, answer>>

None == [by |-> "none"]
Top == "listener"
Root == <<"/">>
Index == "index"
Holders == {e \in DOMAIN Mounts : Mounts[e].kind \in {"vpath", "app", "vhost"}}

(***************************************************************************)
(* extension_registry::add                                                 *)
(***************************************************************************)
\* std::upper_bound: before the first extension of a greater priority.
UpperBound(es, prio) ==
  LET greater == {i \in DOMAIN es : Mounts[es[i]].prio > prio}
  IN  IF greater = {} THEN Len(es) + 1 ELSE Min(greater)

Added == UNION {ToSet(registries[r]) : r \in DOMAIN registries}

Add(e) ==
  LET es == registries[Mounts[e].within]
  IN  /\ e \notin Added
      /\ answer = None
      /\ registries' = [registries EXCEPT ![Mounts[e].within] =
                          InsertAt(es, UpperBound(es, Mounts[e].prio), e)]
      /\ UNCHANGED <<handler, answer>>

(***************************************************************************)
(* Helpers on paths                                                        *)
(***************************************************************************)
\* vpath.cpp path_has_prefix.
PathHasPrefix(path, prefix) ==
  \/ prefix \in {<<>>, Root}
  \/ /\ IsPrefix(prefix, path)
     /\ Len(path) = Len(prefix) \/ path[Len(prefix) + 1] = "/"

\* The constructor of vpath drops a trailing slash.
BasePath(e) ==
  LET given == Mounts[e].base
  IN  IF Len(given) > 1 /\ Last(given) = "/" THEN Front(given) ELSE given

\* What vpath::handle leaves after its base path: below "/" no leading slash.
Remainder(path, base) ==
  IF Len(path) <= Len(base) THEN Root ELSE SubSeq(path, Len(base) + 1, Len(path))

\* static_content.cpp qualify_relative_path.  Refused is its std::nullopt.
Refused == <<"..">>
RECURSIVE QualifyFrom(_, _)
QualifyFrom(stack, segs) ==
  IF segs = <<>> THEN stack
  ELSE CASE Head(segs) = ".." /\ stack = <<>> -> Refused
         [] Head(segs) = ".." /\ stack # <<>> -> QualifyFrom(Front(stack), Tail(segs))
         [] Head(segs) \in {"/", "."} -> QualifyFrom(stack, Tail(segs))
         [] OTHER -> QualifyFrom(Append(stack, Head(segs)), Tail(segs))
QualifyRelativePath(path) == QualifyFrom(<<>>, path)

(***************************************************************************)
(* The request's tags                                                      *)
(***************************************************************************)
\* resolve and stat are the caches: the owner that filled them and the value.
\* seen is a history variable: which extension was asked about which subpath.
NoTags ==
  [subpaths |-> <<>>, resolve |-> [owner |-> "none", value |-> <<>>],
   stat |-> [owner |-> "none", value |-> <<>>], seen |-> {}]

SubpathOf(req, t) == IF t.subpaths = <<>> THEN req.path ELSE Last(t.subpaths)

See(e, req, t) == [t EXCEPT !.seen = @ \cup {<<e, SubpathOf(req, t)>>}]

KindOf(path) == IF path \in DOMAIN Tree THEN Tree[path] ELSE "none"

\* overlay::resolve; <<>> is its std::nullopt.
StatOrIndex(dir, names) ==
  LET path == <<dir>> \o names
      final == IF KindOf(path) = "directory" THEN Append(path, Index) ELSE path
  IN  IF KindOf(final) = "file" THEN final ELSE <<>>

AnyHit(cache, e) == cache.owner # "none"
CacheHit(cache, e) == cache.owner = e

Resolve(e, req, t) ==
  IF CacheHit(t.resolve, e) THEN t
  ELSE LET q == QualifyRelativePath(SubpathOf(req, t))
       IN  [t EXCEPT !.resolve =
              [owner |-> e,
               value |-> IF q = Refused THEN <<>> ELSE StatOrIndex(Mounts[e].dir, q)]]

\* single_file::stat_file.
StatFile(e, t) ==
  IF CacheHit(t.stat, e) THEN t
  ELSE [t EXCEPT !.stat =
         [owner |-> e,
          value |-> IF KindOf(<<Mounts[e].dir>>) = "file" THEN <<Mounts[e].dir>> ELSE <<>>]]

(***************************************************************************)
(* wants                                                                   *)
(***************************************************************************)
Reads(req) == req.verb \in {"GET", "HEAD"}

OverlayWants(e, req, t) ==
  IF ~Reads(req) THEN [tags |-> t, yes |-> FALSE]
  ELSE IF QualifyRelativePath(SubpathOf(req, t)) = Refused THEN [tags |-> t, yes |-> TRUE]
  ELSE LET u == Resolve(e, req, t) IN [tags |-> u, yes |-> u.resolve.value # <<>>]

SingleFileWants(e, req, t) ==
  IF ~Reads(req) THEN [tags |-> t, yes |-> FALSE]
  ELSE LET u == StatFile(e, t) IN [tags |-> u, yes |-> u.stat.value # <<>>]

\* websocket_endpoint compares the whole path of the request, not the subpath.
WsWants(e, req) == req.verb = "GET" /\ req.path = Mounts[e].base /\ req.upgrade

Wants(e, req, t) ==
  CASE Mounts[e].kind \in {"vpath", "app"} ->
         [tags |-> t, yes |-> PathHasPrefix(SubpathOf(req, t), BasePath(e))]
    [] Mounts[e].kind = "vhost" -> [tags |-> t, yes |-> req.host \in Mounts[e].hosts]
    [] Mounts[e].kind = "overlay" -> OverlayWants(e, req, t)
    [] Mounts[e].kind = "single" -> SingleFileWants(e, req, t)
    [] OTHER -> [tags |-> t, yes |-> WsWants(e, req)]

(***************************************************************************)
(* handle and dispatch                                                     *)
(***************************************************************************)
Answered(e, status, file, t) == [by |-> e, status |-> status, file |-> file, tags |-> t]
Unanswered(t) == Answered("none", 0, <<>>, t)

OverlayHandle(e, req, t) ==
  LET u == Resolve(e, req, t)
  IN  IF QualifyRelativePath(SubpathOf(req, t)) = Refused THEN Answered(e, 403, <<>>, t)
      ELSE IF u.resolve.value = <<>> THEN Answered(e, 404, <<>>, u)
      ELSE Answered(e, 200, u.resolve.value, u)

SingleFileHandle(e, t) ==
  LET u == StatFile(e, t)
  IN  Answered(e, IF u.stat.value = <<>> THEN 404 ELSE 200, u.stat.value, u)

WsHandle(e, req, t) == Answered(e, IF req.key THEN 101 ELSE 400, <<>>, t)

Pushed(t, path) == [t EXCEPT !.subpaths = Append(@, path)]
NotPopped(t) == t
Popped(t) == [t EXCEPT !.subpaths = Front(@)]

\* vpath::on_handle: none of its own, or that of the router or the proxy built on it.
OnHandle(e, t) == IF Mounts[e].kind = "app" THEN Answered(e, 200, <<>>, t) ELSE Unanswered(t)

RECURSIVE DispatchFrom(_, _, _)
\* vpath::handle around the dispatch of its own registry.  An exception of a handler
\* passes through all of them, without a pop_back, and ends the request and its tags.
VpathHandle(e, req, t) ==
  LET u == Pushed(t, Remainder(SubpathOf(req, t), BasePath(e)))
      nested == DispatchFrom(registries[e], req, u)
      result == IF nested.by # "none" THEN nested ELSE OnHandle(e, See(e, req, nested.tags))
      left == Popped(result.tags)
  IN  IF result.by # "none" THEN [result EXCEPT !.tags = left] ELSE Answered(e, 404, <<>>, left)

VhostHandle(e, req, t) ==
  LET nested == DispatchFrom(registries[e], req, t)
  IN  IF nested.by # "none" THEN nested ELSE Answered(e, 404, <<>>, nested.tags)

Handle(e, req, t) ==
  CASE Mounts[e].kind \in {"vpath", "app"} -> VpathHandle(e, req, t)
    [] Mounts[e].kind = "vhost" -> VhostHandle(e, req, t)
    [] Mounts[e].kind = "overlay" -> OverlayHandle(e, req, t)
    [] Mounts[e].kind = "single" -> SingleFileHandle(e, t)
    [] OTHER -> WsHandle(e, req, t)

\* extension_registry::dispatch, from the first of es on.
DispatchFrom(es, req, t) ==
  IF es = <<>> THEN Unanswered(t)
  ELSE LET e == Head(es)
           asked == Wants(e, req, IF e \in Holders THEN t ELSE See(e, req, t))
       IN  IF asked.yes THEN Handle(e, req, asked.tags)
           ELSE DispatchFrom(Tail(es), req, asked.tags)

\* listener::dispatch.
Dispatch(req) ==
  LET r == DispatchFrom(registries[Top], req, NoTags)
  IN  IF r.by # "none" THEN r
      ELSE Answered(Top, IF handler THEN 200 ELSE 501, <<>>, r.tags)

Serve(req) ==
  /\ answer = None
  /\ answer' = [req |-> req] @@ Dispatch(req)
  /\ UNCHANGED <<registries, handler>>

SetHandler ==
  /\ ~handler
  /\ answer = None
  /\ handler' = TRUE
  /\ UNCHANGED <<registries, answer>>

ExtInit ==
  /\ registries = [r \in {Top} \cup Holders |-> <<>>]
  /\ handler = FALSE
  /\ answer = None

ExtNext ==
  \/ \E e \in DOMAIN Mounts : Add(e)
  \/ SetHandler
  \/ \E req \in Requests : Serve(req)

(***************************************************************************)
(* Properties                                                              *)
(***************************************************************************)
\* The bases of the vpaths around e, outermost first.
RECURSIVE Bases(_)
Bases(e) ==
  LET holder == Mounts[e].within
  IN  IF holder = Top THEN <<>>
      ELSE Bases(holder) \o
           (IF Mounts[holder].kind = "vhost" THEN <<>> ELSE BasePath(holder))

\* The subpath an extension is asked about is the request's path without the bases
\* of all the vpaths around it, however the vpaths and vhosts are nested and
\* whichever siblings declined before, and the stack of subpaths is empty again when
\* the request has been dispatched (vpath::handle pushes before its own registry is
\* asked and pops after it, vpath.cpp:50-78).
SubpathsFollowTheMounts ==
  answer # None =>
    /\ answer.tags.subpaths = <<>>
    /\ \A s \in answer.tags.seen :
         LET around == Bases(s[1]) \o
                       (IF Mounts[s[1]].kind \in {"app", "vpath"} THEN BasePath(s[1]) ELSE <<>>)
         IN  s[2] = Remainder(answer.req.path, around)

\* Paths an overlay could give: its directory and no step above it.
Inside(e, file) == file[1] = Mounts[e].dir /\ ".." \notin ToSet(file)

\* The file that is served is the one the subpath names in the directory of the
\* overlay that serves it, never one outside of it, and an overlay that declined has
\* no such file, although all the overlays of a request write the same resolve_cache:
\* what another overlay left there is neither served nor taken for a "not found"
\* (overlay.cpp:40-41).
OwnFileIsServed ==
  answer # None /\ Reads(answer.req) =>
    \A s \in answer.tags.seen :
      LET e == s[1]
          names == IF Mounts[e].kind = "single" THEN <<>> ELSE QualifyRelativePath(s[2])
          file == IF names = Refused THEN <<>> ELSE StatOrIndex(Mounts[e].dir, names)
      IN  Mounts[e].kind \in {"overlay", "single"} =>
            IF e = answer.by THEN answer.file = file /\ (file = <<>> \/ Inside(e, file))
            ELSE file = <<>>
==============================================================================
